--------------------------- MODULE SurfaceProofs ----------------------------
(***************************************************************************)
(* The surfaces over the shared database and files, for any processes,     *)
(* devices, chats, facts, versions and servers, and any number of their    *)
(* updates, starts, edits, logins and crashes.  Each part has its          *)
(* invariant and one step per action.                                      *)
(***************************************************************************)
EXTENDS TelegramBot, FactStore, Schema, McpFile, WebAuth, Integers, FiniteSetTheorems,
        WellFoundedInduction, TLAPS

(***************************************************************************)
(* The bot beside the devices.  The invariant: a table without a live local *)
(* chat has a device that will look for one or make one; the batch is what *)
(* was sent, without a hole, from the update at hand on, and what is before *)
(* it is settled; who holds a session holds a live one.                    *)
(***************************************************************************)

Rows == [channel : {"local", "telegram", "voice"}, ext : Chats \cup {NoChat}, live : BOOLEAN]
Messages == [kind : UpdateKinds, chat : Chats]

StoreTypes ==
  /\ convs \in Seq(Rows)
  /\ at \in [Devices -> Statements]
  /\ cut \in BOOLEAN

BotTypes ==
  /\ sent \in Seq(Messages)
  /\ batch \in Seq(Nat)
  /\ bot \in Places
  /\ offset \in Nat /\ confirmed \in Nat
  /\ session \in [Chats -> Nat]
  /\ ending \in [Updates -> {"open", "ignored", "answered", "dropped"}]

\* Without a live local chat, some device has yet to look for one or to make one.
SomebodyLooks ==
  ~cut => LiveLocal # {} \/ \E d \in Devices : at[d] \in {"list", "forget active", "create"}

Handling == bot \notin {"poll", "down"}

\* The batch is what was sent from the update at hand on, without a hole, and an update that
\* is routed is not one that is skipped.
BatchIsARun ==
  /\ bot \in {"load session", "route"} => sent[batch[1]].kind # "skipped"
  /\ Handling => batch # <<>>
  /\ bot = "poll" => batch = <<>>
  /\ \A i \in 1..Len(batch) : batch[i] = batch[1] + i - 1 /\ batch[i] \in 1..Len(sent)

SettledBelow(n) == \A u \in Updates : u < n => ending[u] # "open"

\* Everything below the offset, but for the update at hand, is settled.
OffsetFollows ==
  /\ confirmed <= Len(sent) /\ offset <= Len(sent) + 1
  /\ SettledBelow(confirmed + 1)
  /\ bot = "poll" => SettledBelow(offset)
  /\ Handling => SettledBelow(batch[1]) /\ offset <= batch[1] + 1

\* Who holds a session that a /clear under way has not made stale.
Holds(c) == bot # "down" /\ (bot = "create new" => c # sent[batch[1]].chat) /\ session[c] # 0

\* A conversation of the chat that nothing but a device's deletion by id has archived.
Standing(c) == {i \in Of("telegram", c) : convs[i].live \/ i \in deleted}

SessionsLive == \A c \in Chats : Holds(c) => session[c] \in Standing(c)

SurfaceInv ==
  /\ StoreTypes /\ SomebodyLooks
  /\ BotTypes /\ BatchIsARun /\ OffsetFollows /\ SessionsLive

\* One empty local chat, and a bot that holds nothing.
LEMMA SurfaceInitInv == BotInit => SurfaceInv
<1> SUFFICES ASSUME BotInit PROVE SurfaceInv OBVIOUS
<1> USE DEF BotInit, StoreInit
<1>1. Row("local", NoChat) \in Rows BY DEF Row, Rows
<1>2. convs \in Seq(Rows) /\ Len(convs) = 1 /\ convs[1] = Row("local", NoChat) BY <1>1
<1>3. StoreTypes BY <1>2 DEF StoreTypes, Statements
<1>4. 1 \in LiveLocal BY <1>2 DEF LiveLocal, Live, Of, Row
<1>5. BotTypes BY DEF BotTypes, Places, NoSession
<1>6. BatchIsARun BY DEF BatchIsARun, Handling
<1>7. OffsetFollows
  <2>1. \A u \in Updates : ~(u < 1) BY DEF Updates
  <2>2. SettledBelow(0) /\ SettledBelow(1) BY <2>1 DEF SettledBelow, Updates
  <2> QED BY <2>2 DEF OffsetFollows, Handling
<1>8. SessionsLive BY DEF SessionsLive, Holds, NoSession
<1> QED BY <1>3, <1>4, <1>5, <1>6, <1>7, <1>8 DEF SurfaceInv, SomebodyLooks

----------------------------------------------------------------------------
\* The table: a row is added at the end, or rows are archived.

\* Every row stays in its place, of its channel and chat.
RowsStay ==
  \A i \in 1..Len(convs) :
    i \in 1..Len(convs') /\ convs'[i].channel = convs[i].channel /\ convs'[i].ext = convs[i].ext

\* An insert adds its row at the end, and what was there stays.
LEMMA InsertAdds ==
  ASSUME convs \in Seq(Rows), NEW ch \in {"local", "telegram", "voice"}, NEW x \in Chats \cup {NoChat},
         Insert(ch, x)
  PROVE  /\ convs' \in Seq(Rows) /\ Len(convs') \in Nat
         /\ \A c, y : Live(c, y) \subseteq Live(c, y)'
         /\ \A c, y : c # ch => Live(c, y)' = Live(c, y)
         /\ Len(convs') \in Live(ch, x)'
         /\ RowsStay /\ \A i \in 1..Len(convs) : convs'[i].live = convs[i].live
<1>1. Row(ch, x) \in Rows BY DEF Row, Rows
<1>2. convs' = Append(convs, Row(ch, x)) BY DEF Insert
<1>3. convs' \in Seq(Rows) /\ Len(convs') = Len(convs) + 1 /\ Len(convs) \in Nat BY <1>1, <1>2
<1>4. convs'[Len(convs) + 1] = Row(ch, x) /\ \A i \in 1..Len(convs) : convs'[i] = convs[i] BY <1>1, <1>2
<1>5. \A c, y : Live(c, y) \subseteq Live(c, y)' BY <1>3, <1>4 DEF Live, Of
<1>6. Row(ch, x).channel = ch /\ Row(ch, x).ext = x /\ Row(ch, x).live BY DEF Row
<1>7. Len(convs') \in Live(ch, x)' BY <1>3, <1>4, <1>6 DEF Live, Of
<1>8. RowsStay /\ \A i \in 1..Len(convs) : convs'[i].live = convs[i].live BY <1>3, <1>4 DEF RowsStay
<1>9. \A c, y : c # ch => Live(c, y)' = Live(c, y)
  <2> SUFFICES ASSUME NEW c, NEW y, c # ch PROVE Live(c, y)' = Live(c, y) OBVIOUS
  <2>0. Live(c, y) \subseteq Live(c, y)' BY <1>5
  <2>1. ASSUME NEW i \in Live(c, y)' PROVE i \in Live(c, y)
    <3>1. i \in 1..Len(convs') /\ convs'[i].channel = c /\ convs'[i].ext = y /\ convs'[i].live
      BY <2>1 DEF Live, Of
    <3>2. i # Len(convs) + 1 BY <1>4, <1>6, <3>1
    <3> QED BY <1>3, <1>4, <3>1, <3>2 DEF Live, Of
  <2> QED BY <2>0, <2>1
<1>10. Len(convs') \in Nat BY <1>3
<1> QED BY <1>3, <1>5, <1>7, <1>8, <1>9, <1>10

\* A row that is archived is the only one that is no longer live.
LEMMA ArchiveRemoves ==
  ASSUME convs \in Seq(Rows), NEW ids, convs' = Archived(ids)
  PROVE  /\ convs' \in Seq(Rows)
         /\ \A c, y : Live(c, y)' = Live(c, y) \ ids
         /\ RowsStay /\ \A i \in 1..Len(convs) : convs'[i].live <=> convs[i].live /\ i \notin ids
<1>1. \A i \in 1..Len(convs) : convs[i] \in Rows OBVIOUS
<1>2. ASSUME NEW r \in Rows, NEW b \in BOOLEAN
      PROVE  LET s == [r EXCEPT !.live = b] IN
             s \in Rows /\ s.channel = r.channel /\ s.ext = r.ext /\ s.live = b
  BY DEF Rows
<1>3. \A i \in 1..Len(convs) : convs'[i] = [convs[i] EXCEPT !.live = convs[i].live /\ i \notin ids]
  BY DEF Archived
<1>4. ASSUME NEW i \in 1..Len(convs)
      PROVE  /\ convs'[i] \in Rows
             /\ convs'[i].channel = convs[i].channel /\ convs'[i].ext = convs[i].ext
             /\ convs'[i].live <=> convs[i].live /\ i \notin ids
  <2> DEFINE b == convs[i].live /\ i \notin ids
  <2>1. b \in BOOLEAN /\ convs'[i] = [convs[i] EXCEPT !.live = b] BY <1>3
  <2>2. convs[i] \in Rows BY <1>1
  <2> HIDE DEF b
  <2>3. convs'[i] \in Rows /\ convs'[i].channel = convs[i].channel /\ convs'[i].ext = convs[i].ext
        /\ convs'[i].live = b
    BY <1>2, <2>1, <2>2
  <2> QED BY <2>3 DEF b
<1>5. DOMAIN convs' = 1..Len(convs) /\ convs' = [i \in 1..Len(convs) |-> convs'[i]] BY DEF Archived
<1>6. Len(convs) \in Nat OBVIOUS
<1>7. convs' \in [1..Len(convs) -> Rows] BY <1>4, <1>5
<1>8. convs' \in Seq(Rows) /\ Len(convs') = Len(convs) BY <1>6, <1>7
<1>9. \A c, y : Live(c, y)' = Live(c, y) \ ids BY <1>4, <1>8 DEF Live, Of
<1>10. RowsStay BY <1>4, <1>8 DEF RowsStay
<1> QED BY <1>4, <1>8, <1>9, <1>10

\* What is live has a row.
LEMMA LiveHasRow ==
  ASSUME NEW c, NEW y, NEW i \in Live(c, y)
  PROVE  i \in 1..Len(convs) /\ convs[i].channel = c /\ convs[i].ext = y
BY DEF Live, Of

\* Rows that are kept and only appended to stay as live as they were.
LEMMA LiveStays ==
  ASSUME convs' = convs
  PROVE  \A c, y : Live(c, y)' = Live(c, y)
BY DEF Live, Of

\* And with the deletions by id, what stands of a chat.
LEMMA StandingKept ==
  ASSUME convs' = convs, deleted' = deleted
  PROVE  \A c : Standing(c) \subseteq Standing(c)'
BY DEF Standing, Of

\* A step that archives live rows of a chat only by their id leaves what stands of it.
LEMMA StandingStays ==
  ASSUME RowsStay, deleted \subseteq deleted', NEW c,
         \A i \in Live("telegram", c) : convs'[i].live \/ i \in deleted'
  PROVE  Standing(c) \subseteq Standing(c)'
<1> SUFFICES ASSUME NEW i \in Standing(c) PROVE i \in Standing(c)' OBVIOUS
<1>1. i \in 1..Len(convs) /\ convs[i].channel = "telegram" /\ convs[i].ext = c /\ (convs[i].live \/ i \in deleted)
  BY DEF Standing, Of
<1>2. i \in 1..Len(convs') /\ convs'[i].channel = "telegram" /\ convs'[i].ext = c BY <1>1 DEF RowsStay
<1>3. convs'[i].live \/ i \in deleted'
  <2>1. CASE i \in deleted BY <2>1
  <2>2. CASE convs[i].live
    <3>1. i \in Live("telegram", c) BY <1>1, <2>2 DEF Live, Of
    <3> QED BY <3>1
  <2> QED BY <1>1, <2>1, <2>2
<1> QED BY <1>2, <1>3 DEF Standing, Of

----------------------------------------------------------------------------
\* The statements of devices.

At(d, s) == at' = [at EXCEPT ![d] = s]

\* Only the device that moves is elsewhere afterwards.
LEMMA AtMoves ==
  ASSUME StoreTypes, NEW d \in Devices, NEW s \in Statements, At(d, s)
  PROVE  at' \in [Devices -> Statements] /\ at'[d] = s /\ \A e \in Devices \ {d} : at'[e] = at[e]
BY DEF At, StoreTypes

\* Who looks on after the step of one device.
LEMMA LooksOn ==
  ASSUME StoreTypes, SomebodyLooks, NEW d \in Devices, NEW s \in Statements, At(d, s), cut' = cut,
         \/ LiveLocal' # {}
         \/ s \in {"list", "forget active", "create"}
         \/ LiveLocal = {} /\ at[d] \notin {"list", "forget active", "create"}
  PROVE  SomebodyLooks'
<1>1. at'[d] = s /\ \A e \in Devices \ {d} : at'[e] = at[e] BY AtMoves
<1> QED BY <1>1 DEF SomebodyLooks, StoreTypes

\* A statement of a device keeps a local chat live or in the making, and archives a chat of Telegram by its id only.
LEMMA DeviceStep ==
  ASSUME SurfaceInv, NEW d \in Devices, StoreStep(d)
  PROVE  StoreTypes' /\ SomebodyLooks' /\ \A c : Standing(c) \subseteq Standing(c)'
<1>t. StoreTypes /\ SomebodyLooks /\ convs \in Seq(Rows) /\ cut \in BOOLEAN BY DEF SurfaceInv, StoreTypes
<1>m. \A s \in Statements : At(d, s) => at' \in [Devices -> Statements] BY <1>t, AtMoves
\* A statement that only reads, of a device that need not look on.
<1>r. ASSUME NEW s \in Statements, At(d, s), cut' = cut, convs' = convs, deleted' = deleted,
             \/ LiveLocal # {} \/ s \in {"list", "forget active", "create"}
             \/ at[d] \notin {"list", "forget active", "create"}
      PROVE  StoreTypes' /\ SomebodyLooks' /\ \A c : Standing(c) \subseteq Standing(c)'
  <2>1. StoreTypes' BY <1>m, <1>r, <1>t DEF StoreTypes
  <2>2. \A c, y : Live(c, y)' = Live(c, y) BY <1>r, LiveStays
  <2>3. LiveLocal' = LiveLocal BY <2>2 DEF LiveLocal
  <2>4. SomebodyLooks' BY <1>t, <1>r, <2>3, LooksOn
  <2>5. \A c : Standing(c) \subseteq Standing(c)' BY <1>r, StandingKept
  <2> QED BY <2>1, <2>4, <2>5
\* One that archives local rows, or others by their id, and looks on.
<1>a. ASSUME NEW s \in {"list", "forget active", "create"}, At(d, s), cut' = cut, NEW ids, convs' = Archived(ids),
             deleted \subseteq deleted', \A i \in ids : convs[i].channel = "local" \/ i \in deleted'
      PROVE  StoreTypes' /\ SomebodyLooks' /\ \A c : Standing(c) \subseteq Standing(c)'
  <2>0. s \in Statements BY DEF Statements
  <2>1. StoreTypes' BY <1>m, <1>a, <1>t, <2>0, ArchiveRemoves DEF StoreTypes
  <2>2. RowsStay /\ \A i \in 1..Len(convs) : convs'[i].live <=> convs[i].live /\ i \notin ids
    BY <1>t, <1>a, ArchiveRemoves
  <2>3. \A c : Standing(c) \subseteq Standing(c)'
    <3> SUFFICES ASSUME NEW c PROVE Standing(c) \subseteq Standing(c)' OBVIOUS
    <3>1. ASSUME NEW i \in Live("telegram", c) PROVE convs'[i].live \/ i \in deleted'
      <4>1. i \in 1..Len(convs) /\ convs[i].channel = "telegram" /\ convs[i].live BY <3>1 DEF Live, Of
      <4>2. i \in ids => i \in deleted' BY <1>a, <4>1
      <4> QED BY <2>2, <4>1, <4>2
    <3> QED BY <1>a, <2>2, <3>1, StandingStays
  <2>4. SomebodyLooks' BY <1>t, <1>a, <2>0, LooksOn
  <2> QED BY <2>1, <2>3, <2>4
\* One that inserts.
<1>i. ASSUME NEW s \in Statements, At(d, s), cut' = cut, deleted' = deleted, NEW ch \in {"local", "voice"}, Insert(ch, NoChat),
             ch = "local" \/ at[d] \notin {"list", "forget active", "create"}
      PROVE  StoreTypes' /\ SomebodyLooks' /\ \A c : Standing(c) \subseteq Standing(c)'
  <2>1. /\ convs' \in Seq(Rows) /\ \A c, y : Live(c, y) \subseteq Live(c, y)'
        /\ Len(convs') \in Live(ch, NoChat)'
        /\ \A c, y : c # ch => Live(c, y)' = Live(c, y)
    BY <1>t, <1>i, InsertAdds
  <2>2. StoreTypes' BY <1>m, <1>i, <1>t, <2>1 DEF StoreTypes
  <2>3. LiveLocal' # {} \/ (LiveLocal = {} /\ at[d] \notin {"list", "forget active", "create"})
    <3>0. Len(convs') \in Live(ch, NoChat)' BY <2>1
    <3>1. CASE ch = "local" BY <3>0, <3>1 DEF LiveLocal
    <3>2. CASE ch = "voice" BY <1>i, <2>1, <3>2 DEF LiveLocal
    <3> QED BY <3>1, <3>2
  <2>4. SomebodyLooks' BY <1>t, <1>i, <2>3, LooksOn
  <2>5. \A c : Standing(c) \subseteq Standing(c)'
    <3> SUFFICES ASSUME NEW c PROVE Standing(c) \subseteq Standing(c)' OBVIOUS
    <3>1. RowsStay /\ \A j \in 1..Len(convs) : convs'[j].live = convs[j].live BY <1>t, <1>i, InsertAdds
    <3>2. \A j \in Live("telegram", c) : convs'[j].live \/ j \in deleted' BY <3>1 DEF Live, Of
    <3> QED BY <1>i, <3>1, <3>2, StandingStays
  <2> QED BY <2>2, <2>4, <2>5
<1>s. at[d] \in Statements BY <1>t DEF StoreTypes
<1>1. ASSUME NEW i \in 1..Len(convs), OpenChat(d, i)
      PROVE  StoreTypes' /\ SomebodyLooks' /\ \A c : Standing(c) \subseteq Standing(c)'
  <2>1. convs' = convs /\ at' = at /\ cut' = cut /\ deleted' = deleted BY <1>1 DEF OpenChat
  <2>2. At(d, at[d]) BY <1>t, <2>1 DEF At, StoreTypes
  <2> QED BY <1>1, <1>r, <1>s, <2>1, <2>2 DEF OpenChat
<1>2. CASE Begin(d)
  <2>1. PICK s \in {"create", "archive", "archive all", "read active", "find voice"} : AtStatement(d, "idle", s)
    BY <1>2 DEF Begin
  <2>2. at[d] = "idle" /\ At(d, s) BY <2>1 DEF AtStatement, At
  <2> QED BY <1>2, <1>r, <2>1, <2>2 DEF Begin, Statements
<1>3. CASE ArchiveOne(d)
  <2>1. PICK i \in 1..Len(convs) :
          convs' = Archived({i}) /\ deleted' = IF convs[i].channel = "local" THEN deleted ELSE deleted \union {i}
    BY <1>3 DEF ArchiveOne
  <2>2. At(d, "list") /\ cut' = cut BY <1>3 DEF ArchiveOne, AtStatement, At
  <2> DEFINE ids == {i}
  <2>3. /\ convs' = Archived(ids) /\ deleted \subseteq deleted'
        /\ \A j \in ids : convs[j].channel = "local" \/ j \in deleted'
    BY <2>1
  <2> HIDE DEF ids
  <2> QED BY <1>a, <2>2, <2>3
<1>4. CASE List(d)
  <2> DEFINE s == IF LiveLocal = {} THEN "create" ELSE "activate"
  <2>1. /\ s \in Statements /\ At(d, s) /\ (LiveLocal # {} \/ s = "create")
        /\ convs' = convs /\ cut' = cut /\ deleted' = deleted
    BY <1>4 DEF List, At, Statements
  <2> QED BY <1>r, <2>1
<1>5. CASE ArchiveLocal(d)
  <2>1. \A i \in LiveLocal : convs[i].channel = "local" BY LiveHasRow DEF LiveLocal
  <2> QED BY <1>5, <1>a, <2>1 DEF ArchiveLocal, AtStatement, At
<1>6. CASE ForgetActive(d)
  BY <1>6, <1>r DEF ForgetActive, AtStatement, At, Statements
<1>7. CASE NewLocal(d)
  BY <1>7, <1>i DEF NewLocal, AtStatement, At, Statements
<1>8. CASE SetActive(d)
  BY <1>8, <1>r DEF SetActive, AtStatement, At, Statements
<1>9. CASE ReadActive(d)
  BY <1>9, <1>r DEF ReadActive, AtStatement, At, Statements
<1>10. CASE CheckLive(d)
  <2> DEFINE s == IF found[d] \in LiveLocal THEN "idle" ELSE "create"
  <2>1. /\ s \in Statements /\ At(d, s) /\ at[d] = "check live"
        /\ convs' = convs /\ cut' = cut /\ deleted' = deleted
    BY <1>10 DEF CheckLive, AtStatement, At, Statements
  <2> QED BY <1>r, <2>1
<1>11. CASE EnsureVoice(d)
  <2>1. ASSUME NEW here \in {"find voice", "find again"}, NEW other \in {"insert voice", "idle"}, FindVoice(d, here, other)
        PROVE  StoreTypes' /\ SomebodyLooks' /\ \A c : Standing(c) \subseteq Standing(c)'
    <3> DEFINE s == IF Live("voice", NoChat) = {} THEN other ELSE "idle"
    <3>1. s \in Statements /\ At(d, s) /\ at[d] = here /\ convs' = convs /\ cut' = cut /\ deleted' = deleted
      BY <2>1 DEF FindVoice, At, Statements
    <3> QED BY <1>r, <3>1
  <2>2. CASE InsertVoice(d)
    <3>1. at[d] = "insert voice" /\ cut' = cut /\ deleted' = deleted BY <2>2 DEF InsertVoice
    <3>2. CASE Insert("voice", NoChat) /\ At(d, "idle") BY <1>i, <3>1, <3>2 DEF Statements
    <3>3. CASE At(d, "find again") /\ convs' = convs BY <1>r, <3>1, <3>3 DEF Statements
    <3> QED BY <2>2, <3>2, <3>3 DEF InsertVoice, At
  <2> QED BY <1>11, <2>1, <2>2 DEF EnsureVoice
<1>12. CASE Fault(d)
  <2>1. At(d, "idle") /\ convs' = convs /\ cut' = (cut \/ at[d] \in Deleting) /\ deleted' = deleted
    BY <1>12 DEF Fault, At
  <2>2. CASE at[d] \in Deleting
    <3>1. cut' = TRUE BY <2>1, <2>2
    <3>2. StoreTypes' BY <1>m, <1>t, <2>1, <3>1 DEF StoreTypes, Statements
    <3> QED BY <2>1, <3>1, <3>2, StandingKept DEF SomebodyLooks
  <2>3. CASE at[d] \notin Deleting
    <3>1. cut' = cut BY <1>t, <2>1, <2>3
    <3> QED BY <1>r, <2>1, <2>3, <3>1 DEF Deleting, Statements
  <2> QED BY <2>2, <2>3
<1> QED BY <1>1, <1>2, <1>3, <1>4, <1>5, <1>6, <1>7, <1>8, <1>9, <1>10, <1>11, <1>12 DEF StoreStep, Statement

----------------------------------------------------------------------------
\* The bot.

\* Without the update at hand, the batch still has no hole.
LEMMA HeadIsFirst ==
  ASSUME batch \in Seq(Nat), batch # <<>>
  PROVE  Update = batch[1] /\ Len(batch) \in Nat \ {0} /\ Update \in Nat
BY DEF Update

\* The update at hand is one that was sent.
LEMMA AtHand ==
  ASSUME BotTypes, BatchIsARun, Handling
  PROVE  /\ Update = batch[1] /\ Update \in 1..Len(sent)
         /\ Len(batch) \in Nat \ {0} /\ Chat = sent[batch[1]].chat /\ Chat \in Chats
<1>1. batch \in Seq(Nat) /\ batch # <<>> BY DEF BotTypes, BatchIsARun
<1>2. Update = batch[1] /\ Len(batch) \in Nat \ {0} BY <1>1, HeadIsFirst
<1>3. batch[1] \in 1..Len(sent)
  <2>1. 1 \in 1..Len(batch) BY <1>2
  <2> QED BY <2>1 DEF BatchIsARun
<1>4. sent[batch[1]] \in Messages BY <1>3 DEF BotTypes
<1>5. sent[batch[1]].chat \in Chats BY <1>4 DEF Messages
<1> QED BY <1>2, <1>3, <1>5 DEF Chat

\* The bot goes on with the same update.
LEMMA BotGoesOn ==
  ASSUME BotTypes, BatchIsARun, OffsetFollows, Handling, bot' \in Places \ {"poll", "down"},
         bot' \in {"load session", "route"} => bot \in {"load session", "route"},
         UNCHANGED <<sent, confirmed, offset, batch, ending>>, session' \in [Chats -> Nat]
  PROVE  BotTypes' /\ BatchIsARun' /\ OffsetFollows'
<1>1. sent' = sent /\ confirmed' = confirmed /\ offset' = offset /\ batch' = batch /\ ending' = ending
  OBVIOUS
<1>2. BotTypes' BY <1>1 DEF BotTypes
<1>3. Handling' BY DEF Handling
<1>4. BatchIsARun' BY <1>1, <1>3 DEF BatchIsARun, Handling
<1>5. \A n : SettledBelow(n)' = SettledBelow(n) BY <1>1 DEF SettledBelow
<1>6. SettledBelow(confirmed + 1)' /\ SettledBelow(batch[1])'
  BY <1>1, <1>5 DEF OffsetFollows, SettledBelow
<1>7. OffsetFollows' BY <1>1, <1>3, <1>6 DEF OffsetFollows, Handling
<1> QED BY <1>2, <1>4, <1>7

\* The update at hand is settled, and the offset may follow.
LEMMA BotSettles ==
  ASSUME BotTypes, BatchIsARun, OffsetFollows, Handling,
         NEW how \in {"ignored", "answered", "dropped"}, Settle(how), UNCHANGED <<sent, confirmed>>,
         session' = session, offset' \in {offset, Update + 1}
  PROVE  BotTypes' /\ BatchIsARun' /\ OffsetFollows' /\ bot' \in {"poll", "handle"}
<1>1. sent' = sent /\ confirmed' = confirmed /\ Len(sent) \in Nat OBVIOUS
<1>2. /\ ending' = [ending EXCEPT ![Update] = how] /\ batch' = Tail(batch)
      /\ bot' = IF batch' = <<>> THEN "poll" ELSE "handle"
  BY DEF Settle
<1>3. Update = batch[1] /\ Update \in 1..Len(sent) /\ Len(batch) \in Nat \ {0} BY AtHand
<1>4. batch \in Seq(Nat) /\ batch # <<>> BY DEF BotTypes, BatchIsARun
<1>5. batch' \in Seq(Nat) /\ Len(batch') = Len(batch) - 1 /\ \A i \in 1..Len(batch') : batch'[i] = batch[i + 1]
  BY <1>2, <1>4
<1>6. batch' = <<>> \/ Len(batch') \in Nat \ {0} BY <1>5
<1>7. BotTypes'
  <2>1. bot' \in {"poll", "handle"} BY <1>2
  <2>2. bot' \in Places BY <2>1 DEF Places
  <2>3. offset' \in Nat BY <1>3 DEF BotTypes
  <2>4. ending' \in [Updates -> {"open", "ignored", "answered", "dropped"}] BY <1>2 DEF BotTypes
  <2>5. session' \in [Chats -> Nat] /\ sent' \in Seq(Messages) /\ confirmed' \in Nat BY <1>1 DEF BotTypes
  <2> QED BY <1>5, <2>2, <2>3, <2>4, <2>5 DEF BotTypes
<1>8. \A i \in 1..Len(batch') : batch'[i] = Update + i /\ batch'[i] \in 1..Len(sent)
  <2> SUFFICES ASSUME NEW i \in 1..Len(batch') PROVE batch'[i] = Update + i /\ batch'[i] \in 1..Len(sent)
    OBVIOUS
  <2>1. i + 1 \in 1..Len(batch) /\ i \in Nat BY <1>3, <1>5
  <2>2. batch[i + 1] = batch[1] + (i + 1) - 1 /\ batch[i + 1] \in 1..Len(sent) BY <2>1 DEF BatchIsARun
  <2>3. batch'[i] = batch[i + 1] BY <1>5
  <2> QED BY <1>3, <2>1, <2>2, <2>3
<1>9. \A i \in 1..Len(batch') : batch'[i] = batch'[1] + i - 1
  <2> SUFFICES ASSUME NEW i \in 1..Len(batch') PROVE batch'[i] = batch'[1] + i - 1
    OBVIOUS
  <2>1. 1 \in 1..Len(batch') /\ i \in Nat BY <1>3, <1>5
  <2>2. batch'[1] = Update + 1 /\ batch'[i] = Update + i BY <1>8, <2>1
  <2> QED BY <1>3, <2>1, <2>2
<1>10. BatchIsARun'
  <2>1. Handling' => batch' # <<>> BY <1>2 DEF Handling
  <2>2. (bot' = "poll" => batch' = <<>>) /\ bot' \notin {"load session", "route"} BY <1>2
  <2>3. Len(sent') = Len(sent) BY <1>1
  <2> QED BY <1>8, <1>9, <2>1, <2>2, <2>3 DEF BatchIsARun
<1>11. \A u \in Updates : ending[u] # "open" \/ u = Update => ending'[u] # "open"
  BY <1>2 DEF BotTypes
<1>12. SettledBelow(batch[1]) /\ offset \in Nat /\ offset <= Update + 1 /\ confirmed \in Nat
       /\ confirmed <= Len(sent) /\ SettledBelow(confirmed + 1)
  BY <1>3 DEF OffsetFollows, BotTypes
<1>13. \A u \in Updates : u \in Int BY DEF Updates
<1>14. \A n \in Nat : n <= Update + 1 => SettledBelow(n)'
  BY <1>3, <1>11, <1>12, <1>13 DEF SettledBelow
<1>15. offset' \in Nat /\ offset' <= Update + 1 /\ Update \in Nat BY <1>3, <1>12
<1>16. SettledBelow(confirmed + 1)'
  BY <1>1, <1>11, <1>12 DEF SettledBelow
<1>17. bot' = "poll" => SettledBelow(offset)'
  BY <1>14, <1>15 DEF SettledBelow
<1>18. Handling' => SettledBelow(batch[1])' /\ offset' <= batch'[1] + 1
  <2> SUFFICES ASSUME batch' # <<>> PROVE SettledBelow(batch[1])' /\ offset' <= batch'[1] + 1
    BY <1>2 DEF Handling
  <2>1. 1 \in 1..Len(batch') BY <1>6
  <2>2. batch'[1] = Update + 1 BY <1>8, <2>1
  <2>3. SettledBelow(batch[1])' BY <1>14, <1>15, <2>2 DEF SettledBelow
  <2> QED BY <1>15, <2>2, <2>3
<1>19. OffsetFollows'
  BY <1>1, <1>12, <1>15, <1>3, <1>16, <1>17, <1>18 DEF OffsetFollows
<1> QED BY <1>2, <1>7, <1>10, <1>19

\* Sessions whose holders do not become more, over rows that stay live.
LEMMA SessionsStay ==
  ASSUME SessionsLive, session' = session,
         \A c \in Chats : Holds(c)' => Holds(c),
         \A c \in Chats : Holds(c) => Standing(c) \subseteq Standing(c)'
  PROVE  SessionsLive'
BY DEF SessionsLive

----------------------------------------------------------------------------
\* What the bot does to the table.
LEMMA BotRows ==
  ASSUME StoreTypes, SomebodyLooks, at' = at, cut' = cut, deleted' = deleted, NEW x \in Chats,
         convs' = convs \/ Insert("telegram", x) \/ convs' = Archived(Live("telegram", x))
  PROVE  /\ StoreTypes' /\ SomebodyLooks'
         /\ \A c : c # x => Standing(c) \subseteq Standing(c)'
<1>1. CASE convs' = convs
  <2>1. \A c, y : Live(c, y)' = Live(c, y) BY <1>1, LiveStays
  <2>2. LiveLocal' = LiveLocal BY <2>1 DEF LiveLocal
  <2>3. \A c : Standing(c) \subseteq Standing(c)' BY <1>1, StandingKept
  <2> QED BY <1>1, <2>2, <2>3 DEF StoreTypes, SomebodyLooks
<1>2. CASE Insert("telegram", x)
  <2>1. /\ convs' \in Seq(Rows) /\ \A c, y : c # "telegram" => Live(c, y)' = Live(c, y)
        /\ RowsStay /\ \A i \in 1..Len(convs) : convs'[i].live = convs[i].live
    BY <1>2, InsertAdds DEF StoreTypes
  <2>2. LiveLocal' = LiveLocal BY <2>1 DEF LiveLocal
  <2>3. ASSUME NEW c PROVE Standing(c) \subseteq Standing(c)'
    <3>1. \A i \in Live("telegram", c) : convs'[i].live \/ i \in deleted' BY <2>1 DEF Live, Of
    <3> QED BY <2>1, <3>1, StandingStays
  <2> QED BY <2>1, <2>2, <2>3 DEF StoreTypes, SomebodyLooks
<1>3. CASE convs' = Archived(Live("telegram", x))
  <2> DEFINE ids == Live("telegram", x)
  <2>1. /\ convs' \in Seq(Rows) /\ \A c, y : Live(c, y)' = Live(c, y) \ ids
        /\ RowsStay /\ \A i \in 1..Len(convs) : convs'[i].live <=> convs[i].live /\ i \notin ids
    BY <1>3, ArchiveRemoves DEF StoreTypes
  <2>2. \A i \in Live("telegram", x) : convs[i].channel = "telegram" /\ convs[i].ext = x BY LiveHasRow
  <2>3. \A i \in LiveLocal : convs[i].channel = "local" BY LiveHasRow DEF LiveLocal
  <2>4. LiveLocal' = LiveLocal BY <2>1, <2>2, <2>3 DEF LiveLocal
  <2>5. ASSUME NEW c, c # x PROVE Standing(c) \subseteq Standing(c)'
    <3>1. \A i \in Live("telegram", c) : i \in 1..Len(convs) /\ convs[i].ext = c /\ convs[i].live
      BY DEF Live, Of
    <3>2. \A i \in Live("telegram", c) : i \notin ids BY <2>2, <2>5, <3>1
    <3>3. \A i \in Live("telegram", c) : convs'[i].live \/ i \in deleted' BY <2>1, <3>1, <3>2
    <3> QED BY <2>1, <3>3, StandingStays
  <2> QED BY <2>1, <2>4, <2>5 DEF StoreTypes, SomebodyLooks
<1> QED BY <1>1, <1>2, <1>3

\* A step that leaves the table alone, with no more sessions held than before.
LEMMA TableStays ==
  ASSUME SurfaceInv, UNCHANGED storeVars
  PROVE  /\ StoreTypes' /\ SomebodyLooks'
         /\ session' = session /\ (\A c \in Chats : Holds(c)' => Holds(c)) => SessionsLive'
<1>1. convs' = convs /\ at' = at /\ cut' = cut /\ deleted' = deleted BY DEF storeVars
<1>2. \A c, y : Live(c, y)' = Live(c, y) BY <1>1, LiveStays
<1>3. LiveLocal' = LiveLocal BY <1>2 DEF LiveLocal
<1>4. StoreTypes' /\ SomebodyLooks' BY <1>1, <1>3 DEF SurfaceInv, StoreTypes, SomebodyLooks
<1>5. ASSUME session' = session, \A c \in Chats : Holds(c)' => Holds(c) PROVE SessionsLive'
  BY <1>1, <1>5, SessionsStay, StandingKept DEF SurfaceInv
<1> QED BY <1>4, <1>5

\* The bot, the users who write to it and its crashes keep the invariant: one step per action.
LEMMA BotKeepsInv == SurfaceInv /\ (Send \/ BotStep \/ Crash) => SurfaceInv'
<1> SUFFICES ASSUME SurfaceInv, Send \/ BotStep \/ Crash PROVE SurfaceInv' OBVIOUS
<1>t. /\ StoreTypes /\ SomebodyLooks /\ BotTypes /\ BatchIsARun /\ OffsetFollows /\ SessionsLive
      /\ session \in [Chats -> Nat] /\ bot \in Places
  BY DEF SurfaceInv, BotTypes
\* The bot goes on with the same update, and leaves the table and the sessions alone.
<1>g. ASSUME Handling, bot # "create new", UNCHANGED storeVars,
             bot' \in Places \ {"poll", "down", "create new", "load session", "route"},
             UNCHANGED <<sent, confirmed, batch, ending, session, offset>>
      PROVE  SurfaceInv'
  <2>1. session' = session BY <1>g
  <2>2. BotTypes' /\ BatchIsARun' /\ OffsetFollows' BY <1>g, <1>t, <2>1, BotGoesOn
  <2>3. \A c \in Chats : Holds(c)' => Holds(c) BY <1>g, <2>1 DEF Holds, Handling
  <2>4. StoreTypes' /\ SomebodyLooks' /\ SessionsLive' BY <1>g, <2>1, <2>3, TableStays
  <2> QED BY <2>2, <2>4 DEF SurfaceInv
\* It settles the update.
<1>e. ASSUME Handling, bot # "create new", NEW how \in {"ignored", "answered", "dropped"}, Settle(how),
             UNCHANGED <<convs, at, cut, deleted>>, UNCHANGED <<sent, confirmed, session>>, offset' \in {offset, Update + 1}
      PROVE  SurfaceInv'
  <2>1. session' = session BY <1>e
  <2>2. BotTypes' /\ BatchIsARun' /\ OffsetFollows' /\ bot' \in {"poll", "handle"}
    BY <1>e, <1>t, <2>1, BotSettles
  <2>3. \A c \in Chats : Holds(c)' => Holds(c) BY <1>e, <2>1, <2>2 DEF Holds, Handling
  <2>4. \A c, y : Live(c, y)' = Live(c, y) BY <1>e, LiveStays
  <2>5. SessionsLive' BY <1>t, <1>e, <2>1, <2>3, SessionsStay, StandingKept
  <2>6. LiveLocal' = LiveLocal BY <2>4 DEF LiveLocal
  <2>7. StoreTypes' /\ SomebodyLooks' BY <1>t, <1>e, <2>6 DEF StoreTypes, SomebodyLooks
  <2> QED BY <2>2, <2>5, <2>7 DEF SurfaceInv
<1>1. CASE Send
  <2>1. PICK k \in UpdateKinds, c \in Chats : sent' = Append(sent, [kind |-> k, chat |-> c]) BY <1>1 DEF Send
  <2>2. /\ confirmed' = confirmed /\ bot' = bot /\ offset' = offset /\ batch' = batch /\ session' = session
        /\ ending' = ending /\ UNCHANGED storeVars
    BY <1>1 DEF Send
  <2>3. [kind |-> k, chat |-> c] \in Messages BY DEF Messages
  <2>4. sent \in Seq(Messages) /\ Len(sent) \in Nat BY <1>t DEF BotTypes
  <2>5. sent' \in Seq(Messages) /\ Len(sent') = Len(sent) + 1 /\ \A i \in 1..Len(sent) : sent'[i] = sent[i]
    BY <2>1, <2>3, <2>4
  <2>6. BotTypes' BY <1>t, <2>2, <2>5 DEF BotTypes
  <2>7. BatchIsARun'
    <3>1. bot \in {"load session", "route"} => batch[1] \in 1..Len(sent) BY <1>t, AtHand DEF Handling
    <3>2. bot' \in {"load session", "route"} => sent'[batch'[1]].kind # "skipped"
      BY <1>t, <2>2, <2>5, <3>1 DEF BatchIsARun
    <3>3. \A i \in 1..Len(sent) : i \in 1..Len(sent') BY <2>4, <2>5
    <3> QED BY <1>t, <2>2, <3>2, <3>3 DEF BatchIsARun, Handling
  <2>8. OffsetFollows'
    <3>1. SettledBelow(confirmed + 1)' /\ (bot' = "poll" => SettledBelow(offset)')
          /\ (Handling' => SettledBelow(batch[1])' /\ offset' <= batch'[1] + 1)
      BY <1>t, <2>2 DEF OffsetFollows, SettledBelow, Handling
    <3>2. confirmed' <= Len(sent') /\ offset' <= Len(sent') + 1
      BY <1>t, <2>2, <2>4, <2>5 DEF OffsetFollows, BotTypes
    <3> QED BY <3>1, <3>2 DEF OffsetFollows
  <2>9. \A b \in Chats : Holds(b)' => Holds(b)
    <3>1. CASE bot = "create new"
      <4>1. batch[1] \in 1..Len(sent) BY <1>t, <3>1, AtHand DEF Handling
      <4> QED BY <2>2, <2>5, <4>1 DEF Holds
    <3>2. CASE bot # "create new" BY <2>2, <3>2 DEF Holds
    <3> QED BY <3>1, <3>2
  <2>10. StoreTypes' /\ SomebodyLooks' /\ SessionsLive' BY <2>2, <2>9, TableStays
  <2> QED BY <2>6, <2>7, <2>8, <2>10 DEF SurfaceInv
<1>2. CASE Poll
  <2>1. /\ bot = "poll" /\ batch = <<>> /\ UNCHANGED storeVars
        /\ sent' = sent /\ offset' = offset /\ session' = session /\ ending' = ending
        /\ confirmed' = Upto(offset)
    BY <1>2 DEF Poll
  <2> DEFINE n == Upto(offset)
  <2>2. /\ Len(sent) \in Nat /\ offset \in Nat /\ confirmed \in Nat /\ confirmed <= Len(sent) /\ offset <= Len(sent) + 1
        /\ SettledBelow(offset) /\ SettledBelow(confirmed + 1)
    BY <1>t, <2>1 DEF OffsetFollows, BotTypes
  <2>3. n \in Nat /\ n <= Len(sent) /\ offset <= n + 1 /\ (n = confirmed \/ n + 1 = offset)
    BY <2>2 DEF Upto
  <2>4. SettledBelow(n + 1)
    <3>1. CASE n = confirmed BY <2>2, <3>1
    <3>2. CASE n + 1 = offset BY <2>2, <3>2
    <3> QED BY <2>3, <3>1, <3>2
  <2> HIDE DEF n
  <2>5. Len(sent) - n \in Nat BY <2>2, <2>3
  <2>6. \/ batch' = [i \in 1..(Len(sent) - n) |-> n + i] /\ bot' = IF batch' = <<>> THEN "poll" ELSE "handle"
        \/ batch' = <<>> /\ bot' = "poll"
    BY <1>2, <2>1 DEF Poll, Unconfirmed, n
  <2>7. \/ batch' = <<>> /\ bot' = "poll"
        \/ /\ bot' = "handle" /\ batch' # <<>> /\ batch' \in Seq(Nat) /\ Len(batch') = Len(sent) - n
           /\ \A i \in 1..Len(batch') : batch'[i] = n + i
    <3>1. CASE batch' = [i \in 1..(Len(sent) - n) |-> n + i] /\ bot' = IF batch' = <<>> THEN "poll" ELSE "handle"
      <4>1. \A i \in 1..(Len(sent) - n) : n + i \in Nat BY <2>3, <2>5
      <4>2. batch' \in Seq(Nat) /\ Len(batch') = Len(sent) - n BY <2>5, <3>1, <4>1
      <4> QED BY <3>1, <4>2
    <3> QED BY <2>6, <3>1
  <2>8. BotTypes' BY <1>t, <2>1, <2>3, <2>7 DEF BotTypes, Places, n
  <2>9. BatchIsARun'
    <3>1. CASE batch' = <<>> BY <2>1, <2>7, <3>1 DEF BatchIsARun, Handling
    <3>2. CASE batch' # <<>>
      <4> SUFFICES ASSUME NEW i \in 1..Len(batch')
                   PROVE  batch'[i] = batch'[1] + i - 1 /\ batch'[i] \in 1..Len(sent)
        BY <2>1, <2>7, <3>2 DEF BatchIsARun, Handling
      <4>1. i \in Nat /\ 1 <= i /\ i <= Len(sent) - n /\ 1 \in 1..Len(batch') BY <2>5, <2>7, <3>2
      <4>2. batch'[i] = n + i /\ batch'[1] = n + 1 BY <2>7, <3>2, <4>1
      <4> QED BY <2>2, <2>3, <4>1, <4>2
    <3> QED BY <3>1, <3>2
  <2>10. OffsetFollows'
    <3>1. \A k : SettledBelow(k) => \A u \in Updates : u < k => ending'[u] # "open"
      BY <2>1 DEF SettledBelow
    <3>2. SettledBelow(confirmed + 1)' BY <2>1, <2>4, <3>1 DEF SettledBelow, n
    <3>3. bot' = "poll" => SettledBelow(offset)' BY <2>1, <2>2, <3>1 DEF SettledBelow
    <3>4. Handling' => SettledBelow(batch[1])' /\ offset' <= batch'[1] + 1
      <4> SUFFICES ASSUME bot' = "handle" PROVE SettledBelow(batch[1])' /\ offset' <= batch'[1] + 1
        BY <2>7 DEF Handling
      <4>1. batch'[1] = n + 1
        <5>1. 1 \in 1..Len(batch') BY <2>5, <2>7
        <5> QED BY <2>7, <5>1
      <4>2. SettledBelow(batch[1])' BY <2>4, <3>1, <4>1 DEF SettledBelow
      <4> QED BY <2>1, <2>2, <2>3, <4>1, <4>2
    <3> QED BY <2>1, <2>2, <2>3, <3>2, <3>3, <3>4 DEF OffsetFollows, n
  <2>11. \A c \in Chats : Holds(c)' => Holds(c) BY <2>1, <2>7 DEF Holds
  <2>12. StoreTypes' /\ SomebodyLooks' /\ SessionsLive' BY <2>1, <2>11, TableStays
  <2> QED BY <2>8, <2>9, <2>10, <2>12 DEF SurfaceInv
<1>3. CASE Handle
  <2>1. /\ bot = "handle" /\ UNCHANGED storeVars /\ sent' = sent /\ confirmed' = confirmed /\ session' = session
        /\ offset' \in {offset, Update + 1}
    BY <1>3 DEF Handle
  <2>2. CASE Settle("ignored") BY <1>e, <2>1, <2>2 DEF Handling, storeVars
  <2>3. CASE bot' = "load session" /\ UNCHANGED <<batch, ending>>
    <3>1. batch' = batch /\ ending' = ending BY <2>3
    <3>2. Handling /\ Handling' BY <2>1, <2>3 DEF Handling
    <3>3. Update = batch[1] /\ Update \in 1..Len(sent) /\ Len(sent) \in Nat BY <1>t, <3>2, AtHand DEF BotTypes
    <3>4. offset' \in Nat /\ offset' <= batch[1] + 1 /\ offset' <= Len(sent) + 1
      BY <1>t, <2>1, <3>2, <3>3 DEF OffsetFollows, BotTypes
    <3>5. BotTypes' BY <1>t, <2>1, <2>3, <3>1, <3>4 DEF BotTypes, Places
    <3>k. sent[batch[1]].kind # "skipped"
      <4>1. CASE Kind = "skipped" BY <1>3, <2>1, <2>3, <3>2, <4>1 DEF Handle, Settle
      <4>2. CASE Kind # "skipped" BY <3>3, <4>2 DEF Kind
      <4> QED BY <4>1, <4>2
    <3>6. BatchIsARun' BY <1>t, <2>1, <2>3, <3>1, <3>2, <3>k DEF BatchIsARun
    <3>7. SettledBelow(confirmed + 1)' /\ SettledBelow(batch[1])'
      BY <1>t, <2>1, <3>1, <3>2 DEF OffsetFollows, SettledBelow
    <3>8. OffsetFollows' BY <1>t, <2>1, <2>3, <3>1, <3>4, <3>7 DEF OffsetFollows
    <3>9. \A c \in Chats : Holds(c)' => Holds(c) BY <2>1, <2>3, <3>1 DEF Holds
    <3>10. StoreTypes' /\ SomebodyLooks' /\ SessionsLive' BY <2>1, <3>9, TableStays
    <3> QED BY <3>5, <3>6, <3>8, <3>10 DEF SurfaceInv
  <2> QED BY <1>3, <2>2, <2>3 DEF Handle
<1>4. CASE LoadSession
  <2>1. bot = "load session" /\ UNCHANGED <<sent, confirmed, offset>> BY <1>4 DEF LoadSession
  <2>2. Handling /\ Chat \in Chats /\ Chat = sent[batch[1]].chat BY <1>t, <2>1, AtHand DEF Handling
  <2>x. PICK x \in Chats : x = Chat BY <2>2
  <2>3. ASSUME NEW i \in Nat, SessionLoaded(i), UNCHANGED <<batch, ending, at, cut, deleted>>,
               convs' = convs \/ Insert("telegram", x), i # 0 => i \in Standing(x)'
        PROVE  SurfaceInv'
    <3>1. session' = [session EXCEPT ![Chat] = i] /\ bot' = "route" BY <2>3 DEF SessionLoaded, Goto
    <3>2. session' \in [Chats -> Nat] BY <1>t, <2>2, <3>1
    <3>3. BotTypes' /\ BatchIsARun' /\ OffsetFollows'
      BY <1>t, <2>1, <2>2, <2>3, <3>1, <3>2, BotGoesOn DEF Places
    <3>4. at' = at /\ cut' = cut /\ deleted' = deleted BY <2>3
    <3>5. StoreTypes' /\ SomebodyLooks' /\ \A c : c # x => Standing(c) \subseteq Standing(c)'
      BY <1>t, <2>3, <3>4, BotRows
    <3>6. SessionsLive'
      <4> SUFFICES ASSUME NEW c \in Chats, Holds(c)' PROVE session'[c] \in Standing(c)'
        BY DEF SessionsLive
      <4>1. CASE c = x
        <5>1. session'[c] = i BY <1>t, <2>x, <3>1, <4>1
        <5>2. i # 0 BY <5>1 DEF Holds
        <5> QED BY <2>3, <4>1, <5>1, <5>2
      <4>2. CASE c # x
        <5>1. session'[c] = session[c] BY <1>t, <2>x, <3>1, <4>2
        <5>2. Holds(c) BY <2>1, <3>1, <5>1 DEF Holds
        <5> QED BY <1>t, <3>5, <4>2, <5>1, <5>2 DEF SessionsLive
      <4> QED BY <4>1, <4>2
    <3> QED BY <3>3, <3>5, <3>6 DEF SurfaceInv
  <2>4. CASE session[Chat] # 0 /\ SessionLoaded(session[Chat]) /\ UNCHANGED <<storeVars, batch, ending>>
    <3>1. session[Chat] \in Nat /\ convs' = convs /\ UNCHANGED <<batch, ending, at, cut, deleted>>
      BY <1>t, <2>2, <2>4 DEF storeVars
    <3>2. Holds(Chat) BY <2>1, <2>4 DEF Holds
    <3>3. session[x] \in Standing(x) BY <1>t, <2>x, <3>2 DEF SessionsLive
    <3>4. session[x] \in Standing(x)' BY <3>1, <3>3, StandingKept
    <3>5. SessionLoaded(session[x]) BY <2>4, <2>x
    <3>6. session[x] \in Nat BY <3>1, <2>x
    <3> QED BY <2>3, <2>4, <3>1, <3>4, <3>5, <3>6
  <2>5. ASSUME NEW i \in Live("telegram", Chat), SessionLoaded(i), UNCHANGED <<storeVars, batch, ending>>
        PROVE  SurfaceInv'
    <3>1. convs' = convs /\ UNCHANGED <<batch, ending, at, cut, deleted>> BY <2>5 DEF storeVars
    <3>2. i \in Nat BY DEF Live, Of
    <3>3. i \in Standing(x) BY <2>5, <2>x DEF Live, Standing
    <3>4. i \in Standing(x)' BY <3>1, <3>3, StandingKept
    <3> QED BY <2>3, <2>5, <3>1, <3>2, <3>4
  <2>6. CASE Insert("telegram", Chat) /\ SessionLoaded(Len(convs')) /\ UNCHANGED <<active, at, found, faults, cut, deleted, batch, ending>>
    <3>0. Len(convs') \in Nat /\ Len(convs') \in Live("telegram", x)'
      BY <1>t, <2>x, <2>6, InsertAdds DEF StoreTypes
    <3>1. Len(convs') \in Nat /\ Len(convs') \in Standing(x)' BY <3>0 DEF Live, Standing
    <3>2. Insert("telegram", x) BY <2>6, <2>x
    <3> QED BY <2>3, <2>6, <3>1, <3>2
  <2>7. CASE Settle("dropped") /\ UNCHANGED <<convs, active, at, found, cut, deleted, session>>
    BY <1>e, <2>1, <2>2, <2>7
  <2> QED BY <1>4, <2>4, <2>5, <2>6, <2>7 DEF LoadSession
<1>5. CASE OnText
  <2>1. bot = "route" /\ UNCHANGED <<storeVars, sent, confirmed, offset, session, crashes>> BY <1>5 DEF OnText
  <2>2. CASE Settle("ignored") BY <1>e, <2>1, <2>2 DEF Handling, storeVars
  <2>3. CASE bot' \in {"reply", "archive old", "append user"} /\ UNCHANGED <<batch, ending>>
    BY <1>g, <2>1, <2>3 DEF Handling, Places
  <2>4. Kind # "skipped"
    <3>1. Update = batch[1] BY <1>t, <2>1, AtHand DEF Handling
    <3> QED BY <1>t, <2>1, <3>1 DEF BatchIsARun, Kind
  <2>5. Kind \in UpdateKinds
    <3>1. Update \in 1..Len(sent) BY <1>t, <2>1, AtHand DEF Handling
    <3>2. sent[Update] \in Messages BY <1>t, <3>1 DEF BotTypes
    <3> QED BY <3>2 DEF Kind, Messages
  <2> QED BY <1>5, <2>2, <2>3, <2>4, <2>5 DEF OnText, UpdateKinds, Goto
<1>6. CASE ArchiveOld
  <2>1. /\ bot = "archive old" /\ bot' = "create new" /\ convs' = Archived(Live("telegram", Chat))
        /\ UNCHANGED <<at, cut, deleted>> /\ session' = session /\ sent' = sent /\ batch' = batch
        /\ UNCHANGED <<sent, confirmed, offset, batch, ending>>
    BY <1>6 DEF ArchiveOld, Goto
  <2>2. Handling /\ Chat \in Chats /\ Chat = sent[batch[1]].chat BY <1>t, <2>1, AtHand DEF Handling
  <2>3. BotTypes' /\ BatchIsARun' /\ OffsetFollows'
    BY <1>t, <2>1, <2>2, BotGoesOn DEF Places
  <2>4. at' = at /\ cut' = cut /\ deleted' = deleted BY <2>1
  <2>5. StoreTypes' /\ SomebodyLooks' /\ \A c : c # Chat => Standing(c) \subseteq Standing(c)'
    BY <1>t, <2>1, <2>2, <2>4, BotRows
  <2>6. SessionsLive'
    <3> SUFFICES ASSUME NEW c \in Chats, Holds(c)' PROVE session'[c] \in Standing(c)'
      BY DEF SessionsLive
    <3>1. c # Chat /\ Holds(c) BY <2>1, <2>2 DEF Holds
    <3> QED BY <1>t, <2>1, <2>5, <3>1 DEF SessionsLive
  <2> QED BY <2>3, <2>5, <2>6 DEF SurfaceInv
<1>7. CASE CreateNew
  <2>1. /\ bot = "create new" /\ bot' = "reply" /\ Insert("telegram", Chat)
        /\ session' = [session EXCEPT ![Chat] = Len(convs')]
        /\ UNCHANGED <<at, cut, deleted>> /\ UNCHANGED <<sent, confirmed, offset, batch, ending>>
    BY <1>7 DEF CreateNew, Goto
  <2>2. Handling /\ Chat \in Chats /\ Chat = sent[batch[1]].chat BY <1>t, <2>1, AtHand DEF Handling
  <2>x. PICK x \in Chats : x = Chat BY <2>2
  <2>y. Insert("telegram", x) /\ session' = [session EXCEPT ![x] = Len(convs')] BY <2>1, <2>x
  <2>3. Len(convs') \in Nat /\ Len(convs') \in Live("telegram", x)'
    BY <1>t, <2>y, InsertAdds DEF StoreTypes
  <2>4. session' \in [Chats -> Nat] BY <1>t, <2>y, <2>3
  <2>5. BotTypes' /\ BatchIsARun' /\ OffsetFollows'
    BY <1>t, <2>1, <2>2, <2>4, BotGoesOn DEF Places
  <2>6. at' = at /\ cut' = cut /\ deleted' = deleted BY <2>1
  <2>7. StoreTypes' /\ SomebodyLooks' /\ \A c : c # x => Standing(c) \subseteq Standing(c)'
    BY <1>t, <2>y, <2>6, BotRows
  <2>8. SessionsLive'
    <3> SUFFICES ASSUME NEW c \in Chats, Holds(c)' PROVE session'[c] \in Standing(c)'
      BY DEF SessionsLive
    <3>1. CASE c = x
      <4>1. session'[c] = Len(convs') BY <1>t, <2>y, <3>1
      <4> QED BY <2>3, <3>1, <4>1 DEF Live, Standing
    <3>2. CASE c # x
      <4>1. session'[c] = session[c] BY <1>t, <2>y, <3>2
      <4>2. Holds(c) BY <2>1, <2>2, <2>x, <3>2, <4>1 DEF Holds
      <4> QED BY <1>t, <2>7, <3>2, <4>1, <4>2 DEF SessionsLive
    <3> QED BY <3>1, <3>2
  <2> QED BY <2>5, <2>7, <2>8 DEF SurfaceInv
<1>8. CASE ReplyLlm
  BY <1>8, <1>g DEF ReplyLlm, Goto, Handling, Places
<1>9. CASE SendText
  BY <1>9, <1>e DEF SendText, Handling, storeVars
<1>10. CASE Crash \/ Restart
  <2>1. /\ UNCHANGED storeVars /\ sent' = sent /\ confirmed' = confirmed /\ ending' = ending
        /\ \/ bot' = "down" /\ batch' = batch /\ session' = session /\ offset' = offset
           \/ bot' = "poll" /\ batch' = <<>> /\ session' = NoSession /\ offset' = 0
    BY <1>10 DEF Crash, Restart, Goto
  <2>2. BotTypes'
    <3>1. bot' \in Places
      <4>1. bot' \in {"down", "poll"} BY <2>1
      <4> QED BY <4>1 DEF Places
    <3>2. batch' \in Seq(Nat)
      <4>1. <<>> \in Seq(Nat) OBVIOUS
      <4>2. batch \in Seq(Nat) BY <1>t DEF BotTypes
      <4> QED BY <2>1, <4>1, <4>2
    <3>3. session' \in [Chats -> Nat] BY <1>t, <2>1 DEF NoSession
    <3> QED BY <1>t, <2>1, <3>1, <3>2, <3>3 DEF BotTypes
  <2>3. BatchIsARun'
    <3>1. CASE bot' = "poll" /\ batch' = <<>>
      <4>1. 1..Len(batch') = {} BY <3>1
      <4> QED BY <3>1, <4>1 DEF BatchIsARun, Handling
    <3>2. CASE bot' = "down" /\ batch' = batch BY <1>t, <2>1, <3>2 DEF BatchIsARun, Handling
    <3> QED BY <2>1, <3>1, <3>2
  <2>4. OffsetFollows'
    <3>1. SettledBelow(confirmed + 1)' BY <1>t, <2>1 DEF OffsetFollows, SettledBelow
    <3>2. \A u \in Updates : ~(u < 0) BY DEF Updates
    <3>3. bot' = "poll" => SettledBelow(offset)' BY <2>1, <3>2 DEF SettledBelow
    <3>4. offset' <= Len(sent) + 1 /\ confirmed' <= Len(sent)
      BY <1>t, <2>1 DEF OffsetFollows, BotTypes
    <3> QED BY <2>1, <3>1, <3>3, <3>4 DEF OffsetFollows, Handling
  <2>5. StoreTypes' /\ SomebodyLooks' BY <2>1, TableStays
  <2>6. SessionsLive' BY <2>1 DEF SessionsLive, Holds, NoSession
  <2> QED BY <2>2, <2>3, <2>4, <2>5, <2>6 DEF SurfaceInv
<1> QED BY <1>1, <1>2, <1>3, <1>4, <1>5, <1>6, <1>7, <1>8, <1>9, <1>10 DEF BotStep

\* So do the devices beside it.
LEMMA DeviceKeepsInv == SurfaceInv /\ StoreNext /\ UNCHANGED botVars => SurfaceInv'
<1> SUFFICES ASSUME SurfaceInv, StoreNext, UNCHANGED botVars PROVE SurfaceInv' OBVIOUS
<1>1. PICK d \in Devices : StoreStep(d) BY DEF StoreNext
<1>2. StoreTypes' /\ SomebodyLooks' /\ \A c : Standing(c) \subseteq Standing(c)' BY <1>1, DeviceStep
<1>3. /\ sent' = sent /\ confirmed' = confirmed /\ bot' = bot /\ offset' = offset /\ batch' = batch
      /\ session' = session /\ ending' = ending
  BY DEF botVars
<1>4. BotTypes' BY <1>3 DEF SurfaceInv, BotTypes
<1>5. BatchIsARun' BY <1>3 DEF SurfaceInv, BatchIsARun, Handling
<1>6. OffsetFollows' BY <1>3 DEF SurfaceInv, OffsetFollows, SettledBelow, Handling
<1>7. \A c \in Chats : Holds(c)' => Holds(c) BY <1>3 DEF Holds
<1>8. SessionsLive' BY <1>2, <1>3, <1>7, SessionsStay DEF SurfaceInv
<1> QED BY <1>2, <1>4, <1>5, <1>6, <1>8 DEF SurfaceInv

\* And a step of neither.
LEMMA SurfaceStutters == SurfaceInv /\ UNCHANGED <<storeVars, botVars>> => SurfaceInv'
<1> SUFFICES ASSUME SurfaceInv, UNCHANGED <<storeVars, botVars>> PROVE SurfaceInv' OBVIOUS
<1>1. /\ sent' = sent /\ confirmed' = confirmed /\ bot' = bot /\ offset' = offset /\ batch' = batch
      /\ session' = session /\ ending' = ending /\ UNCHANGED storeVars
  BY DEF botVars
<1>2. BotTypes' BY <1>1 DEF SurfaceInv, BotTypes
<1>3. BatchIsARun' BY <1>1 DEF SurfaceInv, BatchIsARun, Handling
<1>4. OffsetFollows' BY <1>1 DEF SurfaceInv, OffsetFollows, SettledBelow, Handling
<1>5. \A c \in Chats : Holds(c)' => Holds(c) BY <1>1 DEF Holds
<1>6. StoreTypes' /\ SomebodyLooks' /\ SessionsLive' BY <1>1, <1>5, TableStays
<1> QED BY <1>2, <1>3, <1>4, <1>6 DEF SurfaceInv

\* The invariant of the bot and the devices over one table of conversations.
THEOREM SurfacesKeepInv == BotSpec => []SurfaceInv
<1>1. BotInit => SurfaceInv BY SurfaceInitInv
<1>2. SurfaceInv /\ [Send \/ BotStep \/ Crash \/ (StoreNext /\ UNCHANGED botVars)]_<<storeVars, botVars>> => SurfaceInv'
  BY BotKeepsInv, DeviceKeepsInv, SurfaceStutters
<1> QED BY <1>1, <1>2, PTL DEF BotSpec

\* For any devices, chats, updates and crashes: unless a request was cut off between its
\* statements, a local chat is live or is about to be found or made (create_conversation after
\* the deletions of ira-store).
THEOREM ChatIsLeft == BotSpec => []SomeChatIsLeft
<1>1. SurfaceInv => SomeChatIsLeft
  BY DEF SurfaceInv, SomebodyLooks, SomeChatIsLeft, Deleting
<1> QED BY <1>1, SurfacesKeepInv, PTL

\* For any updates and crashes: what the bot confirms to Telegram with its offset was answered,
\* ignored or dropped before (the loop of ira-telegram).
THEOREM ConfirmedSettled == BotSpec => []ConfirmedWasSettled
<1>1. SurfaceInv => ConfirmedWasSettled
  <2> SUFFICES ASSUME SurfaceInv, NEW u \in Updates, u <= confirmed PROVE ending[u] # "open"
    BY DEF ConfirmedWasSettled
  <2>1. confirmed \in Nat /\ SettledBelow(confirmed + 1) BY DEF SurfaceInv, OffsetFollows, BotTypes
  <2>2. u < confirmed + 1 BY <2>1 DEF Updates
  <2> QED BY <2>1, <2>2 DEF SettledBelow
<1> QED BY <1>1, SurfacesKeepInv, PTL

\* For any chats, devices and crashes: except in the middle of /clear, the session the bot keeps
\* for a chat is a conversation of that chat, and a live one unless a device deleted it by its id.
THEOREM LiveSessions == BotSpec => []SessionIsLive
<1>1. SurfaceInv => SessionIsLive
  BY DEF SurfaceInv, SessionsLive, SessionIsLive, Holds, Standing
<1> QED BY <1>1, SurfacesKeepInv, PTL

(***************************************************************************)
(* The facts.  The invariant: a fact that no two turns remembered at once  *)
(* has no row, or one, or one turn about to insert it.                     *)
(***************************************************************************)

FactTypes ==
  /\ tool \in [Agents -> {"idle", "find", "touch", "insert", "delete"}]
  /\ about \in [Agents -> Facts \union {NoFact}]
  /\ overlap \in [Facts -> BOOLEAN]

\* One turn at a time remembers f, there is one row of it at most, and a turn about to insert
\* it has seen none that came since.
SingleFact(f) ==
  /\ \A a, b \in Remembering(f) : a = b
  /\ \A i, j \in IdsOf(f) : i = j
  /\ \A a \in Remembering(f) : tool[a] = "insert" => IdsOf(f) = {}

FactInv == FactTypes /\ \A f \in Facts : ~overlap[f] => SingleFact(f)

\* No rows and nobody at work.
LEMMA FactInitInv == FactInit => FactInv
<1> SUFFICES ASSUME FactInit PROVE FactInv OBVIOUS
<1>1. FactTypes BY DEF FactInit, FactTypes
<1>2. \A f \in Facts : Remembering(f) = {} /\ IdsOf(f) = {}
  BY DEF FactInit, Remembering, IdsOf
<1> QED BY <1>1, <1>2 DEF FactInv, SingleFact

\* A step that adds no row of f and lets nobody remember f, nor insert it, who did not before.
LEMMA FactKept ==
  ASSUME NEW f \in Facts, SingleFact(f), FactTypes,
         Remembering(f)' \subseteq Remembering(f), IdsOf(f)' \subseteq IdsOf(f),
         \A a \in Remembering(f)' : tool[a]' = "insert" => tool[a] = "insert" \/ IdsOf(f) = {}
  PROVE  SingleFact(f)'
BY DEF SingleFact

\* Who starts to remember alone finds at most one row of its fact.
LEMMA FactStepRemember ==
  ASSUME FactInv, NEW a \in Agents, NEW g \in Facts, Remember(a, g)
  PROVE  FactInv'
<1>1. FactTypes'
  <2>1. tool' \in [Agents -> {"idle", "find", "touch", "insert", "delete"}]
    BY DEF FactInv, FactTypes, Remember, Tool
  <2>2. about' \in [Agents -> Facts \union {NoFact}]
    BY DEF FactInv, FactTypes, Remember
  <2>3. overlap' \in [Facts -> BOOLEAN]
    <3>1. (overlap[g] \/ Remembering(g) # {}) \in BOOLEAN
      OBVIOUS
    <3> QED BY DEF FactInv, FactTypes, Remember
  <2> QED BY <2>1, <2>2, <2>3 DEF FactTypes
<1>2. ASSUME NEW f \in Facts, ~overlap'[f] PROVE SingleFact(f)'
  <2>1. ~overlap[f] /\ SingleFact(f)
    BY <1>2 DEF FactInv, FactTypes, Remember
  <2>2. IdsOf(f)' = IdsOf(f)
    BY DEF IdsOf, Remember
  <2>3. CASE f # g
    <3>1. Remembering(f)' \subseteq Remembering(f)
      BY <2>3 DEF Remembering, Remember, Tool, FactInv, FactTypes
    <3>2. \A b \in Remembering(f)' : tool[b]' = "insert" => tool[b] = "insert"
      BY DEF Remembering, Remember, Tool, FactInv, FactTypes
    <3> QED BY <2>1, <2>2, <3>1, <3>2, FactKept DEF FactInv
  <2>4. CASE f = g
    <3>1. Remembering(f) = {}
      BY <1>2, <2>4 DEF Remember, FactInv, FactTypes
    <3>2. Remembering(f)' \subseteq {a} /\ tool'[a] = "find"
      BY <3>1, <2>4 DEF Remembering, Remember, Tool, FactInv, FactTypes
    <3> QED BY <2>1, <2>2, <3>2 DEF SingleFact
  <2> QED BY <2>3, <2>4
<1> QED BY <1>1, <1>2 DEF FactInv

\* Who found none and inserts, alone, makes the one row.
LEMMA FactStepInsert ==
  ASSUME FactInv, NEW a \in Agents, InsertFact(a)
  PROVE  FactInv'
<1>1. FactTypes'
  <2>1. tool' \in [Agents -> {"idle", "find", "touch", "insert", "delete"}]
    BY DEF FactInv, FactTypes, InsertFact, Tool
  <2> QED BY <2>1 DEF FactInv, FactTypes, InsertFact
<1>2. ASSUME NEW f \in Facts, ~overlap'[f] PROVE SingleFact(f)'
  <2>1. ~overlap[f] /\ SingleFact(f)
    BY <1>2 DEF FactInv, FactTypes, InsertFact
  <2>2. Remembering(f)' = Remembering(f) \ {a}
    BY DEF Remembering, InsertFact, Tool, FactInv, FactTypes
  <2>3. \A b \in Remembering(f)' : tool[b]' = tool[b]
    BY <2>2 DEF Remembering, InsertFact, Tool, FactInv, FactTypes
  <2>4. CASE about[a] # f
    <3>1. IdsOf(f)' = IdsOf(f)
      BY <2>4 DEF IdsOf, InsertFact
    <3> QED BY <2>1, <2>2, <2>3, <3>1, FactKept DEF FactInv
  <2>5. CASE about[a] = f
    <3>1. a \in Remembering(f) /\ tool[a] = "insert"
      BY <2>5 DEF Remembering, InsertFact, Tool
    <3>2. IdsOf(f) = {} /\ Remembering(f)' = {}
      BY <2>1, <2>2, <3>1 DEF SingleFact
    <3>3. IdsOf(f)' = {lastId + 1}
      <4> DEFINE r == [id |-> lastId + 1, fact |-> about[a]]
      <4>1. rows' = rows \union {r} /\ r.id = lastId + 1 /\ r.fact = f
        BY <2>5 DEF InsertFact
      <4>2. \A x \in rows : x.fact # f
        BY <3>2 DEF IdsOf
      <4> HIDE DEF r
      <4> QED BY <4>1, <4>2 DEF IdsOf
    <3> QED BY <3>2, <3>3 DEF SingleFact
  <2> QED BY <2>4, <2>5
<1> QED BY <1>1, <1>2 DEF FactInv

\* Every statement of a turn keeps the invariant.
LEMMA FactStep == FactInv /\ [FactNext]_factVars => FactInv'
<1> SUFFICES ASSUME FactInv, [FactNext]_factVars PROVE FactInv'
  OBVIOUS
<1>1. ASSUME NEW a \in Agents, NEW f \in Facts, Remember(a, f) PROVE FactInv'
  BY <1>1, FactStepRemember
<1>2. ASSUME NEW a \in Agents, InsertFact(a) PROVE FactInv'
  BY <1>2, FactStepInsert
<1>3. ASSUME NEW a \in Agents,
             \/ \E f \in Facts : Forget(a, f)
             \/ \E r \in rows : ForgetId(a, r)
             \/ FindExact(a) \/ Touch(a) \/ Delete(a)
      PROVE  FactInv'
  <2>1. FactTypes'
    <3>1. tool' \in [Agents -> {"idle", "find", "touch", "insert", "delete"}]
      BY <1>3 DEF FactInv, FactTypes, Forget, ForgetId, FindExact, Touch, Delete, Tool
    <3>2. about' \in [Agents -> Facts \union {NoFact}] /\ overlap' = overlap
      BY <1>3 DEF FactInv, FactTypes, Forget, ForgetId, FindExact, Touch, Delete
    <3> QED BY <3>1, <3>2 DEF FactInv, FactTypes
  <2>2. ASSUME NEW f \in Facts, ~overlap'[f] PROVE SingleFact(f)'
    <3>1. ~overlap[f] /\ SingleFact(f)
      BY <1>3, <2>2 DEF FactInv, FactTypes, Forget, ForgetId, FindExact, Touch, Delete
    <3>2. IdsOf(f)' \subseteq IdsOf(f)
      BY <1>3 DEF IdsOf, Forget, ForgetId, FindExact, Touch, Delete
    <3>3. Remembering(f)' \subseteq Remembering(f)
      BY <1>3 DEF Remembering, Forget, ForgetId, FindExact, Touch, Delete, Tool, FactInv, FactTypes
    <3>4. \A b \in Remembering(f)' : tool[b]' = "insert" => tool[b] = "insert" \/ IdsOf(f) = {}
      BY <1>3 DEF Remembering, Forget, ForgetId, FindExact, Touch, Delete, Tool, FactInv, FactTypes
    <3> QED BY <3>1, <3>2, <3>3, <3>4, FactKept DEF FactInv
  <2> QED BY <2>1, <2>2 DEF FactInv
<1>4. ASSUME UNCHANGED factVars PROVE FactInv'
  <2>1. \A f \in Facts : Remembering(f)' = Remembering(f) /\ IdsOf(f)' = IdsOf(f)
    BY <1>4 DEF Remembering, IdsOf, factVars
  <2>2. tool' = tool /\ about' = about /\ overlap' = overlap
    BY <1>4 DEF factVars
  <2> QED BY <2>1, <2>2 DEF FactInv, FactTypes, SingleFact
<1> QED BY <1>1, <1>2, <1>3, <1>4 DEF FactNext

\* One row per fact is what the property counts.
LEMMA FactInvSingle == FactInv => FactsAreSingle
<1> SUFFICES ASSUME FactInv, NEW f \in Facts, ~overlap[f] PROVE ~(Cardinality(IdsOf(f)) > 1)
  BY DEF FactsAreSingle
<1>1. CASE IdsOf(f) = {}
  BY <1>1, FS_EmptySet
<1>2. CASE IdsOf(f) # {}
  <2>1. PICK i \in IdsOf(f) : IdsOf(f) = {i}
    BY <1>2 DEF FactInv, SingleFact
  <2> QED BY <2>1, FS_Singleton
<1> QED BY <1>1, <1>2

\* Whatever the agents, the facts and the rows that come and go between two statements, a fact
\* is stored twice only if two turns that remembered it overlapped.
THEOREM FactsSingle == FactSpec => []FactsAreSingle
<1>1. FactInit => FactInv BY FactInitInv
<1>2. FactInv /\ [FactNext]_factVars => FactInv' BY FactStep
<1>3. FactInv => FactsAreSingle BY FactInvSingle
<1> QED BY <1>1, <1>2, <1>3, PTL DEF FactSpec

(***************************************************************************)
(* The schema.  The invariant: who brings it up holds the lock, unless its *)
(* connection was lost; the versions are those up to some version; and the *)
(* texts the user chose are the ones that are stored or about to be        *)
(* copied, whoever holds the lock.                                         *)
(***************************************************************************)

Phases == {"off", "lock", "look", "init", "migrate", "seal", "up", "refused", "stopped"}
Locked == {"look", "init", "migrate", "seal"}

SchemaTypes ==
  /\ old \in BOOLEAN /\ spoiled \in BOOLEAN
  /\ built \in 0 .. 4
  /\ versions \subseteq Versions
  /\ texts = [k \in Keys |-> texts[k]] /\ chosen = [k \in Keys |-> chosen[k]]
  /\ startAt \in [Starters -> Phases]
  /\ todo \in [Starters -> SUBSET Nat]

\* Whoever prepares the database holds the lock, and works from what the table says; without
\* the lock it leaves out no migration that is missing.
LockHeld ==
  \A p \in Starters :
    /\ startAt[p] \in Locked => migrating = p \/ spoiled
    /\ startAt[p] = "init" => todo[p] \subseteq 1 .. 4
    /\ startAt[p] = "migrate" => Versions \ versions \subseteq todo[p] /\ todo[p] \subseteq Versions
    /\ startAt[p] = "migrate" /\ ~spoiled => todo[p] = Versions \ versions

Prefix(s) == \E k \in 0 .. LastVersion : s = 1 .. k

\* How far the database has got, when no stop has spoiled it.
SchemaGrows ==
  /\ old => built = 3
  /\ \A p \in Starters : startAt[p] = "init" /\ 4 \notin todo[p] =>
       IF old THEN ~spoiled => versions = Versions ELSE built = 4
  /\ ~spoiled => /\ old => Prefix(versions)
                 /\ ~old /\ built \in {1, 2} => \E p \in Starters : startAt[p] = "init"
                 /\ \A p \in Starters : /\ startAt[p] \in {"seal", "up"} => WholeSchema
                                        /\ startAt[p] = "migrate" => built >= 3
                                        /\ startAt[p] # "refused"

\* The persona an older database kept with the settings, before a start has copied it.
NotCopied ==
  /\ old /\ mirrors = {} /\ prompt = chosen[Persona]
  /\ LastVersion \notin versions
  /\ \A p \in Starters : startAt[p] = "init" => 4 \in todo[p]

TextsKept ==
  \A k \in Keys : chosen[k] # NoText =>
    \/ texts[k] = chosen[k]
    \/ k = Persona /\ texts[k] = NoText /\ NotCopied

SchemaInv == SchemaTypes /\ LockHeld /\ SchemaGrows /\ TextsKept

\* The least of what is left is one of it.
LEMMA LeastIsLeft ==
  ASSUME NEW s \in SUBSET Nat, s # {}
  PROVE  Least(s) \in s /\ \A y \in s : Least(s) <= y
<1>1. PICK x \in s : \A y \in s : ~ (<<y, x>> \in OpToRel(<, Nat))
  BY NatLessThanWellFounded, WFMin
<1>2. \A y \in s : ~(y < x) BY <1>1 DEF OpToRel
<1>3. \A y \in s : x <= y BY <1>2
<1> QED BY <1>3 DEF Least

----------------------------------------------------------------------------

\* No process has started, over a database of before or none.
LEMMA SchemaInitInv == SchemaInit => SchemaInv
<1> SUFFICES ASSUME SchemaInit PROVE SchemaInv OBVIOUS
<1>a. LastVersion \in Nat /\ LastVersion \in Versions BY SchemaAssumption DEF Versions
<1>p. /\ startAt = [p \in Starters |-> "off"] /\ \A p \in Starters : startAt[p] = "off"
      /\ todo = [p \in Starters |-> {}] /\ mirrors = {} /\ spoiled = FALSE
      /\ texts = [k \in Keys |-> NoText]
      /\ chosen = [k \in Keys |-> IF old /\ k = Persona THEN prompt ELSE NoText] /\ old \in BOOLEAN
  BY DEF SchemaInit
<1>v. \/ ~old /\ built = 0 /\ versions = {}
      \/ old /\ built = 3 /\ \E v \in 0 .. LastVersion - 1 : versions = 1 .. v
  BY DEF SchemaInit
<1>w. LastVersion \notin versions /\ versions \subseteq Versions /\ (old => Prefix(versions))
  <2>1. CASE versions = {} /\ ~old BY <2>1
  <2>2. ASSUME NEW v \in 0 .. LastVersion - 1, versions = 1 .. v PROVE LastVersion \notin versions /\ versions \subseteq Versions /\ Prefix(versions)
    <3>1. v \in Nat /\ v < LastVersion /\ v \in 0 .. LastVersion BY <1>a
    <3> QED BY <1>a, <2>2, <3>1 DEF Versions, Prefix
  <2> QED BY <1>v, <2>1, <2>2
<1>1. SchemaTypes
  <2>1. startAt \in [Starters -> Phases] BY <1>p DEF Phases
  <2>2. todo \in [Starters -> SUBSET Nat] BY <1>p
  <2>3. built \in 0 .. 4 BY <1>v
  <2>4. texts = [k \in Keys |-> texts[k]] /\ chosen = [k \in Keys |-> chosen[k]] BY <1>p
  <2> QED BY <1>p, <1>w, <2>1, <2>2, <2>3, <2>4 DEF SchemaTypes
<1>2. LockHeld BY <1>p DEF LockHeld, Locked
<1>3. SchemaGrows BY <1>p, <1>v, <1>w DEF SchemaGrows
<1>4. TextsKept
  <2> SUFFICES ASSUME NEW k \in Keys, chosen[k] # NoText PROVE k = Persona /\ texts[k] = NoText /\ NotCopied
    BY DEF TextsKept
  <2>1. old /\ k = Persona /\ chosen[k] = prompt BY <1>p
  <2>2. texts[k] = NoText BY <1>p
  <2> QED BY <1>p, <1>w, <2>1, <2>2 DEF NotCopied
<1> QED BY <1>1, <1>2, <1>3, <1>4 DEF SchemaInv

----------------------------------------------------------------------------
\* Process p goes to phase s with the work t.
Goes(p, s, t) == startAt' = [startAt EXCEPT ![p] = s] /\ todo' = [todo EXCEPT ![p] = t]

\* A process that moves on is in its new place with its new work, the others where they were.
LEMMA GoesTo ==
  ASSUME SchemaTypes, NEW p \in Starters, NEW s \in Phases, NEW t \in SUBSET Nat, Goes(p, s, t)
  PROVE  /\ startAt' \in [Starters -> Phases] /\ todo' \in [Starters -> SUBSET Nat]
         /\ startAt'[p] = s /\ todo'[p] = t
         /\ \A q \in Starters \ {p} : startAt'[q] = startAt[q] /\ todo'[q] = todo[q]
BY DEF SchemaTypes, Goes

\* The step of one process leaves the lock with its holder, or a connection was lost.
LEMMA LockKept ==
  ASSUME SchemaTypes, LockHeld, NEW p \in Starters, NEW s \in Phases, NEW t \in SUBSET Nat, Goes(p, s, t),
         spoiled => spoiled', versions \subseteq versions', versions' = versions \/ migrating = p \/ spoiled,
         migrating' = migrating \/ migrating \in {NoStarter, p} \/ spoiled',
         s \in Locked => migrating' = p \/ spoiled',
         s = "init" => t \subseteq 1 .. 4,
         s = "migrate" => Versions \ versions' \subseteq t /\ t \subseteq Versions,
         s = "migrate" /\ ~spoiled' => t = Versions \ versions'
  PROVE  LockHeld'
<1>1. /\ startAt'[p] = s /\ todo'[p] = t
      /\ \A q \in Starters \ {p} : startAt'[q] = startAt[q] /\ todo'[q] = todo[q]
  BY GoesTo
<1>2. \A q \in Starters \ {p} : startAt[q] \in Locked => spoiled \/ (migrating = q /\ migrating # NoStarter)
  BY SchemaAssumption DEF LockHeld
<1>3. ASSUME NEW q \in Starters \ {p}
      PROVE  /\ startAt'[q] \in Locked => migrating' = q \/ spoiled'
             /\ startAt'[q] = "init" => todo'[q] \subseteq 1 .. 4
             /\ startAt'[q] = "migrate" => Versions \ versions' \subseteq todo'[q] /\ todo'[q] \subseteq Versions
             /\ startAt'[q] = "migrate" /\ ~spoiled' => todo'[q] = Versions \ versions'
  <2>1. startAt'[q] = startAt[q] /\ todo'[q] = todo[q] BY <1>1
  <2>2. startAt[q] \in Locked => spoiled \/ (migrating = q /\ migrating # NoStarter) BY <1>2
  <2>3. startAt[q] \in Locked => spoiled' \/ (migrating' = q /\ versions' = versions) BY <2>2
  <2>4. startAt[q] = "migrate" /\ ~spoiled' => versions' = versions BY <2>3 DEF Locked
  <2>5. /\ startAt[q] = "init" => todo[q] \subseteq 1 .. 4
        /\ startAt[q] = "migrate" => Versions \ versions \subseteq todo[q] /\ todo[q] \subseteq Versions
        /\ startAt[q] = "migrate" /\ ~spoiled => todo[q] = Versions \ versions
    BY DEF LockHeld
  <2>6. startAt[q] = "migrate" /\ ~spoiled' => todo[q] = Versions \ versions' BY <2>4, <2>5
  <2>7. startAt[q] = "migrate" => Versions \ versions' \subseteq todo[q] BY <2>5
  <2> QED BY <2>1, <2>3, <2>5, <2>6, <2>7
<1>4. /\ startAt'[p] \in Locked => migrating' = p \/ spoiled'
      /\ startAt'[p] = "init" => todo'[p] \subseteq 1 .. 4
      /\ startAt'[p] = "migrate" => Versions \ versions' \subseteq todo'[p] /\ todo'[p] \subseteq Versions
      /\ startAt'[p] = "migrate" /\ ~spoiled' => todo'[p] = Versions \ versions'
  BY <1>1
<1>5. Versions' = Versions BY DEF Versions
<1> QED BY <1>3, <1>4, <1>5 DEF LockHeld

\* A step that leaves the tables alone, but may seed texts.
LEMMA PhaseMoves ==
  ASSUME SchemaInv, NEW p \in Starters, NEW s \in Phases, NEW t \in SUBSET Nat, Goes(p, s, t),
         UNCHANGED <<old, built, versions, prompt, mirrors, chosen>>,
         texts' = texts \/ (texts' = [k \in Keys |-> texts'[k]] /\ TextsKept'),
         migrating' = migrating \/ migrating \in {NoStarter, p},
         s \in Locked => migrating' = p \/ spoiled',
         s = "init" => t \subseteq 1 .. 4 /\ 4 \in t, s = "migrate" => t = Versions \ versions,
         spoiled' \in BOOLEAN, spoiled => spoiled',
         ~spoiled' =>
           /\ s \in {"seal", "up"} => WholeSchema
           /\ s = "migrate" => built >= 3
           /\ s # "refused"
           /\ startAt[p] = "init" /\ ~old => built \notin {1, 2}
  PROVE  SchemaInv'
<1>t. SchemaTypes /\ LockHeld /\ SchemaGrows /\ TextsKept BY DEF SchemaInv
<1>u. old' = old /\ built' = built /\ versions' = versions /\ prompt' = prompt /\ mirrors' = mirrors
      /\ chosen' = chosen
  OBVIOUS
<1>1. /\ startAt' \in [Starters -> Phases] /\ todo' \in [Starters -> SUBSET Nat]
      /\ startAt'[p] = s /\ todo'[p] = t
      /\ \A q \in Starters \ {p} : startAt'[q] = startAt[q] /\ todo'[q] = todo[q]
  BY <1>t, GoesTo
<1>2. SchemaTypes'
  <2>1. texts' = [k \in Keys |-> texts'[k]] BY <1>t DEF SchemaTypes
  <2> QED BY <1>1, <1>t, <1>u, <2>1 DEF SchemaTypes
<1>3. LockHeld'
  <2>1. versions \subseteq versions' /\ t \subseteq t BY <1>u
  <2>2. s = "migrate" => Versions \ versions' \subseteq t /\ t \subseteq Versions /\ t = Versions \ versions' BY <1>u
  <2> QED BY <1>t, <1>u, <2>1, <2>2, LockKept
<1>4. SchemaGrows'
  <2>1. old' => built' = 3 BY <1>t, <1>u DEF SchemaGrows
  <2>2. \A q \in Starters : startAt'[q] = "init" /\ 4 \notin todo'[q] =>
          IF old' THEN ~spoiled' => versions' = Versions ELSE built' = 4
    BY <1>1, <1>t, <1>u DEF SchemaGrows
  <2>3. ASSUME ~spoiled'
        PROVE  /\ old' => Prefix(versions')
               /\ ~old' /\ built' \in {1, 2} => \E q \in Starters : startAt'[q] = "init"
               /\ \A q \in Starters : /\ startAt'[q] \in {"seal", "up"} => WholeSchema'
                                      /\ startAt'[q] = "migrate" => built' >= 3
                                      /\ startAt'[q] # "refused"
    <3>1. ~spoiled BY <2>3, <1>t DEF SchemaTypes
    <3>2. WholeSchema' = WholeSchema BY <1>u DEF WholeSchema
    <3>3. old' => Prefix(versions') BY <1>t, <1>u, <3>1 DEF SchemaGrows
    <3>4. ~old' /\ built' \in {1, 2} => \E q \in Starters : startAt'[q] = "init"
      <4> SUFFICES ASSUME ~old, built \in {1, 2} PROVE \E q \in Starters : startAt'[q] = "init" BY <1>u
      <4>1. PICK q \in Starters : startAt[q] = "init" BY <1>t, <3>1 DEF SchemaGrows
      <4>2. q # p BY <2>3, <4>1
      <4> QED BY <1>1, <4>1, <4>2
    <3>5. ASSUME NEW q \in Starters
          PROVE  /\ startAt'[q] \in {"seal", "up"} => WholeSchema'
                 /\ startAt'[q] = "migrate" => built' >= 3
                 /\ startAt'[q] # "refused"
      <4>1. CASE q = p BY <1>1, <1>u, <2>3, <3>2, <4>1
      <4>2. CASE q # p BY <1>1, <1>t, <1>u, <3>1, <3>2, <4>2 DEF SchemaGrows
      <4> QED BY <4>1, <4>2
    <3> QED BY <3>3, <3>4, <3>5
  <2> QED BY <2>1, <2>2, <2>3 DEF SchemaGrows, Prefix, WholeSchema
<1>5. TextsKept'
  <2>1. NotCopied => NotCopied' BY <1>1, <1>u DEF NotCopied
  <2>2. CASE texts' = texts BY <1>t, <1>u, <2>1, <2>2 DEF TextsKept
  <2> QED BY <2>2
<1> QED BY <1>2, <1>3, <1>4, <1>5 DEF SchemaInv

----------------------------------------------------------------------------
\* Until a connection is lost, only the holder of the lock is at the statements or the migrations.
LEMMA HolderAlone ==
  ASSUME LockHeld, ~spoiled, NEW p \in Starters, startAt[p] \in Locked
  PROVE  migrating = p /\ \A q \in Starters \ {p} : startAt[q] \notin Locked
BY DEF LockHeld

\* A prefix that holds the last version holds them all.
LEMMA WholeStays ==
  ASSUME SchemaTypes, SchemaGrows, WholeSchema, old' = old, built' \in {built} \cup (IF old THEN {} ELSE {4}),
         versions \subseteq versions', versions' \subseteq Versions
  PROVE  WholeSchema'
BY DEF WholeSchema, SchemaGrows, SchemaTypes

\* The step of a process that stays where it is, with less to do.
LEMMA HolderWorks ==
  ASSUME SchemaInv, NEW p \in Starters, startAt[p] \in {"init", "migrate"}, startAt' = startAt,
         NEW t \in SUBSET todo[p], todo' = [todo EXCEPT ![p] = t],
         UNCHANGED <<old, prompt, mirrors, chosen, migrating>>,
         versions \subseteq versions', versions' \subseteq Versions,
         built' \in 0 .. 4, built' = built \/ (~old /\ built <= built' /\ startAt[p] = "init"),
         spoiled' \in BOOLEAN, spoiled => spoiled',
         texts' = [k \in Keys |-> texts'[k]], TextsKept',
         startAt[p] = "migrate" => Versions \ versions' \subseteq t,
         startAt[p] = "migrate" /\ ~spoiled' => t = Versions \ versions',
         startAt[p] = "init" /\ 4 \notin t => IF old THEN ~spoiled' => versions' = Versions ELSE built' = 4,
         ~spoiled' /\ old => Prefix(versions')
  PROVE  SchemaInv'
<1>t. SchemaTypes /\ LockHeld /\ SchemaGrows BY DEF SchemaInv
<1>u. old' = old /\ prompt' = prompt /\ mirrors' = mirrors /\ chosen' = chosen /\ migrating' = migrating
  OBVIOUS
<1>0. startAt[p] \in Phases /\ t \in SUBSET Nat /\ startAt[p] \in Locked /\ todo[p] \in SUBSET Nat
  BY <1>t DEF SchemaTypes, Locked
<1>1. Goes(p, startAt[p], t) BY <1>t DEF Goes, SchemaTypes
<1>2. /\ startAt' \in [Starters -> Phases] /\ todo' \in [Starters -> SUBSET Nat] /\ todo'[p] = t
      /\ \A q \in Starters \ {p} : todo'[q] = todo[q]
  BY <1>0, <1>1, <1>t, GoesTo
<1>3. spoiled \/ (migrating = p /\ \A q \in Starters \ {p} : startAt[q] \notin Locked)
  BY <1>0, <1>t, HolderAlone
<1>4. SchemaTypes' BY <1>2, <1>t, <1>u DEF SchemaTypes
<1>5. LockHeld'
  <2>1. startAt[p] = "init" => t \subseteq 1 .. 4 BY <1>t DEF LockHeld
  <2>2. startAt[p] \in Locked => migrating' = p \/ spoiled' BY <1>3, <1>u
  <2>3. startAt[p] = "migrate" => t \subseteq Versions BY <1>t DEF LockHeld
  <2>4. versions' = versions \/ migrating = p \/ spoiled BY <1>3
  <2> QED BY <1>0, <1>1, <1>t, <1>u, <2>1, <2>2, <2>3, <2>4, LockKept
<1>6. SchemaGrows'
  <2>1. old' => built' = 3 BY <1>t, <1>u DEF SchemaGrows
  <2>2. \A q \in Starters : startAt'[q] = "init" /\ 4 \notin todo'[q] =>
          IF old' THEN ~spoiled' => versions' = Versions ELSE built' = 4
    <3> SUFFICES ASSUME NEW q \in Starters, startAt'[q] = "init", 4 \notin todo'[q]
                 PROVE  IF old' THEN ~spoiled' => versions' = Versions ELSE built' = 4
      OBVIOUS
    <3>1. CASE q = p BY <1>2, <1>u, <3>1
    <3>2. CASE q # p
      <4>1. spoiled BY <1>3, <3>2 DEF Locked
      <4>2. startAt[q] = "init" /\ 4 \notin todo[q] BY <1>2, <3>2
      <4>3. ~old => built = 4 BY <1>t, <4>2 DEF SchemaGrows
      <4>4. ~old => built' = 4 BY <1>t, <4>3 DEF SchemaTypes
      <4> QED BY <1>u, <4>1, <4>4
    <3> QED BY <3>1, <3>2
  <2>3. ASSUME ~spoiled'
        PROVE  /\ old' => Prefix(versions')
               /\ ~old' /\ built' \in {1, 2} => \E q \in Starters : startAt'[q] = "init"
               /\ \A q \in Starters : /\ startAt'[q] \in {"seal", "up"} => WholeSchema'
                                      /\ startAt'[q] = "migrate" => built' >= 3
                                      /\ startAt'[q] # "refused"
    <3>1. ~spoiled BY <2>3, <1>t DEF SchemaTypes
    <3>2. built \in 0 .. 4 /\ built \in Nat /\ built' \in Nat BY <1>t DEF SchemaTypes
    <3>3. WholeSchema => WholeSchema'
      <4>1. CASE built' \in {built} \cup (IF old THEN {} ELSE {4}) BY <1>t, <1>u, <4>1, WholeStays
      <4>2. CASE built' # built /\ built' # 4
        <5>1. ~old /\ built < 3 BY <3>2, <4>2
        <5> QED BY <3>2, <5>1 DEF WholeSchema
      <4> QED BY <3>2, <4>1, <4>2
    <3>4. ~old' /\ built' \in {1, 2} => \E q \in Starters : startAt'[q] = "init"
      <4>1. CASE startAt[p] = "init" BY <4>1
      <4>2. CASE startAt[p] # "init" BY <1>t, <1>u, <3>1, <4>2 DEF SchemaGrows
      <4> QED BY <4>1, <4>2
    <3>5. \A q \in Starters : startAt[q] = "migrate" => built' >= 3
      <4>1. \A q \in Starters : startAt[q] = "migrate" => built >= 3 BY <1>t, <3>1 DEF SchemaGrows
      <4> QED BY <3>2, <4>1
    <3>6. \A q \in Starters : (startAt[q] \in {"seal", "up"} => WholeSchema) /\ startAt[q] # "refused"
      BY <1>t, <3>1 DEF SchemaGrows
    <3> QED BY <1>u, <2>3, <3>3, <3>4, <3>5, <3>6
  <2> QED BY <2>1, <2>2, <2>3 DEF SchemaGrows, Prefix, WholeSchema
<1> QED BY <1>4, <1>5, <1>6 DEF SchemaInv

\* Giving the lock back, on whichever connection, touches the lock of nobody else.
LEMMA Released ==
  ASSUME NEW p \in Starters, Release(p)
  PROVE  migrating' = migrating \/ migrating \in {NoStarter, p}
BY DEF Release

\* Seeding what is missing.
LEMMA SeedKeeps ==
  ASSUME NEW keys, NEW text, SeedMissing(keys, text)
  PROVE  /\ texts' = [k \in Keys |-> texts'[k]]
         /\ \A k \in Keys : texts[k] # NoText => texts'[k] = texts[k]
         /\ \A k \in Keys : texts[k] = NoText /\ k \in keys => texts'[k] = text
         /\ \A k \in Keys : k \notin keys => texts'[k] = texts[k]
BY DEF SeedMissing

----------------------------------------------------------------------------

\* The last version is one, and so is every version of the baseline.
LEMMA LastIsVersion == LastVersion \in Nat /\ LastVersion \in Versions /\ 1 \in Versions /\ Baseline \subseteq Versions
BY SchemaAssumption DEF Versions

\* What an older database kept stays its text, or becomes it, in a seeding with that text.
LEMMA PersonaCopied ==
  ASSUME TextsKept, UNCHANGED <<chosen>>, SeedMissing({Persona}, prompt)
  PROVE  TextsKept'
<1>1. /\ \A k \in Keys : texts[k] # NoText => texts'[k] = texts[k]
      /\ \A k \in Keys : texts[k] = NoText /\ k \in {Persona} => texts'[k] = prompt
      /\ \A k \in Keys : k \notin {Persona} => texts'[k] = texts[k]
  BY SeedKeeps
<1>2. chosen' = chosen OBVIOUS
<1>3. ASSUME NEW k \in Keys, chosen[k] # NoText PROVE texts'[k] = chosen[k]
  <2>1. CASE texts[k] = chosen[k] BY <1>1, <1>3, <2>1
  <2>2. CASE k = Persona /\ texts[k] = NoText /\ NotCopied BY <1>1, <2>2 DEF NotCopied
  <2> QED BY <1>3, <2>1, <2>2 DEF TextsKept
<1> QED BY <1>2, <1>3 DEF TextsKept

\* What is not copied yet stays so.
LEMMA NotCopiedYet ==
  ASSUME TextsKept, UNCHANGED <<old, texts, chosen, prompt, mirrors>>, NotCopied => NotCopied'
  PROVE  TextsKept'
BY DEF TextsKept

\* What Init makes is what the migrations would have made.
LEMMA InitKeepsInv ==
  ASSUME SchemaInv, NEW p \in Starters, InitStatement(p), UNCHANGED <<old, prompt, mirrors>>
  PROVE  SchemaInv'
<1>t. SchemaTypes /\ LockHeld /\ SchemaGrows /\ TextsKept BY DEF SchemaInv
<1> DEFINE mark == Least(todo[p])
<1>1. /\ startAt[p] = "init" /\ todo[p] # {} /\ startAt' = startAt /\ migrating' = migrating /\ chosen' = chosen
      /\ built' = IF ~old /\ mark > built THEN mark ELSE built
      /\ todo' = [todo EXCEPT ![p] = @ \ {mark}]
      /\ versions' = IF mark = 4 THEN versions \union Baseline ELSE versions
      /\ IF mark = 4 THEN SeedMissing({Persona}, prompt) ELSE UNCHANGED texts
      /\ spoiled' = (spoiled \/ (mark = 4 /\ old /\ ~(Baseline \subseteq versions)))
  BY DEF InitStatement
<1>2. todo[p] \in SUBSET Nat /\ todo[p] \subseteq 1 .. 4 BY <1>1, <1>t DEF SchemaTypes, LockHeld
<1>3. mark \in todo[p] /\ mark \in 1 .. 4 BY <1>1, <1>2, LeastIsLeft
<1> HIDE DEF mark
<1>4. built \in 0 .. 4 /\ versions \subseteq Versions /\ spoiled \in BOOLEAN /\ old \in BOOLEAN BY <1>t DEF SchemaTypes
<1> DEFINE t == todo[p] \ {mark}
<1>5. t \in SUBSET todo[p] /\ todo' = [todo EXCEPT ![p] = t] BY <1>1, <1>t DEF SchemaTypes
<1>6. 4 \notin t => mark = 4 \/ 4 \notin todo[p] BY <1>3
<1> HIDE DEF t
<1>7. built' \in 0 .. 4 /\ (built' = built \/ (~old /\ built <= built' /\ startAt[p] = "init"))
  BY <1>1, <1>3, <1>4
<1>8. versions \subseteq versions' /\ versions' \subseteq Versions BY <1>1, <1>4, LastIsVersion
<1>9. spoiled' \in BOOLEAN /\ (spoiled => spoiled') BY <1>1, <1>4
<1>10. ~spoiled' /\ old => Prefix(versions') /\ (mark = 4 => versions' = Versions) /\ (mark # 4 => versions' = versions)
  <2> SUFFICES ASSUME ~spoiled', old
               PROVE  Prefix(versions') /\ (mark = 4 => versions' = Versions) /\ (mark # 4 => versions' = versions)
    OBVIOUS
  <2>1. PICK k \in 0 .. LastVersion : versions = 1 .. k BY <1>9, <1>t DEF SchemaGrows, Prefix
  <2>2. CASE mark = 4
    <3>1. Baseline \subseteq versions /\ versions' = versions BY <1>1, <2>2
    <3>2. LastVersion \in versions BY <3>1, SchemaAssumption
    <3>3. k = LastVersion BY <2>1, <3>2, LastIsVersion
    <3> QED BY <2>1, <2>2, <3>1, <3>3 DEF Prefix, Versions
  <2>3. CASE mark # 4 BY <1>1, <2>1, <2>3 DEF Prefix
  <2> QED BY <2>2, <2>3
<1>11. 4 \notin t => IF old THEN ~spoiled' => versions' = Versions ELSE built' = 4
  <2>1. CASE mark = 4
    <3>1. ~old => built' = 4 BY <1>1, <1>4, <2>1
    <3> QED BY <1>4, <1>10, <2>1, <3>1
  <2>2. CASE mark # 4 /\ 4 \notin todo[p]
    <3>1. IF old THEN ~spoiled => versions = Versions ELSE built = 4 BY <1>1, <1>t, <2>2 DEF SchemaGrows
    <3>2. built = 4 => built' = 4 BY <1>1, <1>3
    <3> QED BY <1>1, <1>9, <1>4, <2>2, <3>1, <3>2
  <2> QED BY <1>6, <2>1, <2>2
<1>12. texts' = [k \in Keys |-> texts'[k]]
  <2>1. CASE mark = 4 BY <1>1, <2>1, SeedKeeps
  <2>2. CASE mark # 4 BY <1>1, <1>t, <2>2 DEF SchemaTypes
  <2> QED BY <2>1, <2>2
<1>13. TextsKept'
  <2>1. CASE mark = 4 BY <1>1, <1>t, <2>1, PersonaCopied
  <2>2. CASE mark # 4
    <3>1. todo'[p] = t /\ \A q \in Starters \ {p} : todo'[q] = todo[q] BY <1>5, <1>t DEF SchemaTypes
    <3>2. NotCopied => NotCopied'
      BY <1>1, <1>6, <2>2, <3>1 DEF NotCopied
    <3> QED BY <1>1, <1>t, <2>2, <3>2, NotCopiedYet
  <2> QED BY <2>1, <2>2
<1> QED BY <1>1, <1>5, <1>7, <1>8, <1>9, <1>10, <1>11, <1>12, <1>13, HolderWorks

\* A migration adds the least version that is missing.
LEMMA MigrateKeepsInv ==
  ASSUME SchemaInv, NEW p \in Starters, Migrate(p), UNCHANGED <<old, prompt, mirrors>>
  PROVE  SchemaInv'
<1>t. SchemaTypes /\ LockHeld /\ SchemaGrows /\ TextsKept BY DEF SchemaInv
<1> DEFINE v == Least(todo[p])
<1>1. startAt[p] = "migrate" /\ todo[p] # {} /\ built' = built /\ spoiled' = spoiled /\ chosen' = chosen BY DEF Migrate
<1>2. /\ todo[p] \in SUBSET Nat /\ Versions \ versions \subseteq todo[p] /\ todo[p] \subseteq Versions
      /\ ~spoiled => todo[p] = Versions \ versions
  BY <1>1, <1>t DEF SchemaTypes, LockHeld
<1>3. v \in todo[p] /\ \A y \in todo[p] : v <= y BY <1>1, <1>2, LeastIsLeft
<1>4. (v \in versions => spoiled) /\ v \in Versions /\ v \in Nat BY <1>2, <1>3
<1>6. CASE v \in versions \/ (v = 1 /\ built < 2)
  <2>1. startAt' = [startAt EXCEPT ![p] = "refused"] /\ Release(p) /\ UNCHANGED <<versions, texts, todo>>
    BY <1>6 DEF Migrate
  <2>2. spoiled \/ built < 2 BY <1>4, <1>6
  <2>3. spoiled
    <3>1. built \in 0 .. 4 BY <1>t DEF SchemaTypes
    <3> QED BY <1>1, <1>t, <2>2, <3>1 DEF SchemaGrows
  <2>4. Goes(p, "refused", todo[p]) BY <2>1, <1>t DEF Goes, SchemaTypes
  <2>5. "refused" \in Phases /\ "refused" \notin Locked /\ spoiled \in BOOLEAN BY <1>t DEF Phases, Locked, SchemaTypes
  <2>6. migrating' = migrating \/ migrating \in {NoStarter, p} BY <2>1, Released
  <2> QED BY <1>1, <1>2, <2>1, <2>3, <2>4, <2>5, <2>6, PhaseMoves
<1>7. CASE ~(v \in versions \/ (v = 1 /\ built < 2))
  <2>1. /\ versions' = versions \union {v} /\ todo' = [todo EXCEPT ![p] = @ \ {v}]
        /\ IF v = LastVersion /\ built >= 3 THEN SeedMissing({Persona}, prompt) ELSE UNCHANGED texts
        /\ startAt' = startAt /\ migrating' = migrating
    BY <1>7 DEF Migrate
  <2> HIDE DEF v
  <2> DEFINE t == todo[p] \ {v}
  <2>2. /\ t \in SUBSET todo[p] /\ todo' = [todo EXCEPT ![p] = t] /\ Versions \ versions' \subseteq t
        /\ ~spoiled' => t = Versions \ versions'
    BY <1>1, <1>2, <1>t, <2>1 DEF SchemaTypes
  <2>3. versions \subseteq versions' /\ versions' \subseteq Versions BY <1>4, <1>t, <2>1 DEF SchemaTypes
  <2>4. ~spoiled' /\ old => Prefix(versions')
    <3> SUFFICES ASSUME ~spoiled, old PROVE Prefix(versions') BY <1>1
    <3>1. PICK k \in 0 .. LastVersion : versions = 1 .. k BY <1>t DEF SchemaGrows, Prefix
    <3>2. v \in 1 .. LastVersion /\ k \in Nat BY <1>4, <3>1, LastIsVersion DEF Versions
    <3>3. k < v BY <1>7, <3>1, <3>2
    <3>4. k + 1 \in todo[p] BY <1>2, <3>1, <3>2, <3>3, LastIsVersion DEF Versions
    <3>5. v = k + 1 BY <1>3, <3>2, <3>3, <3>4
    <3>6. versions' = 1 .. (k + 1) /\ k + 1 \in 0 .. LastVersion BY <2>1, <3>1, <3>2, <3>5, LastIsVersion
    <3> QED BY <3>6 DEF Prefix
  <2>5. texts' = [k \in Keys |-> texts'[k]]
    <3>1. CASE v = LastVersion /\ built >= 3 BY <2>1, <3>1, SeedKeeps
    <3>2. CASE ~(v = LastVersion /\ built >= 3) BY <2>1, <1>t, <3>2 DEF SchemaTypes
    <3> QED BY <3>1, <3>2
  <2>6. TextsKept'
    <3>1. CASE v = LastVersion /\ built >= 3 BY <1>1, <1>t, <2>1, <3>1, PersonaCopied
    <3>2. CASE ~(v = LastVersion /\ built >= 3)
      <4>1. NotCopied => v # LastVersion BY <1>t, <3>2 DEF NotCopied, SchemaGrows
      <4>2. \A q \in Starters : startAt[q] = "init" => todo'[q] = todo[q] BY <1>1, <1>t, <2>2 DEF SchemaTypes
      <4>3. NotCopied => NotCopied' BY <1>1, <2>1, <4>1, <4>2 DEF NotCopied
      <4> QED BY <1>1, <1>t, <2>1, <3>2, <4>3, NotCopiedYet
    <3> QED BY <3>1, <3>2
  <2>7. built' \in 0 .. 4 /\ spoiled' \in BOOLEAN BY <1>1, <1>t DEF SchemaTypes
  <2> HIDE DEF t
  <2> QED BY <1>1, <2>1, <2>2, <2>3, <2>4, <2>5, <2>6, <2>7, HolderWorks
<1> QED BY <1>6, <1>7

\* A connection that held the lock is closed: of a process that has done its start, or the
\* history remembers it.
LEMMA CloseKeepsInv ==
  ASSUME SchemaInv, NEW p \in Starters, CloseConnection(p), UNCHANGED <<old, prompt, mirrors>>
  PROVE  SchemaInv'
<1>t. SchemaTypes /\ LockHeld /\ SchemaGrows /\ TextsKept BY DEF SchemaInv
<1>1. /\ migrating = p /\ IF Inside(p) THEN spoiled' = TRUE ELSE spoiled' = spoiled
      /\ built' = built /\ versions' = versions /\ texts' = texts /\ startAt' = startAt /\ todo' = todo
      /\ chosen' = chosen /\ old' = old /\ prompt' = prompt /\ mirrors' = mirrors
  BY DEF CloseConnection
<1>2. spoiled' \in BOOLEAN /\ (spoiled => spoiled') BY <1>1, <1>t DEF SchemaTypes
<1>3. SchemaTypes' BY <1>1, <1>2, <1>t DEF SchemaTypes
<1>4. \A q \in Starters : startAt[q] \in Locked => spoiled'
  <2> SUFFICES ASSUME NEW q \in Starters, startAt[q] \in Locked, ~spoiled' PROVE FALSE OBVIOUS
  <2>1. q = p BY <1>1, <1>2, <1>t DEF LockHeld
  <2> QED BY <1>1, <2>1 DEF Inside, Locked
<1>5. LockHeld'
  <2>1. ASSUME NEW q \in Starters
        PROVE  /\ startAt'[q] \in Locked => migrating' = q \/ spoiled'
               /\ startAt'[q] = "init" => todo'[q] \subseteq 1 .. 4
               /\ startAt'[q] = "migrate" => Versions \ versions' \subseteq todo'[q] /\ todo'[q] \subseteq Versions
               /\ startAt'[q] = "migrate" /\ ~spoiled' => todo'[q] = Versions \ versions'
    BY <1>1, <1>2, <1>4, <1>t DEF LockHeld
  <2> QED BY <2>1 DEF LockHeld, Versions
<1>6. SchemaGrows'
  <2>1. WholeSchema' = WholeSchema BY <1>1 DEF WholeSchema, Versions
  <2>2. Prefix(versions)' = Prefix(versions) BY <1>1 DEF Prefix
  <2> QED BY <1>1, <1>2, <1>t, <2>1, <2>2 DEF SchemaGrows, Versions
<1>7. TextsKept'
  <2>1. NotCopied => NotCopied' BY <1>1 DEF NotCopied
  <2> QED BY <1>1, <1>t, <2>1, NotCopiedYet
<1> QED BY <1>3, <1>5, <1>6, <1>7 DEF SchemaInv

\* Every statement that brings the schema up keeps the invariant.
LEMMA BringingKeepsInv ==
  ASSUME SchemaInv, NEW p \in Starters, Bringing(p)
  PROVE  SchemaInv'
<1>t. /\ SchemaTypes /\ LockHeld /\ SchemaGrows /\ TextsKept /\ built \in 0 .. 4
      /\ spoiled \in BOOLEAN /\ old \in BOOLEAN /\ todo[p] \in SUBSET Nat
  BY DEF SchemaInv, SchemaTypes
<1>u. UNCHANGED <<old, prompt, mirrors>> BY DEF Bringing
<1>g. ASSUME NEW s, startAt' = [startAt EXCEPT ![p] = s], UNCHANGED todo
      PROVE  Goes(p, s, todo[p])
  BY <1>g, <1>t DEF Goes, SchemaTypes
<1>1. CASE Start(p)
  <2>1. startAt' = [startAt EXCEPT ![p] = "lock"] /\ startAt[p] # "init" BY <1>1 DEF Start, To
  <2>2. Goes(p, "lock", todo[p]) BY <1>1, <1>g, <2>1 DEF Start
  <2>3. "lock" \in Phases /\ "lock" \notin Locked BY DEF Phases, Locked
  <2> QED BY <1>1, <1>t, <1>u, <2>1, <2>2, <2>3, PhaseMoves DEF Start
<1>2. CASE LockSchema(p)
  <2>1. startAt' = [startAt EXCEPT ![p] = "look"] /\ startAt[p] # "init" BY <1>2 DEF LockSchema, To
  <2>2. Goes(p, "look", todo[p]) BY <1>2, <1>g, <2>1 DEF LockSchema
  <2>3. "look" \in Phases BY DEF Phases
  <2> QED BY <1>2, <1>t, <1>u, <2>1, <2>2, <2>3, PhaseMoves DEF LockSchema
<1>3. CASE Look(p) \/ LookInVain(p)
  <2>1. startAt[p] = "look" /\ UNCHANGED <<built, versions, texts, migrating, spoiled, chosen>>
    BY <1>3 DEF Look, LookInVain, To
  <2>2. spoiled \/ (migrating = p /\ \A q \in Starters \ {p} : startAt[q] \notin Locked)
    BY <1>t, <2>1, HolderAlone DEF Locked
  <2>3. CASE startAt' = [startAt EXCEPT ![p] = "init"] /\ todo' = [todo EXCEPT ![p] = 1 .. 4]
    <3>1. Goes(p, "init", 1 .. 4) BY <2>3 DEF Goes
    <3>2. "init" \in Phases /\ 1 .. 4 \in SUBSET Nat /\ 4 \in 1 .. 4 BY DEF Phases
    <3> QED BY <1>t, <1>u, <2>1, <2>2, <3>1, <3>2, PhaseMoves
  <2>4. CASE built # 0 /\ startAt' = [startAt EXCEPT ![p] = "migrate"] /\ todo' = [todo EXCEPT ![p] = Versions \ versions]
    <3>1. Goes(p, "migrate", Versions \ versions) BY <2>4 DEF Goes
    <3>2. "migrate" \in Phases /\ Versions \ versions \in SUBSET Nat BY DEF Phases, Versions
    <3>3. ~spoiled => built >= 3
      <4> SUFFICES ASSUME ~spoiled, built \in {1, 2} PROVE FALSE BY <1>t, <2>4
      <4>1. ~old BY <1>t DEF SchemaGrows
      <4>2. PICK q \in Starters : startAt[q] = "init" BY <1>t, <4>1 DEF SchemaGrows
      <4> QED BY <2>1, <2>2, <4>2 DEF Locked
    <3> QED BY <1>t, <1>u, <2>1, <2>2, <3>1, <3>2, <3>3, PhaseMoves
  <2> QED BY <1>3, <2>3, <2>4 DEF Look, LookInVain, To
<1>4. CASE InitStatement(p) BY <1>4, <1>u, InitKeepsInv
<1>5. CASE Migrate(p) BY <1>5, <1>u, MigrateKeepsInv
<1>6. CASE Seed(p)
  <2>1. /\ startAt[p] \in {"init", "migrate"} /\ todo[p] = {} /\ startAt' = [startAt EXCEPT ![p] = "seal"]
        /\ SeedMissing(Keys, DefaultText) /\ UNCHANGED <<built, versions, todo, migrating, spoiled, chosen>>
    BY <1>6 DEF Seed, To
  <2>2. Goes(p, "seal", todo[p]) BY <1>g, <2>1
  <2>3. "seal" \in Phases /\ (migrating = p \/ spoiled) BY <1>t, <2>1, HolderAlone DEF Phases, Locked
  <2>4. ~NotCopied
    <3>1. CASE startAt[p] = "init" BY <2>1, <3>1 DEF NotCopied
    <3>2. CASE startAt[p] = "migrate" BY <1>t, <2>1, <3>2, LastIsVersion DEF NotCopied, LockHeld
    <3> QED BY <2>1, <3>1, <3>2
  <2>5. TextsKept' /\ texts' = [k \in Keys |-> texts'[k]]
    <3>1. /\ texts' = [k \in Keys |-> texts'[k]]
          /\ \A k \in Keys : texts[k] # NoText => texts'[k] = texts[k]
      BY <2>1, SeedKeeps
    <3>2. \A k \in Keys : chosen[k] # NoText => texts'[k] = chosen[k] BY <1>t, <2>4, <3>1 DEF TextsKept
    <3>3. chosen' = chosen BY <2>1
    <3> QED BY <3>1, <3>2, <3>3 DEF TextsKept
  <2>6. ~spoiled => WholeSchema
    <3>1. CASE startAt[p] = "init"
      <4>1. ~spoiled => IF old THEN versions = Versions /\ built = 3 ELSE built = 4 BY <1>t, <2>1, <3>1 DEF SchemaGrows
      <4> QED BY <1>t, <4>1 DEF WholeSchema
    <3>2. CASE startAt[p] = "migrate"
      <4>1. Versions \ versions \subseteq {} /\ versions \subseteq Versions
        BY <1>t, <2>1, <3>2 DEF LockHeld, SchemaTypes
      <4>2. ~spoiled => built >= 3 BY <1>t, <3>2 DEF SchemaGrows
      <4> QED BY <1>t, <4>1, <4>2 DEF WholeSchema
    <3> QED BY <2>1, <3>1, <3>2
  <2>7. ~spoiled /\ ~old => built \notin {1, 2}
    BY <2>6 DEF WholeSchema
  <2> QED BY <1>t, <1>u, <2>1, <2>2, <2>3, <2>5, <2>6, <2>7, PhaseMoves
<1>7. CASE Unlock(p)
  <2>1. /\ startAt[p] = "seal" /\ startAt' = [startAt EXCEPT ![p] = "up"] /\ Release(p)
        /\ UNCHANGED <<built, versions, texts, todo, spoiled, chosen>>
    BY <1>7 DEF Unlock, To
  <2>2. Goes(p, "up", todo[p]) BY <1>g, <2>1
  <2>3. "up" \in Phases /\ "up" \notin Locked BY DEF Phases, Locked
  <2>4. ~spoiled => WholeSchema BY <1>t, <2>1 DEF SchemaGrows
  <2>5. migrating' = migrating \/ migrating \in {NoStarter, p} BY <2>1, Released
  <2> QED BY <1>t, <1>u, <2>1, <2>2, <2>3, <2>4, <2>5, PhaseMoves
<1>8. CASE Stop(p)
  <2>1. /\ startAt' = [startAt EXCEPT ![p] = "stopped"] /\ Release(p)
        /\ spoiled' = (spoiled \/ (startAt[p] = "init" /\ built \in {1, 2}))
        /\ UNCHANGED <<built, versions, texts, todo, chosen>>
    BY <1>8 DEF Stop, To
  <2>2. Goes(p, "stopped", todo[p]) BY <1>g, <2>1
  <2>3. "stopped" \in Phases /\ "stopped" \notin Locked BY DEF Phases, Locked
  <2>4. spoiled' \in BOOLEAN /\ (spoiled => spoiled') /\ (~spoiled' => ~(startAt[p] = "init" /\ built \in {1, 2}))
    BY <1>t, <2>1
  <2>5. migrating' = migrating \/ migrating \in {NoStarter, p} BY <2>1, Released
  <2> QED BY <1>t, <1>u, <2>1, <2>2, <2>3, <2>4, <2>5, PhaseMoves
<1>9. CASE CloseConnection(p) BY <1>9, <1>u, CloseKeepsInv
<1> QED BY <1>1, <1>2, <1>3, <1>4, <1>5, <1>6, <1>7, <1>8, <1>9 DEF Bringing

\* Users write, and nothing of a start moves.
LEMMA UsersKeepInv ==
  ASSUME SchemaInv, UNCHANGED <<old, built, versions, startAt, todo, migrating, spoiled>>,
         texts' = [k \in Keys |-> texts'[k]], chosen' = [k \in Keys |-> chosen'[k]], TextsKept'
  PROVE  SchemaInv'
<1>u. old' = old /\ built' = built /\ versions' = versions /\ startAt' = startAt /\ todo' = todo
      /\ migrating' = migrating /\ spoiled' = spoiled
  OBVIOUS
<1>1. SchemaTypes' BY <1>u DEF SchemaInv, SchemaTypes
<1>2. LockHeld' BY <1>u DEF SchemaInv, LockHeld
<1>3. SchemaGrows' BY <1>u DEF SchemaInv, SchemaGrows, Prefix, WholeSchema
<1> QED BY <1>1, <1>2, <1>3 DEF SchemaInv

\* Starts, ends, statements and edits of users keep the invariant: one step per action.
LEMMA SchemaStep == SchemaInv /\ [SchemaNext]_schemaVars => SchemaInv'
<1> SUFFICES ASSUME SchemaInv, [SchemaNext]_schemaVars PROVE SchemaInv' OBVIOUS
<1>t. SchemaTypes /\ TextsKept BY DEF SchemaInv
<1>1. ASSUME NEW p \in Starters, Bringing(p) PROVE SchemaInv' BY <1>1, BringingKeepsInv
<1>2. ASSUME NEW k \in Keys, NEW t \in Texts \union {DefaultText}, Upsert(k, t) PROVE SchemaInv'
  <2>1. /\ mirrors' = IF k = Persona THEN mirrors \union {t} ELSE mirrors
        /\ texts' = [texts EXCEPT ![k] = t] /\ chosen' = [chosen EXCEPT ![k] = t]
        /\ UNCHANGED <<old, built, versions, prompt, startAt, todo, migrating, spoiled>>
    BY <1>2 DEF Upsert
  <2>2. /\ texts' = [j \in Keys |-> texts'[j]] /\ chosen' = [j \in Keys |-> chosen'[j]]
        /\ texts'[k] = t /\ chosen'[k] = t
        /\ \A j \in Keys \ {k} : texts'[j] = texts[j] /\ chosen'[j] = chosen[j]
    BY <1>t, <2>1 DEF SchemaTypes
  <2>3. TextsKept'
    <3> SUFFICES ASSUME NEW j \in Keys, j # k, chosen[j] # NoText
                 PROVE  texts[j] = chosen[j] \/ (j = Persona /\ texts[j] = NoText /\ NotCopied')
      BY <2>2 DEF TextsKept
    <3>1. CASE j = Persona
      <4>1. mirrors' = mirrors BY <2>1, <3>1
      <4>2. j = Persona /\ chosen'[Persona] = chosen[Persona] BY <2>2, <3>1
      <4>3. NotCopied => NotCopied' BY <2>1, <4>1, <4>2 DEF NotCopied
      <4> QED BY <1>t, <4>3 DEF TextsKept
    <3>2. CASE j # Persona BY <1>t, <3>2 DEF TextsKept
    <3> QED BY <3>1, <3>2
  <2> QED BY <2>1, <2>2, <2>3, UsersKeepInv
<1>3. ASSUME NEW t \in mirrors, MirrorPersona(t) PROVE SchemaInv'
  <2>1. UNCHANGED <<old, built, versions, texts, startAt, todo, migrating, spoiled, chosen>>
    BY <1>3 DEF MirrorPersona
  <2>2. ~NotCopied BY DEF NotCopied
  <2>3. \A j \in Keys : chosen[j] # NoText => texts[j] = chosen[j] BY <1>t, <2>2 DEF TextsKept
  <2>4. TextsKept' BY <2>1, <2>3 DEF TextsKept
  <2>5. texts' = [k \in Keys |-> texts'[k]] /\ chosen' = [k \in Keys |-> chosen'[k]] BY <1>t, <2>1 DEF SchemaTypes
  <2> QED BY <2>1, <2>4, <2>5, UsersKeepInv
<1>4. CASE UNCHANGED schemaVars
  <2>1. /\ old' = old /\ versions' = versions /\ texts' = texts /\ chosen' = chosen /\ prompt' = prompt /\ mirrors' = mirrors
        /\ startAt' = startAt /\ todo' = todo
        /\ UNCHANGED <<old, built, versions, startAt, todo, migrating, spoiled>>
    BY <1>4 DEF schemaVars
  <2>2. NotCopied => NotCopied' BY <2>1 DEF NotCopied
  <2>3. TextsKept' BY <1>t, <2>1, <2>2, NotCopiedYet
  <2>4. texts' = [k \in Keys |-> texts'[k]] /\ chosen' = [k \in Keys |-> chosen'[k]] BY <1>t, <2>1 DEF SchemaTypes
  <2> QED BY <2>1, <2>3, <2>4, UsersKeepInv
<1> QED BY <1>1, <1>2, <1>3, <1>4 DEF SchemaNext

\* So it always holds.
LEMMA SchemaKeepsInv == SchemaSpec => []SchemaInv
<1> QED BY SchemaInitInv, SchemaStep, PTL DEF SchemaSpec

\* For any processes and versions: no process that starts, at the same time as others or after
\* them, is refused by what another left half done, also when the lock stays with a connection
\* that did not give it back; unless a start lost the connection that held it, or a failure at
\* one of the two places the history names spoiled the tables (migrate).
THEOREM StartsAreAccepted == SchemaSpec => []NoStartIsRefused
<1>1. SchemaInv => NoStartIsRefused BY DEF SchemaInv, SchemaGrows, NoStartIsRefused
<1> QED BY <1>1, SchemaKeepsInv, PTL

\* For any keys and starts: a text of the user is neither overwritten by the seeds nor lost when
\* the persona is copied, whoever holds the lock.
THEOREM OwnTextsKept == SchemaSpec => []OwnTextStays
<1>1. SchemaInv => OwnTextStays BY DEF SchemaInv, TextsKept, OwnTextStays
<1> QED BY <1>1, SchemaKeepsInv, PTL

(***************************************************************************)
(* The files of MCP servers.  The invariant: until two programs overlap, one *)
(* at most edits, what it read is what was saved, and its draft is either  *)
(* torn or the file it means to put in place.                              *)
(***************************************************************************)

Servers == Configs \cup {NoServer}
Files == [Names -> Servers]
Jobs == [name : Names \cup {NoServer}, as : Servers, at : SUBSET FilePlaces]
Drafts == [is : {"none", "torn", "whole"}, has : Files]

FileTypes ==
  /\ disk \in [FilePlaces -> Files]
  /\ temp \in [FilePlaces -> Drafts]
  /\ editing \in [Editors -> {"idle", "read", "open", "write", "rename"}]
  /\ job \in [Editors -> Jobs]
  /\ held \in [Editors -> Files]
  /\ handle \in [Editors -> {"temp", "live", "gone"}]
  /\ settled \in [Names -> Servers]

\* Without an overlap one editor is at work at a time, and among the settings it is the one
\* that holds the lock.
Alone == \A e, o \in Editors : editing[e] # "idle" /\ editing[o] # "idle" => e = o
GuardHeld == \A r \in Requests : editing[r] # "idle" <=> r \in guard

\* What it read is what the file holds, and what it wrote is whole.
EditMeant(e) ==
  editing[e] # "idle" =>
    /\ job[e].name \in Names /\ job[e].at # {}
    /\ e \in Requests =>
         job[e].at = {"global"} /\ (job[e].as # NoServer => disk["project"][job[e].name] = NoServer)
    /\ editing[e] \in {"open", "write", "rename"} =>
         held[e] = [disk[Place(e)] EXCEPT ![job[e].name] = job[e].as]
    /\ editing[e] = "write" => handle[e] = "temp"
    /\ editing[e] = "rename" => temp[Place(e)].is = "whole" /\ temp[Place(e)].has = held[e]

FilesAsMeant ==
  /\ torn = {} /\ disk = meant
  /\ \A n \in Names : settled[n] # NoServer => Loaded(n) = settled[n]

FileGood == FileTypes /\ Alone /\ GuardHeld /\ (\A e \in Editors : EditMeant(e)) /\ FilesAsMeant

FileInv == overlapped \/ FileGood

\* The disk as the processes find it, and nobody at work.
LEMMA FileInitInv == FileInit => FileInv
<1> SUFFICES ASSUME FileInit PROVE FileInv OBVIOUS
<1>1. Nothing \in Files BY DEF Nothing, Files, Servers
<1>2. disk \in [FilePlaces -> Files]
  <2>1. PICK g \in {Nothing} \union {[Nothing EXCEPT ![n] = <<t, Secret>>] : n \in Names, t \in Transports} :
          disk = [p \in FilePlaces |-> IF p = "global" THEN g ELSE Nothing]
    BY DEF FileInit
  <2>2. \A t \in Transports : <<t, Secret>> \in Servers BY DEF Servers, Configs
  <2>3. g \in Files
    <3>1. CASE g = Nothing BY <1>1, <3>1
    <3>2. ASSUME NEW n \in Names, NEW t \in Transports, g = [Nothing EXCEPT ![n] = <<t, Secret>>] PROVE g \in Files
      BY <1>1, <2>2, <3>2 DEF Files
    <3> QED BY <2>1, <3>1, <3>2
  <2> QED BY <1>1, <2>1, <2>3
<1>3. FileTypes
  <2>1. temp \in [FilePlaces -> Drafts] BY <1>1 DEF FileInit, Draft, Drafts
  <2>2. NoJob \in Jobs BY DEF NoJob, Jobs, Servers
  <2>3. Nothing \in [Names -> Servers] BY <1>1 DEF Files
  <2> QED BY <1>1, <1>2, <2>1, <2>2, <2>3 DEF FileInit, FileTypes
<1>4. Alone /\ GuardHeld /\ \A e \in Editors : EditMeant(e)
  <2>1. \A e \in Editors : editing[e] = "idle" BY DEF FileInit
  <2>2. \A r \in Requests : r \notin guard BY DEF FileInit
  <2> QED BY <2>1, <2>2 DEF Alone, GuardHeld, EditMeant, Editors
<1>5. FilesAsMeant BY DEF FileInit, FilesAsMeant, Nothing
<1> QED BY <1>3, <1>4, <1>5 DEF FileInv, FileGood

----------------------------------------------------------------------------
Rest(e) == \A o \in Editors \ {e} : editing[o] = "idle"

\* Who works alone knows that all others are idle.
LEMMA AloneAtWork ==
  ASSUME Alone, NEW e \in Editors, editing[e] # "idle"
  PROVE  Rest(e) /\ Others(e) = {}
BY DEF Alone, Rest, Others

\* The places an edit has yet to do.
LEMMA PlaceIsLeft ==
  ASSUME NEW e \in Editors, job[e] \in Jobs, job[e].at # {}
  PROVE  Place(e) \in job[e].at /\ Place(e) \in FilePlaces
BY DEF Place, Jobs, FilePlaces

\* What is left to show of a step that one editor makes while the others rest.
LEMMA OneEdits ==
  ASSUME NEW e \in Editors, FileTypes', EditMeant(e)', FilesAsMeant',
         \A o \in Editors \ {e} : editing'[o] = "idle",
         \A r \in Requests : editing'[r] # "idle" <=> r \in guard'
  PROVE  FileGood'
<1>1. Alone' BY DEF Alone
<1>2. GuardHeld' BY DEF GuardHeld
<1>3. \A o \in Editors : EditMeant(o)' BY DEF EditMeant
<1> QED BY <1>1, <1>2, <1>3 DEF FileGood

\* The edit ends.
LEMMA EndsWell ==
  ASSUME FileGood, NEW e \in Editors, editing[e] # "idle", Ends(e), FilesAsMeant', disk' \in [FilePlaces -> Files],
         temp' \in [FilePlaces -> Drafts], handle' \in [Editors -> {"temp", "live", "gone"}], settled' \in [Names -> Servers]
  PROVE  FileGood'
<1>1. Rest(e) BY AloneAtWork DEF FileGood
<1>t. FileTypes /\ GuardHeld BY DEF FileGood
<1>2. editing' = [editing EXCEPT ![e] = "idle"] /\ job' = [job EXCEPT ![e] = NoJob] /\ held' = [held EXCEPT ![e] = Nothing]
      /\ guard' = guard \ {e}
  BY DEF Ends
<1>3. editing' \in [Editors -> {"idle", "read", "open", "write", "rename"}] /\ \A o \in Editors : editing'[o] = "idle"
  BY <1>1, <1>2, <1>t DEF FileTypes, Rest
<1>4. NoJob \in Jobs BY DEF NoJob, Jobs, Servers
<1>5. Nothing \in Files BY DEF Nothing, Files, Servers
<1>6. FileTypes' BY <1>2, <1>3, <1>4, <1>5, <1>t DEF FileTypes
<1>7. \A r \in Requests : editing'[r] # "idle" <=> r \in guard'
  <2> SUFFICES ASSUME NEW r \in Requests PROVE r \notin guard' BY <1>3 DEF Editors
  <2>2. r \in Editors BY DEF Editors
  <2>3. r # e => r \notin guard BY <1>1, <1>t, <2>2 DEF Rest, GuardHeld
  <2> QED BY <1>2, <2>3
<1>8. EditMeant(e)' BY <1>3 DEF EditMeant
<1> QED BY <1>3, <1>6, <1>7, <1>8, OneEdits

\* It goes on, and keeps the lock it has.
LEMMA GoesOn ==
  ASSUME FileGood, NEW e \in Editors, editing[e] # "idle", NEW s \in {"read", "open", "write", "rename"},
         editing' = [editing EXCEPT ![e] = s], guard' = guard
  PROVE  /\ editing' \in [Editors -> {"idle", "read", "open", "write", "rename"}] /\ editing'[e] = s
         /\ \A o \in Editors \ {e} : editing'[o] = "idle"
         /\ \A r \in Requests : editing'[r] # "idle" <=> r \in guard'
<1>1. Rest(e) BY AloneAtWork DEF FileGood
<1>t. FileTypes /\ GuardHeld BY DEF FileGood
<1>2. editing' \in [Editors -> {"idle", "read", "open", "write", "rename"}] /\ editing'[e] = s
      /\ \A o \in Editors \ {e} : editing'[o] = "idle"
  BY <1>1, <1>t DEF FileTypes, Rest
<1>3. ASSUME NEW r \in Requests PROVE editing'[r] # "idle" <=> r \in guard'
  <2>1. r \in Editors BY DEF Editors
  <2>2. editing[r] # "idle" <=> r \in guard BY <1>t DEF GuardHeld
  <2>3. editing'[r] # "idle" <=> editing[r] # "idle" BY <1>1, <1>2, <2>1 DEF Rest
  <2> QED BY <2>2, <2>3
<1> QED BY <1>2, <1>3

\* On to the next place, with the files as they are meant by then.
LEMMA LeavesWell ==
  ASSUME FileGood, NEW e \in Editors, editing[e] # "idle", NEW here, here = Place(e), Leaves(e, here),
         FilesAsMeant', disk' \in [FilePlaces -> Files],
         temp' \in [FilePlaces -> Drafts], handle' \in [Editors -> {"temp", "live", "gone"}], settled' \in [Names -> Servers]
  PROVE  FileGood'
<1>t. FileTypes /\ EditMeant(e) /\ job[e] \in Jobs /\ job \in [Editors -> Jobs] BY DEF FileGood, FileTypes
<1>1. CASE job[e].at = {here} BY <1>1, EndsWell DEF Leaves
<1>2. CASE job[e].at # {here}
  <2>1. editing' = [editing EXCEPT ![e] = "read"] /\ held' = held /\ guard' = guard
        /\ job' = [job EXCEPT ![e].at = @ \ {here}]
    BY <1>2 DEF Leaves
  <2>2. /\ editing' \in [Editors -> {"idle", "read", "open", "write", "rename"}] /\ editing'[e] = "read"
        /\ \A o \in Editors \ {e} : editing'[o] = "idle"
        /\ \A r \in Requests : editing'[r] # "idle" <=> r \in guard'
    BY <2>1, GoesOn
  <2>3. job' \in [Editors -> Jobs] /\ job'[e].name = job[e].name /\ job'[e].at = job[e].at \ {here}
    <3> DEFINE a == job[e].at \ {here}
    <3>1. job' = [job EXCEPT ![e] = [job[e] EXCEPT !.at = a]] BY <2>1, <1>t
    <3>2. a \in SUBSET FilePlaces BY <1>t DEF Jobs
    <3> HIDE DEF a
    <3>3. LET j == [job[e] EXCEPT !.at = a] IN j \in Jobs /\ j.name = job[e].name /\ j.at = a
      BY <1>t, <3>2 DEF Jobs
    <3>4. job' \in [Editors -> Jobs] /\ job'[e] = [job[e] EXCEPT !.at = a] BY <1>t, <3>1, <3>3
    <3> QED BY <3>3, <3>4 DEF a
  <2>4. FileTypes' BY <1>t, <2>1, <2>2, <2>3 DEF FileTypes
  <2>5. job[e].at # {} /\ job[e].name \in Names BY <1>t DEF EditMeant
  <2>6. e \notin Requests
    <3>1. here \in job[e].at BY <1>t, <2>5, PlaceIsLeft
    <3> QED BY <1>2, <1>t, <3>1 DEF EditMeant
  <2>7. EditMeant(e)'
    <3>1. here \in job[e].at BY <1>t, <2>5, PlaceIsLeft
    <3>2. job'[e].at # {} BY <1>2, <2>3, <2>5, <3>1
    <3> QED BY <2>2, <2>3, <2>5, <2>6, <3>2 DEF EditMeant
  <2> QED BY <2>2, <2>4, <2>7, OneEdits
<1> QED BY <1>1, <1>2

\* Without an overlap, nobody is at work when an edit begins.
LEMMA BeginsAlone ==
  ASSUME FileInv, NEW e \in Editors, Began(e), ~overlapped', editing[e] = "idle",
         e \in Commands \/ guard \intersect Fellows(e) = {}
  PROVE  FileGood /\ \A o \in Editors : editing[o] = "idle"
<1>1. ~overlapped /\ Others(e) \ Fellows(e) = {} BY DEF Began
<1>2. FileGood BY <1>1 DEF FileInv
<1>3. ASSUME NEW o \in Editors, editing[o] # "idle" PROVE FALSE
  <2>1. o \in Others(e) BY <1>3 DEF Others
  <2>2. PICK requests \in Apps : e \in requests /\ o \in requests BY <1>1, <2>1 DEF Fellows
  <2>3. e \in Requests /\ o \in Requests /\ o \in Fellows(e) BY <2>2 DEF Requests, Fellows
  <2>4. o \in guard BY <1>2, <1>3, <2>3 DEF FileGood, GuardHeld
  <2>5. e \notin Commands BY <2>3, FileAssumption
  <2> QED BY <2>3, <2>4, <2>5
<1> QED BY <1>2, <1>3

\* An edit begins.
LEMMA BeginsWell ==
  ASSUME FileGood, \A o \in Editors : editing[o] = "idle", NEW e \in Editors,
         editing' = [editing EXCEPT ![e] = "read"], NEW n \in Names, NEW x \in Servers, NEW where \in SUBSET FilePlaces, where # {},
         job' = [job EXCEPT ![e] = [name |-> n, as |-> x, at |-> where]],
         \A r \in Requests : r \in guard' <=> r = e,
         e \in Requests => where = {"global"} /\ (x # NoServer => disk["project"][n] = NoServer),
         UNCHANGED <<disk, torn, temp, held, handle, meant, settled>>
  PROVE  FileGood'
<1>t. FileTypes /\ FilesAsMeant BY DEF FileGood
<1>u. disk' = disk /\ torn' = torn /\ temp' = temp /\ held' = held /\ handle' = handle /\ meant' = meant /\ settled' = settled
  OBVIOUS
<1> DEFINE j == [name |-> n, as |-> x, at |-> where]
<1>1. j \in Jobs /\ j.name = n /\ j.as = x /\ j.at = where BY DEF Jobs
<1>2. job' = [job EXCEPT ![e] = j] OBVIOUS
<1> HIDE DEF j
<1>3. job' \in [Editors -> Jobs] /\ job'[e] = j BY <1>1, <1>2, <1>t DEF FileTypes
<1>4. editing' \in [Editors -> {"idle", "read", "open", "write", "rename"}] /\ editing'[e] = "read"
      /\ \A o \in Editors \ {e} : editing'[o] = "idle"
  BY <1>t DEF FileTypes
<1>5. FileTypes' BY <1>t, <1>u, <1>3, <1>4 DEF FileTypes
<1>6. FilesAsMeant' BY <1>t, <1>u DEF FilesAsMeant, Loaded
<1>7. EditMeant(e)' BY <1>1, <1>3, <1>4, <1>u DEF EditMeant
<1>8. \A r \in Requests : editing'[r] # "idle" <=> r \in guard' BY <1>4 DEF Editors
<1> QED BY <1>4, <1>5, <1>6, <1>7, <1>8, OneEdits

\* Every step of a request and of the command keeps the invariant: one step per action.
LEMMA FileStepKeepsInv == FileInv /\ [FileNext]_fileVars => FileInv'
<1> SUFFICES ASSUME FileInv, [FileNext]_fileVars, ~overlapped' PROVE FileGood'
  BY DEF FileInv
<1>1. ASSUME NEW r \in Requests, NEW n \in Names, NEW input \in Configs \union {NoServer}, Ask(r, n, input) PROVE FileGood'
  <2>0. r \in Editors /\ editing[r] = "idle" /\ guard \intersect Fellows(r) = {} /\ Began(r) BY <1>1 DEF Ask, EditStep, Editors
  <2>1. FileGood /\ \A o \in Editors : editing[o] = "idle" BY <2>0, BeginsAlone
  <2> DEFINE x == Completed(input, disk["global"][n])
  <2>2. disk["global"][n] \in Servers BY <2>1 DEF FileGood, FileTypes, FilePlaces, Files
  <2>3. x \in Servers /\ (x # NoServer => input # NoServer) BY <2>2 DEF Completed, Servers
  <2>4. /\ editing' = [editing EXCEPT ![r] = "read"] /\ guard' = guard \union {r}
        /\ input # NoServer => disk["project"][n] = NoServer
        /\ job' = [job EXCEPT ![r] = [name |-> n, as |-> x, at |-> {"global"}]]
        /\ UNCHANGED <<disk, torn, temp, held, handle, meant, settled>>
    BY <1>1, <2>1 DEF Ask, EditStep, FileGood, FilesAsMeant
  <2> HIDE DEF x
  <2>5. {"global"} \in SUBSET FilePlaces /\ {"global"} # {} BY DEF FilePlaces
  <2>6. \A q \in Requests : q \in guard' <=> q = r BY <2>1, <2>4 DEF FileGood, GuardHeld, Editors
  <2> QED BY <2>0, <2>1, <2>3, <2>4, <2>5, <2>6, BeginsWell
<1>2. ASSUME NEW c \in Commands, NEW n \in Names, NEW x \in Servers, NEW where \in SUBSET FilePlaces, where # {}, Command(c, n, x, where)
      PROVE  FileGood'
  <2>0. c \in Editors /\ editing[c] = "idle" /\ Began(c) BY <1>2 DEF Command, EditStep, Editors
  <2>1. FileGood /\ \A o \in Editors : editing[o] = "idle" BY <2>0, BeginsAlone
  <2>2. /\ editing' = [editing EXCEPT ![c] = "read"] /\ guard' = guard
        /\ job' = [job EXCEPT ![c] = [name |-> n, as |-> x, at |-> where]]
        /\ UNCHANGED <<disk, torn, temp, held, handle, meant, settled>>
    BY <1>2 DEF Command, EditStep
  <2>3. c \notin Requests BY FileAssumption
  <2>4. \A q \in Requests : q \in guard' <=> q = c BY <2>1, <2>2, <2>3 DEF FileGood, GuardHeld, Editors
  <2> QED BY <1>2, <2>0, <2>1, <2>2, <2>3, <2>4, BeginsWell
<1>3. ASSUME NEW e \in Editors, FileStep(e) PROVE FileGood'
  <2>1. overlapped' = overlapped /\ editing[e] # "idle"
    BY <1>3 DEF FileStep, ReadPlace, OpenTemp, Write, Rename, Halt, EditStep
  <2>2. FileGood BY <2>1 DEF FileInv
  <2>t. /\ FileTypes /\ EditMeant(e) /\ FilesAsMeant /\ job[e] \in Jobs
        /\ disk \in [FilePlaces -> Files] /\ temp \in [FilePlaces -> Drafts] /\ held \in [Editors -> Files]
        /\ handle \in [Editors -> {"temp", "live", "gone"}] /\ settled \in [Names -> Servers]
    BY <2>2 DEF FileGood, FileTypes
  <2>3. Rest(e) /\ Others(e) = {} BY <2>1, <2>2, AloneAtWork DEF FileGood
  <2> DEFINE here == Place(e)
  <2>4. here \in job[e].at /\ here \in FilePlaces /\ job[e].name \in Names BY <2>1, <2>t, PlaceIsLeft DEF EditMeant
  <2>5. disk[here] \in Files /\ held[e] \in Files /\ job[e].as \in Servers BY <2>4, <2>t DEF Jobs
  <2>r. CASE ReadPlace(e)
    <3>1. UNCHANGED <<disk, torn, temp, handle, meant, settled>> /\ editing[e] = "read" BY <2>r DEF ReadPlace
    <3>2. disk' = disk /\ torn' = torn /\ temp' = temp /\ handle' = handle /\ meant' = meant /\ settled' = settled
      BY <3>1
    <3>3. FilesAsMeant' BY <2>t, <3>2 DEF FilesAsMeant, Loaded
    <3>4. CASE Ends(e) BY <2>1, <2>2, <2>t, <3>2, <3>3, <3>4, EndsWell
    <3>5. CASE Leaves(e, here) BY <2>1, <2>2, <2>t, <3>2, <3>3, <3>5, LeavesWell
    <3>6. CASE /\ editing' = [editing EXCEPT ![e] = "open"]
               /\ held' = [held EXCEPT ![e] = [disk[here] EXCEPT ![job[e].name] = job[e].as]]
               /\ UNCHANGED <<job, guard>>
      <4>1. job' = job /\ guard' = guard BY <3>6
      <4>2. /\ editing' \in [Editors -> {"idle", "read", "open", "write", "rename"}] /\ editing'[e] = "open"
            /\ \A o \in Editors \ {e} : editing'[o] = "idle"
            /\ \A r \in Requests : editing'[r] # "idle" <=> r \in guard'
        BY <2>1, <2>2, <3>6, <4>1, GoesOn
      <4> DEFINE h == [disk[here] EXCEPT ![job[e].name] = job[e].as]
      <4>3. h \in Files BY <2>4, <2>5 DEF Files
      <4>4. held' \in [Editors -> Files] /\ held'[e] = h BY <2>t, <3>6, <4>3
      <4>5. FileTypes' BY <2>t, <3>2, <4>1, <4>2, <4>4 DEF FileTypes
      <4>6. Place(e)' = here BY <4>1 DEF Place
      <4>7. EditMeant(e)' BY <2>1, <2>t, <3>2, <4>1, <4>2, <4>4, <4>6 DEF EditMeant
      <4> QED BY <3>3, <4>2, <4>5, <4>7, OneEdits
    <3> QED BY <2>r, <3>4, <3>5, <3>6 DEF ReadPlace
  <2>o. CASE OpenTemp(e)
    <3>1. /\ editing[e] = "open" /\ editing' = [editing EXCEPT ![e] = "write"]
          /\ handle' = [handle EXCEPT ![e] = "temp"] /\ temp' = [temp EXCEPT ![here] = Draft("torn", Nothing)]
          /\ disk' = disk /\ torn' = torn /\ job' = job /\ held' = held /\ guard' = guard /\ meant' = meant
          /\ settled' = settled
      BY <2>o DEF OpenTemp, EditStep
    <3>2. /\ editing' \in [Editors -> {"idle", "read", "open", "write", "rename"}] /\ editing'[e] = "write"
          /\ \A o \in Editors \ {e} : editing'[o] = "idle"
          /\ \A r \in Requests : editing'[r] # "idle" <=> r \in guard'
      BY <2>1, <2>2, <3>1, GoesOn
    <3>3. Draft("torn", Nothing) \in Drafts BY DEF Draft, Drafts, Nothing, Files, Servers
    <3>4. FileTypes' BY <2>t, <2>4, <3>1, <3>2, <3>3 DEF FileTypes
    <3>5. Place(e)' = here BY <3>1 DEF Place
    <3>6. handle'[e] = "temp" BY <2>t, <3>1
    <3>7. EditMeant(e)' BY <2>1, <2>t, <3>1, <3>2, <3>5, <3>6 DEF EditMeant
    <3>8. FilesAsMeant' BY <2>t, <3>1 DEF FilesAsMeant, Loaded
    <3> QED BY <3>2, <3>4, <3>7, <3>8, OneEdits
  <2>w. CASE Write(e)
    <3>1. /\ editing[e] = "write" /\ editing' = [editing EXCEPT ![e] = "rename"]
          /\ job' = job /\ held' = held /\ guard' = guard /\ meant' = meant /\ settled' = settled /\ handle' = handle
      BY <2>w DEF Write, EditStep
    <3>2. handle[e] = "temp" BY <2>t, <3>1 DEF EditMeant
    <3>3. disk' = disk /\ torn' = torn /\ temp' = [temp EXCEPT ![here] = Draft("whole", held[e])]
      BY <2>w, <2>3, <3>2 DEF Write
    <3>4. /\ editing' \in [Editors -> {"idle", "read", "open", "write", "rename"}] /\ editing'[e] = "rename"
          /\ \A o \in Editors \ {e} : editing'[o] = "idle"
          /\ \A r \in Requests : editing'[r] # "idle" <=> r \in guard'
      BY <2>1, <2>2, <3>1, GoesOn
    <3>5. Draft("whole", held[e]) \in Drafts /\ Draft("whole", held[e]).is = "whole" /\ Draft("whole", held[e]).has = held[e]
      BY <2>5 DEF Draft, Drafts
    <3>6. temp' \in [FilePlaces -> Drafts] /\ temp'[here] = Draft("whole", held[e]) BY <2>t, <2>4, <3>3, <3>5
    <3>7. FileTypes' BY <2>t, <3>1, <3>3, <3>4, <3>6 DEF FileTypes
    <3>8. Place(e)' = here BY <3>1 DEF Place
    <3>9. EditMeant(e)' BY <2>1, <2>t, <3>1, <3>3, <3>4, <3>5, <3>6, <3>8 DEF EditMeant
    <3>10. FilesAsMeant' BY <2>t, <3>1, <3>3 DEF FilesAsMeant, Loaded
    <3> QED BY <3>4, <3>7, <3>9, <3>10, OneEdits
  <2>n. CASE Rename(e)
    <3>1. editing[e] = "rename" BY <2>n DEF Rename
    <3>2. temp[here].is = "whole" /\ temp[here].has = held[e] /\ held[e] = [disk[here] EXCEPT ![job[e].name] = job[e].as]
      BY <2>t, <3>1 DEF EditMeant
    <3>3. /\ torn' = torn \ {here} /\ disk' = [disk EXCEPT ![here] = held[e]]
          /\ temp' = [temp EXCEPT ![here] = Draft("none", Nothing)]
          /\ meant' = [meant EXCEPT ![here][job[e].name] = job[e].as]
          /\ settled' = [settled EXCEPT ![job[e].name] = IF e \in Requests THEN job[e].as ELSE NoServer]
          /\ Leaves(e, here)
          /\ handle' = [o \in Editors |-> IF o = e THEN "gone" ELSE Moved(o, here)]
      BY <2>n, <3>2 DEF Rename
    <3>4. handle' \in [Editors -> {"temp", "live", "gone"}]
      <4>1. \A o \in Editors : Moved(o, here) \in {"temp", "live", "gone"} BY <2>t DEF Moved
      <4> QED BY <3>3, <4>1
    <3>5. temp' \in [FilePlaces -> Drafts]
      <4>1. Draft("none", Nothing) \in Drafts BY DEF Draft, Drafts, Nothing, Files, Servers
      <4> QED BY <2>t, <3>3, <4>1
    <3>6. disk' \in [FilePlaces -> Files] /\ disk'[here] = held[e] /\ \A p \in FilePlaces \ {here} : disk'[p] = disk[p]
      BY <2>t, <2>4, <2>5, <3>3
    <3>7. settled' \in [Names -> Servers] BY <2>t, <2>4, <2>5, <3>3 DEF Servers
    <3>8. meant' = disk'
      <4>1. meant = disk BY <2>t DEF FilesAsMeant
      <4>2. meant' = [disk EXCEPT ![here] = [disk[here] EXCEPT ![job[e].name] = job[e].as]] BY <3>3, <4>1
      <4> QED BY <3>2, <3>3, <4>2
    <3>9. torn' = {} BY <2>t, <3>3 DEF FilesAsMeant
    <3>10. ASSUME NEW n \in Names, settled'[n] # NoServer
           PROVE  Loaded(n)' = settled'[n]
      <4>p. "global" \in FilePlaces /\ "project" \in FilePlaces BY DEF FilePlaces
      <4>1. CASE n = job[e].name
        <5>1. e \in Requests /\ settled'[n] = job[e].as BY <2>t, <2>4, <3>3, <3>10, <4>1
        <5>2. job[e].at = {"global"} /\ here = "global" /\ disk["project"][n] = NoServer
          BY <2>1, <2>t, <2>4, <3>10, <4>1, <5>1 DEF EditMeant
        <5>3. disk'["project"][n] = NoServer BY <3>6, <4>p, <5>2
        <5>4. disk'["global"][n] = job[e].as BY <2>5, <3>2, <3>6, <4>1, <5>2 DEF Files
        <5> QED BY <5>1, <5>3, <5>4 DEF Loaded
      <4>2. CASE n # job[e].name
        <5>1. settled'[n] = settled[n] BY <2>t, <3>3, <4>2
        <5>2. held[e][n] = disk[here][n] BY <2>5, <3>2, <4>2 DEF Files
        <5>3. \A p \in FilePlaces : disk'[p][n] = disk[p][n] BY <3>6, <5>2
        <5>4. Loaded(n) = settled[n] BY <2>t, <3>10, <5>1 DEF FilesAsMeant
        <5> QED BY <4>p, <5>1, <5>3, <5>4 DEF Loaded
      <4> QED BY <4>1, <4>2
    <3>11. FilesAsMeant' BY <3>8, <3>9, <3>10 DEF FilesAsMeant
    <3> QED BY <2>1, <2>2, <3>3, <3>4, <3>5, <3>6, <3>7, <3>11, LeavesWell
  <2>h. CASE Halt(e)
    <3>1. /\ Ends(e) /\ handle' = [handle EXCEPT ![e] = "gone"] /\ disk' = disk /\ torn' = torn /\ temp' = temp
          /\ meant' = meant /\ settled' = settled
      BY <2>h DEF Halt
    <3>2. handle' \in [Editors -> {"temp", "live", "gone"}] BY <2>t, <3>1
    <3>3. FilesAsMeant' BY <2>t, <3>1 DEF FilesAsMeant, Loaded
    <3> QED BY <2>1, <2>2, <2>t, <3>1, <3>2, <3>3, EndsWell
  <2> QED BY <1>3, <2>r, <2>o, <2>w, <2>n, <2>h DEF FileStep
<1>4. CASE UNCHANGED fileVars
  <2>1. /\ overlapped' = overlapped /\ disk' = disk /\ torn' = torn /\ temp' = temp /\ editing' = editing /\ job' = job
        /\ held' = held /\ handle' = handle /\ guard' = guard /\ meant' = meant /\ settled' = settled
    BY <1>4 DEF fileVars
  <2>2. FileGood BY <2>1 DEF FileInv
  <2>3. FileTypes' BY <2>1, <2>2 DEF FileGood, FileTypes
  <2>4. Alone' /\ GuardHeld' BY <2>1, <2>2 DEF FileGood, Alone, GuardHeld
  <2>5. \A e \in Editors : EditMeant(e)' BY <2>1, <2>2 DEF FileGood, EditMeant, Place
  <2>6. FilesAsMeant' BY <2>1, <2>2 DEF FileGood, FilesAsMeant, Loaded
  <2> QED BY <2>3, <2>4, <2>5, <2>6 DEF FileGood
<1>5. ASSUME NEW c \in Commands, NEW n \in Names, NEW input \in Configs, NEW p \in FilePlaces, Command(c, n, input, {p})
      PROVE  FileGood'
  <2>1. input \in Servers /\ {p} \in SUBSET FilePlaces /\ {p} # {} BY DEF Servers
  <2> QED BY <1>2, <1>5, <2>1
<1>6. ASSUME NEW c \in Commands, NEW n \in Names, Command(c, n, NoServer, FilePlaces) PROVE FileGood'
  <2>1. NoServer \in Servers /\ FilePlaces \in SUBSET FilePlaces /\ FilePlaces # {} BY DEF Servers, FilePlaces
  <2> QED BY <1>2, <1>6, <2>1
<1> QED BY <1>1, <1>3, <1>4, <1>5, <1>6 DEF FileNext

\* For any servers, processes, requests and commands: as long as no edit of the command, or of
\* the settings of another process, overlapped with another (each has a lock of its own),
\* each file has what was saved into it last, across every partial write.
THEOREM ServersStay == FileSpec => []SavedStays
<1>1. FileInit => FileInv BY FileInitInv
<1>2. FileInv /\ [FileNext]_fileVars => FileInv' BY FileStepKeepsInv
<1>3. FileInv => SavedStays BY DEF FileInv, FileGood, FilesAsMeant, SavedStays
<1> QED BY <1>1, <1>2, <1>3, PTL DEF FileSpec

(***************************************************************************)
(* Who the HTTP surface lets in.  The invariant: the server remembers      *)
(* every wrong password of the last window, so that the count it looks at  *)
(* after a verification bounds the history.                                *)
(***************************************************************************)

\* The verdicts that are remembered in the history: numbered below the next, and not of the future.
GuessesPast ==
  /\ now \in Nat /\ verdicts \in Nat
  /\ IsFiniteSet(wrong) /\ IsFiniteSet(failures)
  /\ wrong \subseteq [number : Nat, at : Nat] /\ failures \subseteq [number : Nat, at : Nat]
  /\ \A g \in wrong \cup failures : g.number < verdicts /\ g.at <= now

\* The server remembers every wrong password of the last window.
RecentKnown == Recent(wrong) \subseteq failures

GuessInv == GuessesPast /\ RecentKnown /\ GuessesAreBounded

\* A finite set with one element more.
LEMMA OneMoreGuess ==
  ASSUME NEW S, NEW T, NEW x, IsFiniteSet(T), Cardinality(T) < MaxFailures, S \subseteq T \cup {x}
  PROVE  Cardinality(S) <= MaxFailures
<1>1. Cardinality(T) \in Nat /\ MaxFailures \in Nat
  BY FS_CardinalityType, WebAuthAssumption
<1>2. IsFiniteSet(T \cup {x}) /\ Cardinality(T \cup {x}) \in Nat /\ Cardinality(T \cup {x}) <= Cardinality(T) + 1
  <2>1. /\ IsFiniteSet(T \cup {x})
        /\ Cardinality(T \cup {x}) = IF x \in T THEN Cardinality(T) ELSE Cardinality(T) + 1
    BY FS_AddElement
  <2>. QED
    BY <1>1, <2>1
<1>3. Cardinality(S) <= Cardinality(T \cup {x}) /\ Cardinality(S) \in Nat
  BY <1>2, FS_Subset, FS_CardinalityType
<1>. QED
  BY <1>1, <1>2, <1>3

\* What stays in the memory of the server is recent, and finite.
LEMMA RecentFacts ==
  ASSUME GuessInv
  PROVE  /\ IsFiniteSet(Recent(failures)) /\ Recent(failures) \subseteq failures
         /\ Recent(wrong) \subseteq Recent(failures)
<1>1. Recent(failures) \subseteq failures /\ Recent(wrong) \subseteq Recent(failures)
  BY DEF GuessInv, RecentKnown, Recent
<1>2. IsFiniteSet(failures)
  BY DEF GuessInv, GuessesPast
<1>. QED
  BY <1>1, <1>2, FS_Subset

\* A step with no verdict on a wrong password: memory is lost with its age, or with the history.
LEMMA QuietKeeps ==
  ASSUME GuessInv, now' \in Nat, now <= now', verdicts' \in Nat, verdicts <= verdicts',
         \/ wrong' = wrong /\ failures' \in {failures, Recent(failures)}
         \/ wrong' = {} /\ failures' = {}
  PROVE  GuessInv'
<1>1. CASE wrong' = {} /\ failures' = {}
  BY <1>1, FS_EmptySet DEF GuessInv, GuessesPast, RecentKnown, GuessesAreBounded, Recent
<1>2. CASE wrong' = wrong /\ failures' \in {failures, Recent(failures)}
  <2>1. failures' \subseteq failures /\ IsFiniteSet(failures')
    BY <1>2, RecentFacts DEF GuessInv, GuessesPast
  <2>2. GuessesPast'
    <3>1. \A g \in wrong' \cup failures' : g.number < verdicts' /\ g.at <= now'
      BY <1>2, <2>1 DEF GuessInv, GuessesPast
    <3>. QED
      BY <1>2, <2>1, <3>1 DEF GuessInv, GuessesPast
  <2>3. RecentKnown'
    <3>. SUFFICES ASSUME NEW g \in wrong, now' - g.at < Window PROVE g \in failures'
      BY <1>2 DEF RecentKnown, Recent
    <3>1. now - g.at < Window
      BY WebAuthAssumption DEF GuessInv, GuessesPast
    <3>2. g \in Recent(wrong)
      BY <3>1 DEF Recent
    <3>. QED
      BY <1>2, <3>2, RecentFacts
  <2>4. GuessesAreBounded'
    BY <1>2 DEF GuessInv, GuessesAreBounded
  <2>. QED
    BY <2>2, <2>3, <2>4 DEF GuessInv
<1>. QED
  BY <1>1, <1>2

\* A wrong password is one more in every window that has not passed, and fewer than the
\* maximum were remembered.
LEMMA WrongKeeps ==
  ASSUME GuessInv, NEW b \in Browsers, Verdict(b), Wrong(b), Cardinality(Recent(failures)) < MaxFailures
  PROVE  GuessInv'
<1>0. /\ Guess \in [number : Nat, at : Nat]
      /\ Guess.number = verdicts /\ Guess.at = now
  BY DEF Guess, GuessInv, GuessesPast
<1>1. PICK new \in [number : Nat, at : Nat] : new = Guess /\ new.number = verdicts /\ new.at = now
  BY ONLY <1>0
<1>2. /\ wrong' = wrong \cup {new} /\ failures' = Recent(failures) \cup {new}
      /\ now' = now /\ verdicts' = verdicts + 1
  BY <1>1 DEF Wrong, Verdict
<1>3. /\ IsFiniteSet(Recent(failures)) /\ Recent(failures) \subseteq failures
      /\ Recent(wrong) \subseteq Recent(failures)
  BY RecentFacts
<1>4. GuessesPast'
  <2>1. IsFiniteSet(wrong') /\ IsFiniteSet(failures')
    BY <1>2, <1>3, FS_AddElement DEF GuessInv, GuessesPast
  <2>2. wrong' \subseteq [number : Nat, at : Nat] /\ failures' \subseteq [number : Nat, at : Nat]
    BY <1>1, <1>2, <1>3 DEF GuessInv, GuessesPast
  <2>3. \A g \in wrong' \cup failures' : g.number < verdicts' /\ g.at <= now'
    BY <1>1, <1>2, <1>3 DEF GuessInv, GuessesPast
  <2>. QED
    BY <1>2, <2>1, <2>2, <2>3 DEF GuessInv, GuessesPast
<1>5. RecentKnown'
  BY <1>2, <1>3 DEF RecentKnown, Recent
<1>6. ASSUME NEW f \in wrong'
      PROVE  Cardinality({g \in wrong' : g.at >= f.at /\ g.at - f.at < Window}) <= MaxFailures
  <2>1. /\ now \in Nat /\ f.at \in Nat /\ f.at <= now /\ Window \in Nat
        /\ \A g \in wrong' : g.at \in Nat /\ g.at <= now
    BY <1>2, <1>4, WebAuthAssumption DEF GuessesPast
  <2>2. CASE now - f.at < Window
    <3>1. ASSUME NEW g \in wrong', g.at >= f.at PROVE g \in Recent(failures) \cup {new}
      <4>1. g # new => g \in wrong /\ now - g.at < Window
        BY <1>2, <2>1, <2>2, <3>1
      <4>. QED
        BY <1>3, <4>1 DEF Recent
    <3>2. {g \in wrong' : g.at >= f.at /\ g.at - f.at < Window} \subseteq Recent(failures) \cup {new}
      BY <3>1
    <3>. QED
      BY <1>3, <3>2, OneMoreGuess
  <2>3. CASE ~(now - f.at < Window)
    <3>1. f \in wrong
      BY <1>1, <1>2, <2>1, <2>3, WebAuthAssumption
    <3>2. {g \in wrong' : g.at >= f.at /\ g.at - f.at < Window}
            = {g \in wrong : g.at >= f.at /\ g.at - f.at < Window}
      BY <1>1, <1>2, <2>3
    <3>. QED
      BY <3>1, <3>2 DEF GuessInv, GuessesAreBounded
  <2>. QED
    BY <2>2, <2>3
<1>7. GuessesAreBounded'
  BY <1>6 DEF GuessesAreBounded
<1>. QED
  BY <1>4, <1>5, <1>7 DEF GuessInv

\* Between two right passwords no window of time holds more wrong ones than the maximum, for
\* any number of devices that try at once: the memory of the last window is looked at again
\* after the verification (WebAuth::login).
THEOREM GuessesLimited == WebSpec => []GuessesAreBounded
<1>1. WebInit => GuessInv
  BY FS_EmptySet DEF WebInit, GuessInv, GuessesPast, RecentKnown, GuessesAreBounded, Recent
<1>2. GuessInv /\ [WebNext]_authVars => GuessInv'
  <2>. SUFFICES ASSUME GuessInv, [WebNext]_authVars PROVE GuessInv'
    OBVIOUS
  <2>0. now \in Nat /\ verdicts \in Nat
    BY DEF GuessInv, GuessesPast
  <2>1. CASE UNCHANGED authVars
    BY <2>0, <2>1, QuietKeeps DEF authVars
  <2>2. ASSUME NEW b \in Browsers, NEW ownPage \in BOOLEAN, NEW password, Login(b, ownPage, password)
        PROVE  GuessInv'
    <3>1. now' = now /\ wrong' = wrong /\ verdicts' = verdicts
      BY <2>2 DEF Login
    <3>2. failures' = failures \/ failures' = Recent(failures)
      BY <2>2, Zenon DEF Login
    <3>. QED
      BY <2>0, <3>1, <3>2, QuietKeeps
  <2>3. ASSUME NEW b \in Browsers, NEW ownPage \in BOOLEAN, NEW bearer \in BOOLEAN, Logout(b, ownPage, bearer)
        PROVE  GuessInv'
    BY <2>0, <2>3, QuietKeeps DEF Logout
  <2>4. ASSUME NEW b \in Browsers, Decide(b) PROVE GuessInv'
    <3>1. Verdict(b) /\ now' = now /\ verdicts' = verdicts + 1
      BY <2>4 DEF Decide, Verdict
    <3>2. CASE Cardinality(Recent(failures)) >= MaxFailures
      <4>1. failures' = Recent(failures) /\ wrong' = wrong
        BY <2>4, <3>2 DEF Decide
      <4>. QED
        BY <2>0, <3>1, <4>1, QuietKeeps
    <3>3. CASE ~(Cardinality(Recent(failures)) >= MaxFailures)
      <4>1. Right(b) \/ Wrong(b)
        BY <2>4, <3>3 DEF Decide
      <4>2. CASE Right(b)
        <5>1. failures' = {} /\ wrong' = {}
          BY <4>2 DEF Right
        <5>. QED
          BY <2>0, <3>1, <5>1, QuietKeeps
      <4>3. CASE Wrong(b)
        <5>1. Cardinality(Recent(failures)) \in Nat /\ MaxFailures \in Nat
          BY RecentFacts, FS_CardinalityType, WebAuthAssumption
        <5>2. Cardinality(Recent(failures)) < MaxFailures
          BY <3>3, <5>1
        <5>. QED
          BY <3>1, <4>3, <5>2, WrongKeeps
      <4>. QED
        BY <4>1, <4>2, <4>3
    <3>. QED
      BY <3>2, <3>3
  <2>5. ASSUME NEW b \in Browsers, Request(b) PROVE GuessInv'
    BY <2>0, <2>5, QuietKeeps DEF Request
  <2>6. CASE Tick
    BY <2>0, <2>6, QuietKeeps DEF Tick
  <2>7. CASE RestartServer
    BY <2>0, <2>7, QuietKeeps DEF RestartServer
  <2>. QED
    BY <2>1, <2>2, <2>3, <2>4, <2>5, <2>6, <2>7 DEF WebNext
<1>3. GuessInv => GuessesAreBounded
  BY DEF GuessInv
<1>. QED
  BY <1>1, <1>2, <1>3, PTL DEF WebSpec
==============================================================================
