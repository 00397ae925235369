------------------------ MODULE ConversationsProofs ------------------------
(* No message slips by a follower, the code makes its room twice only by   *)
(* an overlap, and flags change on purpose: for any users, requests and    *)
(* bounds.                                                                 *)
EXTENDS Conversations, FiniteSetTheorems, TLAPS

USE ConversationsAssumption

(* A request that looks its mark up, stamps or tells stays a request.      *)
LEMMA MarkedRow ==
  ASSUME NEW q \in ReqRows, NEW m \in Memberships, NEW n \in 0..MaxMessages
  PROVE  [q EXCEPT !.row = m, !.now = n, !.pc = "save"] \in ReqRows
BY DEF ReqRows, Places

LEMMA StampedRow ==
  ASSUME NEW q \in ReqRows, NEW n \in 0..MaxMessages
  PROVE  [q EXCEPT !.now = n, !.pc = "tell"] \in ReqRows
BY DEF ReqRows, Places

LEMMA ToldRow ==
  ASSUME NEW q \in ReqRows, NEW to \in SUBSET Users
  PROVE  [q EXCEPT !.to = to, !.pc = "commit"] \in ReqRows
BY DEF ReqRows, Places

(* The clock counts the messages stamped, and names the last of them.      *)
LEMMA ClockIsDomain ==
  ASSUME TypeOK
  PROVE  Now \in 0..MaxMessages /\ DOMAIN author = 1..Now
<1>1. PICK n \in 0..MaxMessages : author \in [1..n -> Users]
  BY DEF TypeOK
<1>2. DOMAIN author = 1..n
  BY <1>1
<1>3. Cardinality(1..n) = n
  BY <1>1, FS_Interval
<1> QED
  BY <1>1, <1>2, <1>3 DEF Now

(* The rows of requests a step writes.                                     *)
LEMMA RequestIsRow ==
  ASSUME NEW kind \in Kinds \cup {"none"}, NEW u \in Users \cup {NoUser}, NEW pc \in Places
  PROVE  RequestAt(kind, u, pc) \in ReqRows
BY DEF RequestAt, ReqRows, NoMember, NewMember, Memberships

LEMMA IdleIsRow == Idle \in ReqRows
BY RequestIsRow DEF Idle, Places

LEMMA MemberIsRow ==
  ASSUME NEW x \in Memberships, NEW a \in BOOLEAN, NEW m \in BOOLEAN, NEW n \in 0..MaxMessages
  PROVE  /\ [x EXCEPT !.read = n] \in Memberships
         /\ [x EXCEPT !.active = a] \in Memberships
         /\ [x EXCEPT !.muted = m] \in Memberships
         /\ [x EXCEPT !.active = a, !.muted = m] \in Memberships
         /\ [x EXCEPT !.active = a, !.read = n] \in Memberships
BY DEF Memberships

LEMMA MovedIsRow ==
  ASSUME NEW x \in ReqRows, NEW pc \in Places
  PROVE  [x EXCEPT !.pc = pc] \in ReqRows
BY DEF ReqRows

LEMMA GotoKeepsRows ==
  ASSUME NEW r \in Requests, NEW pc \in Places, req \in [Requests -> ReqRows], Goto(r, pc)
  PROVE  req' \in [Requests -> ReqRows]
BY MovedIsRow DEF Goto

LEMMA DoneKeepsRows ==
  ASSUME NEW r \in Requests, req \in [Requests -> ReqRows], Done(r)
  PROVE  req' \in [Requests -> ReqRows]
BY IdleIsRow DEF Done

LEMMA ToPanelKeepsRows ==
  ASSUME NEW r \in Requests, req \in [Requests -> ReqRows], ToPanel(r), U(r) \in Users
  PROVE  req' \in [Requests -> ReqRows]
BY RequestIsRow DEF ToPanel, Kinds, Places

(* Every statement of the requests keeps the types.                        *)
LEMMA StepKeepsTypes ==
  ASSUME TypeOK, InFlight, [Next]_vars
  PROVE  TypeOK'
<1> USE DEF TypeOK
<1>0. Now \in 0..MaxMessages /\ DOMAIN author = 1..Now
  BY ClockIsDomain
<1>0a. \A r \in Requests : req[r].pc # "idle" => U(r) \in Users
  BY DEF InFlight, InFlightAt, U
<1>1. CASE UNCHANGED vars
  BY <1>1 DEF vars
<1>2. ASSUME NEW r \in Requests, NEW u \in Users, NEW kind \in Kinds, Arrive(r, u, kind)
      PROVE  TypeOK'
  <2>1. FirstStep(kind) \in Places
    BY DEF FirstStep, Places
  <2>2. RequestAt(kind, u, FirstStep(kind)) \in ReqRows
    BY <2>1, RequestIsRow
  <2>3. req' \in [Requests -> ReqRows] /\ arrivals' \in Nat
    BY <1>2, <2>2 DEF Arrive
  <2>4. UNCHANGED <<member, author, sent, notif, rooms, settled, overlap, named>>
    BY <1>2 DEF Arrive
  <2> QED
    BY <2>3, <2>4
<1>3. ASSUME NEW r \in Requests, Access(r) \/ ListFails(r) \/ RoomLook(r) \/ RoomMake(r)
             \/ ChannelMake(r) \/ PostBegin(r)
      PROVE  TypeOK'
  <2>1. req' \in [Requests -> ReqRows]
    <3>1. Done(r) \/ \E pc \in Places : Goto(r, pc)
      <4>1. CASE Access(r)
        BY <4>1 DEF Access, Places
      <4>2. CASE RoomLook(r)
        BY <4>2 DEF RoomLook, Places
      <4> QED
        BY <1>3, <4>1, <4>2 DEF ListFails, RoomMake, ChannelMake, PostBegin, Places
    <3> QED
      BY <3>1, GotoKeepsRows, DoneKeepsRows
  <2>2. overlap' \in BOOLEAN
    BY <1>3, Zenon DEF Access, ListFails, RoomLook, RoomMake, ChannelMake, PostBegin
  <2>3. rooms' \in Nat /\ named' \in Nat /\ UNCHANGED <<member, author, sent, notif, settled, arrivals>>
    BY <1>3 DEF Access, ListFails, RoomLook, RoomMake, ChannelMake, PostBegin
  <2> QED
    BY <2>1, <2>2, <2>3
<1>4. ASSUME NEW r \in Requests, MarkLook(r)
      PROVE  TypeOK'
  <2>1. U(r) \in Users
    BY <1>0a, <1>4 DEF MarkLook
  <2>2. [req[r] EXCEPT !.row = member[U(r)], !.now = Now, !.pc = "save"] \in ReqRows
    <3>1. req[r] \in ReqRows /\ member[U(r)] \in Memberships /\ Now \in 0..MaxMessages
      BY <1>0, <2>1
    <3> QED
      BY <3>1, MarkedRow
  <2>3. req' \in [Requests -> ReqRows]
    BY <1>4, <2>2, GotoKeepsRows, DoneKeepsRows DEF MarkLook, Places
  <2> QED
    BY <1>4, <2>3 DEF MarkLook
<1>5. ASSUME NEW r \in Requests, MarkSave(r) \/ MarkClear(r) \/ Feed(r)
      PROVE  TypeOK'
  <2>1. U(r) \in Users /\ req[r].now \in 0..MaxMessages
    BY <1>0a, <1>5 DEF MarkSave, MarkClear, Feed, ReqRows
  <2>2. req' \in [Requests -> ReqRows]
    BY <1>5, GotoKeepsRows, DoneKeepsRows DEF MarkSave, MarkClear, Feed, Places
  <2>3. member' \in [Users -> Memberships]
    <3>1. [member[U(r)] EXCEPT !.read = req[r].now] \in Memberships
      BY <2>1, MemberIsRow
    <3> QED
      BY <1>5, <2>1, <3>1 DEF MarkSave, MarkClear, Feed
  <2>4. settled' \in [Users -> SUBSET sent] /\ notif' \in [Users -> SUBSET sent]
    BY <1>5, <2>1 DEF MarkSave, MarkClear, Feed, MarkBlindly
  <2> QED
    BY <1>5, <2>2, <2>3, <2>4 DEF MarkSave, MarkClear, Feed
<1>6. ASSUME NEW r \in Requests, Ensure(r) \/ SetFlag(r) \/ Unfollow(r) \/ Bell(r)
      PROVE  TypeOK'
  <2>1. U(r) \in Users
    BY <1>0a, <1>6 DEF Ensure, SetFlag, Unfollow, Bell
  <2>2. req' \in [Requests -> ReqRows]
    BY <1>6, <2>1, GotoKeepsRows, DoneKeepsRows, ToPanelKeepsRows
    DEF Ensure, SetFlag, Unfollow, Bell, Places
  <2>3. member' \in [Users -> Memberships]
    <3>1. member[U(r)].muted \in BOOLEAN
      BY <2>1 DEF Memberships
    <3>2. \A a, m \in BOOLEAN :
            /\ [member[U(r)] EXCEPT !.active = a] \in Memberships
            /\ [member[U(r)] EXCEPT !.muted = m] \in Memberships
            /\ [member[U(r)] EXCEPT !.active = a, !.muted = m] \in Memberships
      BY <2>1 DEF Memberships
    <3>3. CASE Ensure(r)
      BY <2>1, <3>1, <3>2, <3>3 DEF Ensure, EnsureRow
    <3>4. CASE SetFlag(r)
      <4>1. (req[r].kind = "mute") \in BOOLEAN
        OBVIOUS
      <4> QED
        BY <2>1, <3>2, <3>4, <4>1 DEF SetFlag
    <3> QED
      BY <1>6, <2>1, <3>2, <3>3, <3>4 DEF Unfollow, Bell
  <2>4. settled' \in [Users -> SUBSET sent] /\ notif' \in [Users -> SUBSET sent]
    BY <1>6, <2>1 DEF Ensure, SetFlag, Unfollow, Bell
  <2> QED
    BY <1>6, <2>2, <2>3, <2>4 DEF Ensure, SetFlag, Unfollow, Bell
<1>7. ASSUME NEW r \in Requests, PostTell(r) \/ PostFail(r)
      PROVE  TypeOK'
  <2>1. \A m \in SUBSET Users : Recipients(r, m) \subseteq Users
    BY DEF Recipients
  <2>2. \A m \in SUBSET Users : [req[r] EXCEPT !.to = Recipients(r, m), !.pc = "commit"] \in ReqRows
    BY <2>1, ToldRow
  <2>3. req' \in [Requests -> ReqRows]
    BY <1>7, <2>2, DoneKeepsRows DEF PostTell, PostFail
  <2> QED
    BY <1>7, <2>3 DEF PostTell, PostFail
<1>8. ASSUME NEW r \in Requests, PostStamp(r)
      PROVE  TypeOK'
  <2>1. U(r) \in Users /\ Now + 1 \in 0..MaxMessages
    BY <1>0, <1>0a, <1>8 DEF PostStamp
  <2>2. author' \in [1..(Now + 1) -> Users]
    BY <1>0, <1>8, <2>1 DEF PostStamp
  <2>3. sent' \subseteq DOMAIN author'
    BY <1>0, <1>8, <2>2 DEF PostStamp
  <2>4. [req[r] EXCEPT !.now = Now + 1, !.pc = "tell"] \in ReqRows
    BY <2>1, StampedRow
  <2>5. req' \in [Requests -> ReqRows]
    BY <1>8, <2>4 DEF PostStamp
  <2>6. UNCHANGED <<member, sent, notif, rooms, settled, arrivals, overlap, named>>
    BY <1>8 DEF PostStamp
  <2> QED
    BY <2>1, <2>2, <2>3, <2>5, <2>6
<1>9. ASSUME NEW r \in Requests, PostCommit(r)
      PROVE  TypeOK'
  <2>1. U(r) \in Users /\ req[r].now \in DOMAIN author /\ req[r].now \in 0..MaxMessages
    BY <1>0a, <1>9 DEF InFlight, InFlightAt, PostCommit, ReqRows
  <2>2. req' \in [Requests -> ReqRows]
    BY <1>9, <2>1, ToPanelKeepsRows DEF PostCommit
  <2>3. member' \in [Users -> Memberships]
    BY <1>9, <2>1, MemberIsRow DEF PostCommit
  <2>4. settled' \in [Users -> SUBSET sent'] /\ notif' \in [Users -> SUBSET sent']
    BY <1>9, <2>1 DEF PostCommit, Notify
  <2>5. sent' \subseteq DOMAIN author' /\ UNCHANGED <<author, rooms, arrivals, overlap, named>>
    BY <1>9, <2>1 DEF PostCommit
  <2> QED
    BY <2>2, <2>3, <2>4, <2>5
<1> QED
  BY <1>1, <1>2, <1>3, <1>4, <1>5, <1>6, <1>7, <1>8, <1>9 DEF Next

(* Where the kinds of requests may be.                                     *)
LEMMA KindsAtPlaces ==
  /\ KindsAt("room") = {"list"} /\ KindsAt("make") = {"list"} /\ KindsAt("failed") = {"list"}
  /\ KindsAt("look") = {"list", "panel"} /\ KindsAt("save") = {"list", "panel"}
  /\ KindsAt("clear") = {"list", "panel"} /\ KindsAt("feed") = {"panel"}
  /\ KindsAt("leave") = {"unfollow"} /\ KindsAt("bell") = {"bell"}
  /\ KindsAt("channel") = {"channel"}
  /\ KindsAt("flag") = {"mute", "unmute"}
  /\ KindsAt("stamp") = {"post", "context_post"}
  /\ KindsAt("tell") = {"post", "context_post"} /\ KindsAt("commit") = {"post", "context_post"}
  /\ KindsAt("idle") = Kinds \cup {"none"} /\ KindsAt("access") = Kinds \cup {"none"}
  /\ KindsAt("ensure") = Kinds \cup {"none"}
BY DEF KindsAt

(* Every statement leaves its request where its kind takes it, and the     *)
(* stamps of the others alone.                                             *)
LEMMA StepKeepsInFlight ==
  ASSUME TypeOK, InFlight, [Next]_vars
  PROVE  InFlight'
<1>0. \A r \in Requests : InFlightAt(r) /\ req[r] \in ReqRows
  BY DEF InFlight, TypeOK
<1>1. CASE UNCHANGED vars
  BY <1>1 DEF vars, InFlight, InFlightAt
<1>2. ASSUME NEW r \in Requests, UNCHANGED author, InFlightAt(r)',
             \A s \in Requests \ {r} : req'[s] = req[s]
      PROVE  InFlight'
  BY <1>0, <1>2 DEF InFlight, InFlightAt
<1>3. ASSUME NEW r \in Requests, Done(r) PROVE InFlightAt(r)'
  BY <1>3, KindsAtPlaces DEF Done, Idle, RequestAt, InFlightAt, TypeOK
<1>4. ASSUME NEW r \in Requests, NEW u \in Users, NEW kind \in Kinds \cup {"none"}, NEW pc \in Places,
             kind \in KindsAt(pc), pc \notin {"tell", "commit"},
             req' = [req EXCEPT ![r] = RequestAt(kind, u, pc)]
      PROVE  InFlightAt(r)'
  BY <1>4 DEF RequestAt, InFlightAt, TypeOK
<1>5. ASSUME NEW r \in Requests, NEW pc \in Places, req[r].kind \in KindsAt(pc),
             pc \notin {"tell", "commit"}, req[r].pc # "idle", Goto(r, pc)
      PROVE  InFlightAt(r)'
  BY <1>0, <1>5 DEF Goto, InFlightAt, TypeOK, ReqRows
<1>6. ASSUME NEW r \in Requests, ToPanel(r), req[r].pc # "idle" PROVE InFlightAt(r)'
  BY <1>0, <1>4, <1>6, KindsAtPlaces DEF ToPanel, U, InFlightAt, Kinds, Places
<1>7. ASSUME NEW r \in Requests, Access(r) PROVE InFlight'
  <2>0. req[r].pc = "access" /\ req[r].kind \in Kinds \cup {"none"}
    BY <1>0, <1>7 DEF Access, ReqRows
  <2>1. InFlightAt(r)'
    <3>1. CASE Done(r)
      BY <1>3, <3>1
    <3>2. CASE req[r].kind = "panel" /\ Goto(r, "look")
      BY <1>5, <2>0, <3>2, KindsAtPlaces DEF Places
    <3>3. CASE req[r].kind = "unfollow" /\ Goto(r, "leave")
      BY <1>5, <2>0, <3>3, KindsAtPlaces DEF Places
    <3>4. CASE Goto(r, "ensure")
      BY <1>5, <2>0, <3>4, KindsAtPlaces DEF Places
    <3> QED
      BY <1>7, <3>1, <3>2, <3>3, <3>4 DEF Access
  <2> QED
    BY <1>2, <1>7, <2>1 DEF Access, Goto, Done, TypeOK
<1>8. ASSUME NEW r \in Requests, NEW u \in Users, NEW kind \in Kinds, Arrive(r, u, kind)
      PROVE  InFlight'
  <2>1. FirstStep(kind) \in {"ensure", "room", "bell", "channel", "access"} /\ kind \in KindsAt(FirstStep(kind))
    BY KindsAtPlaces DEF FirstStep
  <2>2. InFlightAt(r)'
    BY <1>4, <1>8, <2>1 DEF Arrive, Places
  <2> QED
    BY <1>2, <1>8, <2>2 DEF Arrive, TypeOK
<1>9. ASSUME NEW r \in Requests, RoomLook(r) \/ RoomMake(r) \/ ListFails(r) PROVE InFlight'
  <2>1. req[r].kind = "list"
    BY <1>0, <1>9, KindsAtPlaces DEF RoomLook, RoomMake, ListFails, InFlightAt
  <2>2. Done(r) \/ \E pc \in {"make", "look", "failed"} : Goto(r, pc)
    BY <1>9 DEF RoomLook, RoomMake, ListFails
  <2>3. InFlightAt(r)'
    BY <1>3, <1>5, <1>9, <2>1, <2>2, KindsAtPlaces DEF RoomLook, RoomMake, ListFails, Places
  <2> QED
    BY <1>2, <1>9, <2>2, <2>3 DEF RoomLook, RoomMake, ListFails, Goto, Done, TypeOK
<1>10. ASSUME NEW r \in Requests, MarkLook(r) PROVE InFlight'
  <2>1. req[r].kind \in {"list", "panel"}
    BY <1>0, <1>10, KindsAtPlaces DEF MarkLook, InFlightAt
  <2>2. CASE Done(r) \/ (req[r].kind = "panel" /\ Goto(r, "feed"))
    <3>1. InFlightAt(r)'
      BY <1>3, <1>5, <1>10, <2>1, <2>2, KindsAtPlaces DEF MarkLook, Places
    <3> QED
      BY <1>2, <1>10, <2>2, <3>1 DEF MarkLook, Goto, Done, TypeOK
  <2>3. CASE req' = [req EXCEPT ![r].row = member[U(r)], ![r].now = Now, ![r].pc = "save"]
    <3>1. InFlightAt(r)'
      BY <1>0, <1>10, <2>1, <2>3, KindsAtPlaces DEF MarkLook, InFlightAt, TypeOK, ReqRows
    <3> QED
      BY <1>2, <1>10, <2>3, <3>1 DEF MarkLook, TypeOK
  <2> QED
    BY <1>10, <2>1, <2>2, <2>3 DEF MarkLook
<1>11. ASSUME NEW r \in Requests, MarkSave(r) \/ MarkClear(r) \/ Feed(r) PROVE InFlight'
  <2>1. req[r].kind \in {"list", "panel"}
    BY <1>0, <1>11, KindsAtPlaces DEF MarkSave, MarkClear, Feed, InFlightAt
  <2>2. Done(r) \/ Goto(r, "clear") \/ (req[r].kind # "list" /\ Goto(r, "feed"))
    BY <1>11 DEF MarkSave, MarkClear, Feed
  <2>3. InFlightAt(r)'
    BY <1>3, <1>5, <1>11, <2>1, <2>2, KindsAtPlaces DEF MarkSave, MarkClear, Feed, Places
  <2> QED
    BY <1>2, <1>11, <2>2, <2>3 DEF MarkSave, MarkClear, Feed, Goto, Done, TypeOK
<1>12. ASSUME NEW r \in Requests, Ensure(r) \/ SetFlag(r) \/ Unfollow(r) \/ Bell(r) PROVE InFlight'
  <2>1. Done(r) \/ ToPanel(r) \/ (req[r].kind \in {"mute", "unmute"} /\ Goto(r, "flag"))
    BY <1>12 DEF Ensure, SetFlag, Unfollow, Bell
  <2>2. InFlightAt(r)'
    BY <1>3, <1>5, <1>6, <1>12, <2>1, KindsAtPlaces DEF Ensure, SetFlag, Unfollow, Bell, Places
  <2> QED
    BY <1>2, <1>12, <2>1, <2>2 DEF Ensure, SetFlag, Unfollow, Bell, Goto, Done, ToPanel, TypeOK
<1>13. ASSUME NEW r \in Requests, PostBegin(r) \/ PostFail(r) \/ ChannelMake(r) PROVE InFlight'
  <2>1. Done(r) \/ (req[r].kind \in {"post", "context_post"} /\ Goto(r, "stamp"))
    BY <1>13 DEF PostBegin, PostFail, ChannelMake
  <2>2. InFlightAt(r)'
    BY <1>3, <1>5, <1>13, <2>1, KindsAtPlaces DEF PostBegin, PostFail, ChannelMake, Places
  <2> QED
    BY <1>2, <1>13, <2>1, <2>2 DEF PostBegin, PostFail, ChannelMake, Goto, Done, TypeOK
<1>14. ASSUME NEW r \in Requests, PostStamp(r) PROVE InFlight'
  <2>1. DOMAIN author = 1..Now /\ Now \in Nat
    BY ClockIsDomain
  <2>2. author' = [m \in 1..(Now + 1) |-> IF m = Now + 1 THEN U(r) ELSE author[m]]
    BY <1>14 DEF PostStamp
  <2>3. \A m \in DOMAIN author : m \in DOMAIN author' /\ author'[m] = author[m]
    BY <2>1, <2>2
  <2>4. Now + 1 \in DOMAIN author' /\ author'[Now + 1] = U(r)
    BY <2>1, <2>2
  <2>5. \A s \in Requests \ {r} : InFlightAt(s)'
    BY <1>0, <1>14, <2>3 DEF PostStamp, InFlightAt, TypeOK
  <2>6. InFlightAt(r)'
    BY <1>0, <1>14, <2>4, KindsAtPlaces DEF PostStamp, InFlightAt, U, TypeOK, ReqRows
  <2> QED
    BY <2>5, <2>6 DEF InFlight
<1>15. ASSUME NEW r \in Requests, PostTell(r) PROVE InFlight'
  <2>1. InFlightAt(r)'
    BY <1>0, <1>15, KindsAtPlaces DEF PostTell, InFlightAt, TypeOK, ReqRows
  <2> QED
    BY <1>2, <1>15, <2>1 DEF PostTell, TypeOK
<1>16. ASSUME NEW r \in Requests, PostCommit(r) PROVE InFlight'
  <2>1. InFlightAt(r)'
    BY <1>6, <1>16 DEF PostCommit
  <2> QED
    BY <1>2, <1>16, <2>1 DEF PostCommit, ToPanel, TypeOK
<1> QED
  BY <1>1, <1>7, <1>8, <1>9, <1>10, <1>11, <1>12, <1>13, <1>14, <1>15, <1>16 DEF Next

-----------------------------------------------------------------------------
(* A page that is on its way to a user stays so, unless it is the one that *)
(* moves.                                                                  *)
LEMMA StillShowing ==
  ASSUME NEW u \in Users, NEW r \in Requests, Showing(u),
         \A s \in Requests \ {r} : req'[s] = req[s],
         u # U(r) \/ ~(req[r].kind = "panel" \/ req[r].pc = "flag")
  PROVE  Showing(u)'
BY DEF Showing, U

(* What was accounted for to a user remains so: a page comes, all is       *)
(* settled, the user does not follow, or nothing of it was taken away.     *)
LEMMA AccountedFor ==
  ASSUME TypeOK, NothingSlipsBy, UNCHANGED <<author, sent>>,
         \A u \in Users :
           \/ Showing(u)' \/ sent \subseteq settled'[u] \/ ~member'[u].active
           \/ /\ ~Showing(u)
              /\ member[u].active /\ member'[u].read = member[u].read
              /\ notif[u] \subseteq notif'[u] \cup settled'[u]
              /\ settled[u] \subseteq settled'[u]
  PROVE  NothingSlipsBy'
BY DEF NothingSlipsBy, Unread

(* Every statement accounts for the messages to each member: reading and   *)
(* the bell settle what they take from the unread, joining shows the panel,*)
(* and a commit notifies, or finds the message unread, or comes late.      *)
LEMMA StepKeepsNothingSlipsBy ==
  ASSUME TypeOK, InFlight, NothingSlipsBy, [Next]_vars
  PROVE  NothingSlipsBy'
<1> USE DEF TypeOK
<1>0. \A r \in Requests : InFlightAt(r) /\ req[r] \in ReqRows
  BY DEF InFlight
<1>0a. \A r \in Requests : req[r].pc # "idle" => U(r) \in Users
  BY <1>0 DEF InFlightAt, U
<1>1. CASE UNCHANGED vars
  BY <1>1 DEF vars, NothingSlipsBy, Unread, Showing
<1>2. ASSUME NEW r \in Requests, UNCHANGED <<member, author, sent, notif, settled>>,
             \A s \in Requests \ {r} : req'[s] = req[s],
             req[r].kind # "panel" /\ req[r].pc # "flag"
      PROVE  NothingSlipsBy'
  BY <1>2, StillShowing, AccountedFor
<1>3. ASSUME NEW r \in Requests, NEW u \in Users, NEW kind \in Kinds, Arrive(r, u, kind)
      PROVE  NothingSlipsBy'
  <2>1. req[r].kind = "none" /\ req[r].pc = "idle"
    BY <1>3 DEF Arrive, Idle, RequestAt
  <2> QED
    BY <1>2, <1>3, <2>1 DEF Arrive
<1>4. ASSUME NEW r \in Requests, Access(r) PROVE NothingSlipsBy'
  <2>1. UNCHANGED <<member, author, sent, notif, settled>> /\ req[r].pc = "access"
    BY <1>4 DEF Access
  <2>2. \A s \in Requests \ {r} : req'[s] = req[s]
    BY <1>4 DEF Access, Goto, Done
  <2>3. CASE req[r].kind = "panel" /\ member[U(r)].active
    <3>1. \A u \in Users : u = U(r) => Showing(u)'
      BY <1>4, <2>3 DEF Access, Goto, Showing, U, ReqRows
    <3> QED
      BY <2>1, <2>2, <3>1, StillShowing, AccountedFor
  <2>4. CASE ~member[U(r)].active
    BY <2>1, <2>2, <2>4, StillShowing, AccountedFor
  <2> QED
    BY <1>2, <2>1, <2>2, <2>3, <2>4
<1>5. ASSUME NEW r \in Requests, RoomLook(r) \/ RoomMake(r) \/ ChannelMake(r) \/ ListFails(r)
      PROVE  NothingSlipsBy'
  <2>1. req[r].kind \in {"list", "channel"} /\ req[r].pc \in {"room", "make", "channel", "failed"}
    BY <1>0, <1>5, KindsAtPlaces DEF RoomLook, RoomMake, ChannelMake, ListFails, InFlightAt
  <2>2. \A s \in Requests \ {r} : req'[s] = req[s]
    BY <1>5 DEF RoomLook, RoomMake, ChannelMake, ListFails, Goto, Done
  <2> QED
    BY <1>2, <1>5, <2>1, <2>2 DEF RoomLook, RoomMake, ChannelMake, ListFails
<1>6. ASSUME NEW r \in Requests, MarkLook(r) PROVE NothingSlipsBy'
  <2>1. \A s \in Requests \ {r} : req'[s] = req[s]
    BY <1>6 DEF MarkLook, Goto, Done
  <2>2. UNCHANGED <<member, author, sent, notif, settled>> /\ req[r].pc = "look"
    BY <1>6 DEF MarkLook
  <2>3. CASE req[r].kind = "panel"
    <3>1. req'[r].kind = "panel" /\ req'[r].user = U(r)
      BY <1>0, <1>6, <2>3 DEF MarkLook, Goto, U, ReqRows
    <3>2. \A u \in Users : u = U(r) => Showing(u)'
      BY <3>1 DEF Showing, U
    <3> QED
      BY <2>1, <2>2, <3>2, StillShowing, AccountedFor
  <2> QED
    BY <1>2, <2>1, <2>2, <2>3
<1>7. ASSUME NEW r \in Requests, MarkSave(r) \/ MarkClear(r) PROVE NothingSlipsBy'
  <2>1. /\ U(r) \in Users
        /\ req[r].kind = "list" \/ req[r].kind = "panel"
    BY <1>0, <1>0a, <1>7, KindsAtPlaces DEF MarkSave, MarkClear, InFlightAt
  <2>2. /\ UNCHANGED <<author, sent>>
        /\ \A s \in Requests \ {r} : req'[s] = req[s]
        /\ \A u \in Users \ {U(r)} : member'[u] = member[u] /\ notif'[u] = notif[u]
                                    /\ settled'[u] = settled[u]
    BY <1>7 DEF MarkSave, MarkClear, MarkBlindly, Goto, Done
  <2>3. CASE req[r].kind = "panel"
    <3>1. req'[r].kind = "panel" /\ req'[r].user = U(r)
      BY <1>0, <1>7, <2>3 DEF MarkSave, MarkClear, Goto, U, ReqRows
    <3>2. \A u \in Users : u = U(r) => Showing(u)'
      BY <3>1 DEF Showing, U
    <3> QED
      BY <2>1, <2>2, <3>2, StillShowing, AccountedFor
  <2>4. CASE req[r].kind = "list"
    <3>1. sent \subseteq settled'[U(r)]
      BY <1>7, <2>1, <2>4 DEF MarkSave, MarkClear, MarkBlindly
    <3> QED
      BY <2>2, <3>1, StillShowing, AccountedFor
  <2> QED
    BY <2>1, <2>3, <2>4
<1>8. ASSUME NEW r \in Requests, Feed(r) PROVE NothingSlipsBy'
  <2>1. U(r) \in Users
    BY <1>0a, <1>8 DEF Feed
  <2>2. /\ UNCHANGED <<member, author, sent, notif>>
        /\ \A s \in Requests \ {r} : req'[s] = req[s]
        /\ \A u \in Users \ {U(r)} : settled'[u] = settled[u]
        /\ sent \subseteq settled'[U(r)]
    BY <1>8, <2>1 DEF Feed, Done
  <2> QED
    BY <2>2, StillShowing, AccountedFor
<1>9. ASSUME NEW r \in Requests, Ensure(r) \/ SetFlag(r) \/ Unfollow(r) PROVE NothingSlipsBy'
  <2>1. U(r) \in Users
    BY <1>0a, <1>9 DEF Ensure, SetFlag, Unfollow
  <2>2. /\ UNCHANGED <<author, sent, notif, settled>>
        /\ \A s \in Requests \ {r} : req'[s] = req[s]
        /\ \A u \in Users \ {U(r)} : member'[u] = member[u]
    BY <1>9 DEF Ensure, EnsureRow, SetFlag, Unfollow, Goto, Done, ToPanel
  <2>3. CASE Ensure(r) \/ SetFlag(r)
    <3>1. ToPanel(r) \/ Goto(r, "flag")
      BY <2>3 DEF Ensure, SetFlag
    <3>2. req'[r].user = U(r) /\ (req'[r].kind = "panel" \/ req'[r].pc = "flag")
      BY <1>0, <3>1 DEF Goto, ToPanel, RequestAt, U, ReqRows
    <3>3. \A u \in Users : u = U(r) => Showing(u)'
      BY <3>2 DEF Showing, U
    <3> QED
      BY <2>2, <3>3, StillShowing, AccountedFor
  <2>4. CASE Unfollow(r)
    <3>1. ~member'[U(r)].active
      BY <2>1, <2>4 DEF Unfollow, Memberships
    <3> QED
      BY <2>2, <3>1, StillShowing, AccountedFor
  <2> QED
    BY <1>9, <2>3, <2>4
<1>10. ASSUME NEW r \in Requests, Bell(r) PROVE NothingSlipsBy'
  <2>1. U(r) \in Users /\ req[r].pc = "bell" /\ req[r].kind = "bell"
    BY <1>0, <1>0a, <1>10, KindsAtPlaces DEF Bell, InFlightAt
  <2>2. /\ UNCHANGED <<member, author, sent>>
        /\ \A s \in Requests \ {r} : req'[s] = req[s]
        /\ \A u \in Users : notif[u] \subseteq notif'[u] \cup settled'[u]
                          /\ settled[u] \subseteq settled'[u]
    BY <1>10, <2>1 DEF Bell, Done
  <2> QED
    BY <2>1, <2>2, StillShowing, AccountedFor
<1>11. ASSUME NEW r \in Requests, PostBegin(r) \/ PostTell(r) \/ PostFail(r) PROVE NothingSlipsBy'
  <2>1. req[r].kind \in {"post", "context_post"} /\ req[r].pc # "flag"
    BY <1>0, <1>11, KindsAtPlaces DEF PostBegin, PostTell, PostFail, InFlightAt
  <2>2. \A s \in Requests \ {r} : req'[s] = req[s]
    BY <1>11 DEF PostBegin, PostTell, PostFail, Goto, Done
  <2> QED
    BY <1>2, <1>11, <2>1, <2>2 DEF PostBegin, PostTell, PostFail
<1>12. ASSUME NEW r \in Requests, PostStamp(r) PROVE NothingSlipsBy'
  <2>1. req[r].kind \in {"post", "context_post"} /\ req[r].pc = "stamp"
    BY <1>0, <1>12, KindsAtPlaces DEF PostStamp, InFlightAt
  <2>2. /\ UNCHANGED <<member, sent, notif, settled>>
        /\ \A s \in Requests \ {r} : req'[s] = req[s]
    BY <1>12 DEF PostStamp
  <2>3. DOMAIN author = 1..Now /\ Now \in Nat
    BY ClockIsDomain
  <2>4. \A m \in sent : author'[m] = author[m]
    BY <1>12, <2>3 DEF PostStamp
  <2>5. \A u \in Users : Showing(u) => Showing(u)'
    BY <2>1, <2>2, StillShowing
  <2> QED
    BY <2>2, <2>4, <2>5 DEF NothingSlipsBy, Unread
<1>13. ASSUME NEW r \in Requests, PostCommit(r) PROVE NothingSlipsBy'
  <2>1. /\ U(r) \in Users /\ author[req[r].now] = U(r)
        /\ req[r].now \in Nat /\ req[r].kind \in {"post", "context_post"} /\ req[r].pc = "commit"
    BY <1>0, <1>0a, <1>13, KindsAtPlaces DEF PostCommit, InFlightAt, ReqRows, U
  <2>2. /\ author' = author /\ sent' = sent \cup {req[r].now}
        /\ \A s \in Requests \ {r} : req'[s] = req[s]
        /\ \A u \in Users \ {U(r)} : member'[u] = member[u]
    BY <1>13 DEF PostCommit, ToPanel
  <2>3. /\ \A u \in Users : notif[u] \subseteq notif'[u] /\ settled[u] \subseteq settled'[u]
        /\ \A u \in req[r].to \cap Users : req[r].now \in notif'[u]
        /\ \A u \in LateAndMute(r) : req[r].now \in settled'[u]
    BY <1>13 DEF PostCommit, Notify, LateAndMute
  <2>4. \A u \in Users : u = U(r) => Showing(u)'
    BY <1>13 DEF PostCommit, ToPanel, RequestAt, Showing, U
  <2>5. ASSUME NEW u \in Users, u # U(r), member'[u].active, NEW m \in sent'
        PROVE  (author[m] = u \/ Unread(u, m) \/ m \in notif[u] \/ m \in settled[u] \/ Showing(u))'
    <3>1. Showing(u) => Showing(u)'
      BY <2>2, <2>5, StillShowing
    <3>2. CASE m \in sent
      BY <2>2, <2>3, <2>5, <3>1, <3>2 DEF NothingSlipsBy, Unread
    <3>3. CASE m = req[r].now
      <4>1. member[u].read \in Nat
        BY DEF Memberships
      <4>2. CASE u \in req[r].to
        BY <2>3, <3>3, <4>2
      <4>3. CASE u \notin req[r].to /\ member[u].read >= req[r].now
        BY <2>3, <2>5, <3>3, <4>3 DEF LateAndMute
      <4>4. CASE ~(member[u].read >= req[r].now)
        BY <2>1, <2>2, <2>5, <3>3, <4>1, <4>4 DEF Unread
      <4> QED
        BY <4>2, <4>3, <4>4
    <3> QED
      BY <2>2, <2>5, <3>2, <3>3
  <2> QED
    BY <2>4, <2>5 DEF NothingSlipsBy
<1> QED
  BY <1>1, <1>3, <1>4, <1>5, <1>6, <1>7, <1>8, <1>9, <1>10, <1>11, <1>12, <1>13 DEF Next

-----------------------------------------------------------------------------
(* Who is about to make the room is alone, or the history says otherwise.  *)
LEMMA StepKeepsMakersAlone ==
  ASSUME TypeOK, InFlight, MakersAreAlone, [Next]_vars
  PROVE  MakersAreAlone'
<1> USE DEF TypeOK
<1>0. \A r \in Requests : req[r] \in ReqRows
  OBVIOUS
<1>1. CASE UNCHANGED vars
  BY <1>1 DEF vars, MakersAreAlone
<1>2. ASSUME NEW r \in Requests, UNCHANGED <<rooms, named, overlap>>, req'[r].pc # "make",
             \A s \in Requests \ {r} : req'[s] = req[s]
      PROVE  MakersAreAlone'
  BY <1>2 DEF MakersAreAlone
<1>3. ASSUME NEW r \in Requests, UNCHANGED <<rooms, named, overlap>>,
             Done(r) \/ ToPanel(r) \/ \E pc \in Places \ {"make"} : Goto(r, pc)
      PROVE  MakersAreAlone'
  <2>1. req'[r].pc # "make" /\ \A s \in Requests \ {r} : req'[s] = req[s]
    BY <1>0, <1>3 DEF Done, ToPanel, Goto, Idle, RequestAt, ReqRows
  <2> QED
    BY <1>2, <1>3, <2>1
<1>4. ASSUME NEW r \in Requests, NEW u \in Users, NEW kind \in Kinds, Arrive(r, u, kind)
      PROVE  MakersAreAlone'
  <2>1. FirstStep(kind) # "make"
    BY DEF FirstStep
  <2> QED
    BY <1>2, <1>4, <2>1 DEF Arrive, RequestAt
<1>5. ASSUME NEW r \in Requests, RoomLook(r) PROVE MakersAreAlone'
  <2>1. CASE Goto(r, "make") /\ rooms = 0
    <3>1. /\ rooms' = rooms /\ named' = named /\ overlap' = (overlap \/ \E s \in Requests : req[s].pc = "make")
          /\ \A s \in Requests \ {r} : req'[s] = req[s]
      BY <1>5, <2>1 DEF RoomLook, Goto
    <3>2. rooms' <= named' + 1 /\ rooms' <= named'
      BY <2>1, <3>1
    <3>3. ~overlap' => \A s \in Requests \ {r} : req'[s].pc # "make"
      BY <3>1
    <3> QED
      BY <3>2, <3>3 DEF MakersAreAlone
  <2>2. CASE rooms # 0 /\ (Goto(r, "look") \/ Goto(r, "failed"))
    <3>1. rooms' = rooms /\ named' = named /\ (overlap' <=> overlap)
      BY <1>5, <2>2 DEF RoomLook
    <3>2. req'[r].pc # "make" /\ \A s \in Requests \ {r} : req'[s] = req[s]
      BY <1>0, <2>2 DEF Goto, ReqRows
    <3> QED
      BY <3>1, <3>2 DEF MakersAreAlone
  <2> QED
    BY <1>5, <2>1, <2>2 DEF RoomLook
<1>6. ASSUME NEW r \in Requests, RoomMake(r) PROVE MakersAreAlone'
  <2>1. req[r].pc = "make" /\ rooms' = rooms + 1 /\ named' = named /\ overlap' = overlap /\ req'[r].pc = "look"
        /\ \A s \in Requests \ {r} : req'[s] = req[s]
    BY <1>0, <1>6 DEF RoomMake, Goto, ReqRows
  <2> QED
    BY <2>1 DEF MakersAreAlone
<1>6a. ASSUME NEW r \in Requests, ChannelMake(r) PROVE MakersAreAlone'
  <2>1. rooms' = rooms + 1 /\ named' = named + 1 /\ overlap' = overlap /\ req'[r].pc # "make"
        /\ \A s \in Requests \ {r} : req'[s] = req[s]
    BY <1>6a DEF ChannelMake, Done, Idle, RequestAt
  <2> QED
    BY <2>1 DEF MakersAreAlone
<1>7. ASSUME NEW r \in Requests,
             Access(r) \/ ListFails(r) \/ MarkSave(r) \/ MarkClear(r) \/ Feed(r) \/ Ensure(r)
             \/ SetFlag(r) \/ Unfollow(r) \/ Bell(r) \/ PostBegin(r) \/ PostCommit(r) \/ PostFail(r)
      PROVE  MakersAreAlone'
  <2>1. UNCHANGED <<rooms, named, overlap>>
    BY <1>7 DEF Access, ListFails, MarkSave, MarkClear, Feed, Ensure, SetFlag, Unfollow, Bell,
                PostBegin, PostCommit, PostFail
  <2>2. Done(r) \/ ToPanel(r) \/ \E pc \in {"look", "leave", "ensure", "clear", "feed", "flag", "stamp"} : Goto(r, pc)
    <3>1. CASE Access(r)
      BY <3>1 DEF Access
    <3> QED
      BY <1>7, <3>1 DEF ListFails, MarkSave, MarkClear, Feed, Ensure, SetFlag, Unfollow, Bell,
                PostBegin, PostCommit, PostFail
  <2> QED
    BY <1>3, <2>1, <2>2 DEF Places
<1>8. ASSUME NEW r \in Requests, MarkLook(r) \/ PostStamp(r) \/ PostTell(r)
      PROVE  MakersAreAlone'
  <2>1. req'[r].pc # "make" /\ \A s \in Requests \ {r} : req'[s] = req[s]
    <3>1. CASE MarkLook(r)
      BY <1>0, <3>1 DEF MarkLook, Goto, Done, Idle, RequestAt, ReqRows
    <3>2. CASE PostStamp(r)
      BY <1>0, <3>2 DEF PostStamp, ReqRows
    <3>3. CASE PostTell(r)
      BY <1>0, <3>3 DEF PostTell, ReqRows
    <3> QED
      BY <1>8, <3>1, <3>2, <3>3
  <2> QED
    BY <1>2, <1>8, <2>1 DEF MarkLook, PostStamp, PostTell
<1> QED
  BY <1>1, <1>4, <1>5, <1>6, <1>6a, <1>7, <1>8 DEF Next

-----------------------------------------------------------------------------
LEMMA InitIsFine == Init => IInv
<1> SUFFICES ASSUME Init PROVE IInv
  OBVIOUS
<1>1. TypeOK
  <2>1. member \in [Users -> Memberships]
    <3>1. NoMember \in Memberships
      BY DEF NoMember, NewMember, Memberships
    <3>2. NewMember(TRUE) \in Memberships
      BY DEF NoMember, NewMember, Memberships
    <3>3. \A u \in Users : member[u] \in {NoMember, NewMember(TRUE)}
      BY Zenon DEF Init
    <3>4. member = [u \in Users |-> member[u]]
      BY DEF Init
    <3> QED
      BY <3>1, <3>2, <3>3, <3>4
  <2>2. author \in [1..0 -> Users] /\ 0 \in 0..MaxMessages
    BY DEF Init
  <2>3. req \in [Requests -> ReqRows]
    BY IdleIsRow DEF Init
  <2>4. overlap \in BOOLEAN
    BY DEF Init
  <2> QED
    BY <2>1, <2>2, <2>3, <2>4 DEF Init, TypeOK
<1>2. InFlight
  BY KindsAtPlaces DEF Init, InFlight, InFlightAt, Idle, RequestAt
<1>3. NothingSlipsBy /\ MakersAreAlone
  BY DEF Init, NothingSlipsBy, MakersAreAlone, Idle, RequestAt
<1> QED
  BY <1>1, <1>2, <1>3 DEF IInv

(* The invariant of the requests in flight is inductive.                   *)
THEOREM InductiveInvariant == Spec => []IInv
<1>1. IInv /\ [Next]_vars => IInv'
  BY StepKeepsTypes, StepKeepsInFlight, StepKeepsNothingSlipsBy, StepKeepsMakersAlone DEF IInv
<1> QED
  BY <1>1, InitIsFine, PTL DEF Spec

(* No message slips by a member, for any number of users, requests and     *)
(* messages: unread, in the bell, shown, or marked without being shown.    *)
THEOREM NothingSlipsByAlways == Spec => []NothingSlipsBy
<1>1. IInv => NothingSlipsBy
  BY DEF IInv
<1> QED
  BY <1>1, InductiveInvariant, PTL

(* Of the rooms nobody named by hand there are two only after first visits *)
(* at the same time.                                                       *)
THEOREM RoomsAlways == Spec => []SpareRoomsNeedOverlap
<1>1. IInv => SpareRoomsNeedOverlap
  BY DEF IInv, TypeOK, MakersAreAlone, SpareRoomsNeedOverlap
<1> QED
  BY <1>1, InductiveInvariant, PTL

(* A commit makes its author a follower, whatever came in between.         *)
THEOREM AuthorsFollow == Spec => AuthorFollows
<1>1. IInv /\ [Next]_vars => [\A m \in sent' \ sent : member'[author[m]].active]_vars
  <2> SUFFICES ASSUME IInv, [Next]_vars, NEW m \in sent' \ sent
               PROVE  member'[author[m]].active
    OBVIOUS
  <2>1. PICK r \in Requests : PostCommit(r)
    BY DEF Next, vars, Arrive, Access, RoomLook, RoomMake, ChannelMake, ListFails, MarkLook, MarkSave, MarkClear,
           Feed, Ensure, SetFlag, Unfollow, Bell, PostBegin, PostStamp, PostTell, PostFail
  <2>2. m = req[r].now /\ req[r].pc = "commit"
    BY <2>1 DEF PostCommit
  <2>3. author[m] = U(r) /\ U(r) \in Users
    BY <2>2 DEF IInv, InFlight, InFlightAt, U
  <2> QED
    BY <2>1, <2>3 DEF PostCommit, IInv, TypeOK, Memberships
<1> QED
  BY <1>1, InductiveInvariant, PTL DEF Spec, AuthorFollows

(* Following and muting change only by a request of that user about them.  *)
THEOREM FlagsChangeOnPurpose == Spec => FlagsAreDeliberate
<1> DEFINE Flags == \A u \in Users :
       <<member'[u].active, member'[u].muted>> # <<member[u].active, member[u].muted>>
         => \E r \in Requests : req[r].user = u
                               /\ req[r].pc \in {"ensure", "flag", "leave", "commit"}
<1>1. IInv /\ [Next]_vars => [Flags]_vars
  <2> SUFFICES ASSUME IInv, [Next]_vars, NEW u \in Users,
                      <<member'[u].active, member'[u].muted>> # <<member[u].active, member[u].muted>>
               PROVE  \E r \in Requests : req[r].user = u
                               /\ req[r].pc \in {"ensure", "flag", "leave", "commit"}
    OBVIOUS
  <2>1. member'[u] # member[u]
    OBVIOUS
  <2>2. PICK r \in Requests : MarkSave(r) \/ Ensure(r) \/ SetFlag(r) \/ Unfollow(r) \/ PostCommit(r)
    BY <2>1 DEF Next, vars, Arrive, Access, RoomLook, RoomMake, ChannelMake, ListFails, MarkLook, MarkClear,
           Feed, Bell, PostBegin, PostStamp, PostTell, PostFail
  <2>3. ~MarkSave(r)
    BY DEF MarkSave, IInv, TypeOK, Memberships
  <2>4. req[r].user = u
    BY <2>1, <2>2, <2>3 DEF Ensure, EnsureRow, SetFlag, Unfollow, PostCommit, U, IInv, TypeOK
  <2> QED
    BY <2>2, <2>3, <2>4 DEF Ensure, SetFlag, Unfollow, PostCommit
<1> QED
  BY <1>1, InductiveInvariant, PTL DEF Spec, FlagsAreDeliberate
=============================================================================
