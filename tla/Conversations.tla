---------------------------- MODULE Conversations ----------------------------
(***************************************************************************)
(* One conversation of a record or a deal in collab/services.py and        *)
(* collab/views.py: who follows it, what is posted to it, what each member *)
(* has read, and the bell.  The requests of the same and of other users    *)
(* interleave statement by statement; only post_message is a transaction.  *)
(*                                                                         *)
(* A timestamp is the number of messages stamped so far: message m is the  *)
(* m-th to take its created_at, and is read by a mark not below m.         *)
(***************************************************************************)
EXTENDS Naturals, FiniteSets

CONSTANTS Users, Requests, NoUser,
          MaxMessages,    \* bound on the messages that are stamped
          MaxArrivals     \* bound on the requests that arrive

ASSUME ConversationsAssumption == NoUser \notin Users /\ MaxMessages \in Nat

Kinds == {"panel", "list", "post", "context_post", "follow", "unfollow",
          "mute", "unmute", "bell", "channel"}

VARIABLES member,   \* ConversationMembership of each user
          author,   \* of the messages stamped, in order of created_at
          sent,     \* the messages committed
          notif,    \* user -> messages with an unread Notification
          rooms,    \* conversations of the team titled "Sala operativa"
          req,      \* each request: its kind, its user and where it is
          arrivals,
          named,    \* history: how many of the rooms a user named so by hand
          settled,  \* history: messages a page showed to the user, or the
                    \* list or the bell marked, or that came late and mute
          overlap   \* history: two first visits looked for the room at once

vars == <<member, author, sent, notif, rooms, req, arrivals, named, settled, overlap>>

Memberships == [active : BOOLEAN, muted : BOOLEAN, read : 0..MaxMessages]
NewMember(active) == [active |-> active, muted |-> FALSE, read |-> 0]
NoMember == NewMember(FALSE)

RequestAt(kind, u, pc) ==
  [kind |-> kind, user |-> u, pc |-> pc, row |-> NoMember, now |-> 0, to |-> {}]
Idle == RequestAt("none", NoUser, "idle")

Places == {"idle", "access", "room", "make", "look", "save", "clear", "feed", "ensure",
           "stamp", "tell", "commit", "flag", "leave", "bell", "channel", "failed"}
ReqRows == [kind : Kinds \cup {"none"}, user : Users \cup {NoUser}, pc : Places,
            row : Memberships, now : 0..MaxMessages, to : SUBSET Users]

Now == Cardinality(DOMAIN author)

TypeOK ==
  /\ member \in [Users -> Memberships]
  /\ \E n \in 0..MaxMessages : author \in [1..n -> Users]
  /\ sent \subseteq DOMAIN author
  /\ notif \in [Users -> SUBSET sent]
  /\ rooms \in Nat /\ named \in Nat
  /\ req \in [Requests -> ReqRows]
  /\ arrivals \in Nat
  /\ settled \in [Users -> SUBSET sent]
  /\ overlap \in BOOLEAN

Init ==
  /\ member \in [Users -> {NoMember, NewMember(TRUE)}]
  /\ author = [m \in {} |-> NoUser]
  /\ sent = {}
  /\ notif = [u \in Users |-> {}]
  /\ rooms = 0 /\ named = 0
  /\ req = [r \in Requests |-> Idle]
  /\ arrivals = 0
  /\ settled = [u \in Users |-> {}]
  /\ overlap = FALSE

-----------------------------------------------------------------------------
U(r) == req[r].user

Goto(r, pc) == req' = [req EXCEPT ![r].pc = pc]
Done(r) == req' = [req EXCEPT ![r] = Idle]

(* The answer of most requests is the panel of the conversation.           *)
ToPanel(r) == req' = [req EXCEPT ![r] = RequestAt("panel", U(r), "access")]

FirstStep(kind) ==
  CASE kind \in {"context_post", "follow"} -> "ensure"
    [] kind = "list" -> "room"
    [] kind \in {"bell", "channel"} -> kind
    [] OTHER -> "access"

Arrive(r, u, kind) ==
  /\ arrivals < MaxArrivals
  /\ arrivals' = arrivals + 1
  /\ req[r] = Idle
  /\ req' = [req EXCEPT ![r] = RequestAt(kind, u, FirstStep(kind))]
  /\ UNCHANGED <<member, author, sent, notif, rooms, settled, overlap, named>>

(* can_access_conversation.                                                *)
Access(r) ==
  /\ req[r].pc = "access"
  /\ IF member[U(r)].active
     THEN Goto(r, CASE req[r].kind = "panel" -> "look"
                    [] req[r].kind = "unfollow" -> "leave"
                    [] OTHER -> "ensure")
     ELSE Done(r)
  /\ UNCHANGED <<member, author, sent, notif, rooms, settled, arrivals, overlap, named>>

-----------------------------------------------------------------------------
(* Mutant: a list looks for a room by another name than it makes it with.  *)
RoomLookElsewhere(r) ==
  /\ req[r].pc = "room"
  /\ Goto(r, IF rooms < 2 THEN "make" ELSE "failed")
  /\ overlap' = (overlap \/ (rooms = 0 /\ \E s \in Requests : req[s].pc = "make"))
  /\ UNCHANGED <<member, author, sent, notif, rooms, arrivals, settled, named>>

(* list_inbox_summaries begins with ensure_team_conversation: a            *)
(* get_or_create on a kind and a title that no constraint keeps unique, so *)
(* that get raises as soon as there are two.                               *)
RoomLook(r) ==
  /\ req[r].pc = "room"
  /\ Goto(r, CASE rooms = 0 -> "make" [] rooms = 1 -> "look" [] OTHER -> "failed")
  /\ overlap' = (overlap \/ (rooms = 0 /\ \E s \in Requests : req[s].pc = "make"))
  /\ UNCHANGED <<member, author, sent, notif, rooms, arrivals, settled, named>>

RoomMake(r) ==
  /\ req[r].pc = "make"
  /\ rooms' = rooms + 1
  /\ Goto(r, "look")
  /\ UNCHANGED <<member, author, sent, notif, settled, arrivals, overlap, named>>

(* team_channel_create posted with the very title of the room: in a        *)
(* transaction of its own a conversation of the team is created, by        *)
(* whatever title the user gave it.  A channel by another name is no room. *)
ChannelMake(r) ==
  /\ req[r].pc = "channel"
  /\ rooms' = rooms + 1
  /\ named' = named + 1
  /\ Done(r)
  /\ UNCHANGED <<member, author, sent, notif, settled, arrivals, overlap>>

(* The server error of a list.                                             *)
ListFails(r) ==
  /\ req[r].pc = "failed"
  /\ Done(r)
  /\ UNCHANGED <<member, author, sent, notif, rooms, settled, arrivals, overlap, named>>

-----------------------------------------------------------------------------
(* mark_conversation_as_read: the membership is loaded and the clock read, *)
(* ...  A list with no conversation selected marks nothing.                *)
MarkLook(r) ==
  /\ req[r].pc = "look"
  /\ \/ /\ member[U(r)].active
        /\ req' = [req EXCEPT ![r].row = member[U(r)], ![r].now = Now, ![r].pc = "save"]
     \/ /\ ~member[U(r)].active \/ req[r].kind = "list"
        /\ IF req[r].kind = "list" THEN Done(r) ELSE Goto(r, "feed")
  /\ UNCHANGED <<member, author, sent, notif, rooms, settled, arrivals, overlap, named>>

(* A list marks what it does not show.                                     *)
MarkBlindly(r) ==
  settled' = IF req[r].kind = "list"
             THEN [settled EXCEPT ![U(r)] = @ \cup sent] ELSE settled

(* Mutant: the membership is saved with all the fields it was loaded with. *)
MarkSaveRow(r) ==
  /\ req[r].pc = "save"
  /\ member' = [member EXCEPT ![U(r)] = [req[r].row EXCEPT !.read = req[r].now]]
  /\ MarkBlindly(r)
  /\ Goto(r, "clear")
  /\ UNCHANGED <<author, sent, notif, rooms, arrivals, overlap, named>>

(* ... then last_read_at alone is saved, whatever it has become since, ... *)
MarkSave(r) ==
  /\ req[r].pc = "save"
  /\ member' = [member EXCEPT ![U(r)].read = req[r].now]
  /\ MarkBlindly(r)
  /\ Goto(r, "clear")
  /\ UNCHANGED <<author, sent, notif, rooms, arrivals, overlap, named>>

(* ... and last the notifications there are by now.                        *)
MarkClear(r) ==
  /\ req[r].pc = "clear"
  /\ notif' = [notif EXCEPT ![U(r)] = {}]
  /\ MarkBlindly(r)
  /\ IF req[r].kind = "list" THEN Done(r) ELSE Goto(r, "feed")
  /\ UNCHANGED <<member, author, sent, rooms, arrivals, overlap, named>>

(* _render_conversation_panel reads the messages after the mark.           *)
Feed(r) ==
  /\ req[r].pc = "feed"
  /\ settled' = [settled EXCEPT ![U(r)] = @ \cup sent]
  /\ Done(r)
  /\ UNCHANGED <<member, author, sent, notif, rooms, arrivals, overlap, named>>

-----------------------------------------------------------------------------
(* _ensure_conversation_membership outside a transaction: following also   *)
(* clears the mute, setting a flag does not.                               *)
EnsureRow(u, follows) ==
  member' = [member EXCEPT ![u].active = TRUE,
               ![u].muted = IF follows THEN FALSE ELSE @]

Ensure(r) ==
  /\ req[r].pc = "ensure"
  /\ req[r].kind \in {"follow", "mute", "unmute"}
  /\ EnsureRow(U(r), req[r].kind = "follow")
  /\ IF req[r].kind = "follow" THEN ToPanel(r) ELSE Goto(r, "flag")
  /\ UNCHANGED <<author, sent, notif, rooms, settled, arrivals, overlap, named>>

(* set_conversation_muted, and likewise pinned and archived.               *)
SetFlag(r) ==
  /\ req[r].pc = "flag"
  /\ member' = [member EXCEPT ![U(r)].muted = (req[r].kind = "mute")]
  /\ ToPanel(r)
  /\ UNCHANGED <<author, sent, notif, rooms, settled, arrivals, overlap, named>>

Unfollow(r) ==
  /\ req[r].pc = "leave"
  /\ member' = [member EXCEPT ![U(r)].active = FALSE]
  /\ Done(r)
  /\ UNCHANGED <<author, sent, notif, rooms, settled, arrivals, overlap, named>>

(* notification_mark_read: the ones ticked, or all when none is.           *)
Bell(r) ==
  /\ req[r].pc = "bell"
  /\ \E ids \in SUBSET notif[U(r)] :
       /\ notif' = [notif EXCEPT ![U(r)] = @ \ ids]
       /\ settled' = [settled EXCEPT ![U(r)] = @ \cup ids]
  /\ Done(r)
  /\ UNCHANGED <<member, author, sent, rooms, arrivals, overlap, named>>

-----------------------------------------------------------------------------
(* post_message.  A record's or a deal's page posts without following; the *)
(* membership ensured in the transaction is seen by nobody before it ends. *)
PostBegin(r) ==
  /\ req[r].pc = "ensure"
  /\ req[r].kind \in {"post", "context_post"}
  /\ Goto(r, "stamp")
  /\ UNCHANGED <<member, author, sent, notif, rooms, settled, arrivals, overlap, named>>

(* Message.objects.create takes its created_at ...                         *)
PostStamp(r) ==
  /\ req[r].pc = "stamp"
  /\ Now < MaxMessages
  /\ author' = [m \in 1..(Now + 1) |-> IF m = Now + 1 THEN U(r) ELSE author[m]]
  /\ req' = [req EXCEPT ![r].now = Now + 1, ![r].pc = "tell"]
  /\ UNCHANGED <<member, sent, notif, rooms, settled, arrivals, overlap, named>>

(* ... the row of the conversation is saved, and held to the end of the    *)
(* transaction, and the recipients are read: the others who follow it and  *)
(* are not mute, or are mentioned.                                         *)
Recipients(r, mentioned) ==
  {u \in Users \ {U(r)} : member[u].active /\ (~member[u].muted \/ u \in mentioned)}

PostTell(r) ==
  /\ req[r].pc = "tell"
  /\ \A s \in Requests : req[s].pc # "commit"
  /\ \E mentioned \in SUBSET Users :
       req' = [req EXCEPT ![r].to = Recipients(r, mentioned), ![r].pc = "commit"]
  /\ UNCHANGED <<member, author, sent, notif, rooms, settled, arrivals, overlap, named>>

(* A read mark covers the message already, and the bell stays silent.      *)
LateAndMute(r) == {u \in Users \ req[r].to : u # U(r) /\ member[u].read >= req[r].now}

Notify(r, wanting) ==
  /\ notif' = [u \in Users |-> IF u \in req[r].to \cap wanting
                                THEN notif[u] \cup {req[r].now} ELSE notif[u]]
  /\ settled' = [u \in Users |-> IF u \in LateAndMute(r)
                                  THEN settled[u] \cup {req[r].now} ELSE settled[u]]

(* Mutants: nobody is notified of what a read mark covers; the membership  *)
(* is saved without is_active.                                             *)
PostCommitNewsOnly(r) ==
  /\ req[r].pc = "commit"
  /\ sent' = sent \cup {req[r].now}
  /\ member' = [member EXCEPT ![U(r)].active = TRUE, ![U(r)].read = req[r].now]
  /\ Notify(r, {u \in Users : member[u].read < req[r].now})
  /\ ToPanel(r)
  /\ UNCHANGED <<author, rooms, arrivals, overlap, named>>

PostCommitKeepsActive(r) ==
  /\ req[r].pc = "commit"
  /\ sent' = sent \cup {req[r].now}
  /\ member' = [member EXCEPT ![U(r)].read = req[r].now]
  /\ Notify(r, Users)
  /\ ToPanel(r)
  /\ UNCHANGED <<author, rooms, arrivals, overlap, named>>

(* ... and what the transaction wrote appears when it commits: the message,*)
(* the author's membership, active and read up to it, and a notification   *)
(* for each recipient.                                                     *)
PostCommit(r) ==
  /\ req[r].pc = "commit"
  /\ sent' = sent \cup {req[r].now}
  /\ member' = [member EXCEPT ![U(r)].active = TRUE, ![U(r)].read = req[r].now]
  /\ Notify(r, Users)
  /\ ToPanel(r)
  /\ UNCHANGED <<author, rooms, arrivals, overlap, named>>

(* The transaction is rolled back: its created_at is lost with it.         *)
PostFail(r) ==
  /\ req[r].pc \in {"stamp", "tell", "commit"}
  /\ Done(r)
  /\ UNCHANGED <<member, author, sent, notif, rooms, settled, arrivals, overlap, named>>

-----------------------------------------------------------------------------
Next ==
  \E r \in Requests :
    \/ \E u \in Users, kind \in Kinds : Arrive(r, u, kind)
    \/ Access(r) \/ RoomLook(r) \/ RoomMake(r) \/ ChannelMake(r) \/ ListFails(r)
    \/ MarkLook(r) \/ MarkSave(r) \/ MarkClear(r) \/ Feed(r)
    \/ Ensure(r) \/ SetFlag(r) \/ Unfollow(r) \/ Bell(r)
    \/ PostBegin(r) \/ PostStamp(r) \/ PostTell(r) \/ PostCommit(r) \/ PostFail(r)

Spec == Init /\ [][Next]_vars

-----------------------------------------------------------------------------
(* No message slips by a member: one that does not count as unread is in   *)
(* the bell, or a page of the user showed it, or is about to, or marked it *)
(* without showing it.  So a message whose transaction ends after a mark   *)
(* that already covers it is lost on a member who did not follow, or had   *)
(* muted, the conversation when the recipients were read, and on nobody    *)
(* else.                                                                   *)
Unread(u, m) == m > member[u].read

Showing(u) == \E r \in Requests :
  req[r].user = u /\ (req[r].kind = "panel" \/ req[r].pc = "flag")

NothingSlipsBy ==
  \A u \in Users : member[u].active =>
    \A m \in sent :
      \/ author[m] = u \/ Unread(u, m)
      \/ m \in notif[u] \/ m \in settled[u] \/ Showing(u)

(* A request is where its kind takes it, and a stamp is its author's.      *)
KindsAt(pc) ==
  CASE pc \in {"room", "make", "failed"} -> {"list"}
    [] pc \in {"look", "save", "clear"}  -> {"list", "panel"}
    [] pc = "feed"  -> {"panel"}
    [] pc = "leave" -> {"unfollow"}
    [] pc \in {"bell", "channel"} -> {pc}
    [] pc = "flag"  -> {"mute", "unmute"}
    [] pc \in {"stamp", "tell", "commit"} -> {"post", "context_post"}
    [] OTHER -> Kinds \cup {"none"}

InFlightAt(r) ==
  /\ req[r].kind \in KindsAt(req[r].pc)
  /\ req[r].pc # "idle" => req[r].user \in Users
  /\ req[r].pc \in {"tell", "commit"} =>
       req[r].now \in DOMAIN author /\ author[req[r].now] = req[r].user

InFlight == \A r \in Requests : InFlightAt(r)

(* Who is about to make the room found none, and nobody else does so: the  *)
(* rooms there are by then were named by hand.                             *)
MakersAreAlone ==
  ~overlap =>
    /\ rooms <= named + 1
    /\ \A r \in Requests : req[r].pc = "make" =>
         rooms <= named /\ \A s \in Requests \ {r} : req[s].pc # "make"

IInv == TypeOK /\ InFlight /\ NothingSlipsBy /\ MakersAreAlone

(* However the requests of a user overlap, following and muting change only*)
(* by one that is about them: reading undoes neither.                      *)
FlagsAreDeliberate ==
  [][\A u \in Users :
       <<member'[u].active, member'[u].muted>> # <<member[u].active, member[u].muted>>
         => \E r \in Requests : req[r].user = u
                               /\ req[r].pc \in {"ensure", "flag", "leave", "commit"}]_vars

(* Who posts follows, also when an unfollow of the same user came between  *)
(* the check and the end of the transaction.                               *)
AuthorFollows == [][\A m \in sent' \ sent : member'[author[m]].active]_vars

(* With two rooms of one title the inbox breaks for everybody.  Of those   *)
(* the code makes by itself there is a second one only after two first     *)
(* visits at the same time; any user adds one with a channel of that title.*)
SpareRoomsNeedOverlap == rooms > named + 1 => overlap
=============================================================================
