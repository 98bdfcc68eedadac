---------------------------- MODULE UserRoutesProofs ----------------------------
(***************************************************************************)
(* Theorems about UserRoutes for any number of requests, lists, revisions, *)
(* places and sessions.  The registry is proved to be a compare-and-       *)
(* advance register from the row lock; that one session is open at most    *)
(* from the order of locks and from the fact that no walk is reopened.     *)
(***************************************************************************)
EXTENDS UserRoutes, SequenceTheorems, WellFoundedInduction, TLAPS

-----------------------------------------------------------------------------
(* The inductive invariant. *)

(* A request that was let in holds the lock of an existing row, whose state *)
(* it presented.  (One lock: there is one such request at most.)            *)
LetInHoldsLock ==
    \A c \in Clients : doing[c] # "nothing" =>
        locker = c /\ current # None /\ shown[c] = current

(* The current state was issued and is the newest. *)
CurrentIsNewest ==
    current # None => current \in issued /\ \A s \in issued : s.rev <= current.rev

RegistryInv == RegistryTypeOK /\ LetInHoldsLock /\ CurrentIsNewest /\ OneStatePerRevision

(* What holds of the row of each session. *)
Consistent(s) ==
    /\ s.visited = {p \in Position : s.mark[p] = "visited"}
    /\ s.skipped = {p \in Position : s.mark[p] = "skipped"}
    /\ s.status \in ACTIVE_STATUSES =>
          OpenPositions(s) # {} /\ s.current \in Position /\ ~s.ended

WalksInv == SessionsTypeOK /\ \A i \in SessionId : Consistent(sessions[i])

(* The look for an open session holds until the insert. *)
NoneOpenWhileCreating == \A c \in Clients : doing[c] = "creating" => OpenSessions = {}

IInv == RegistryInv /\ WalksInv /\ OneOpenSession /\ NoneOpenWhileCreating

-----------------------------------------------------------------------------
(* The registry. *)

LEMMA RegistryInitInv == Init => RegistryInv
BY DEF Init, RegistryInit, RegistryInv, RegistryTypeOK, LetInHoldsLock, CurrentIsNewest, OneStatePerRevision

(* The end of a request frees the lock and touches no other request. *)
LEMMA Released ==
    ASSUME RegistryTypeOK, LetInHoldsLock, NEW c \in Clients, doing[c] # "nothing", Release(c)
    PROVE  /\ locker' = None
           /\ doing' \in [Clients -> {"nothing"}]
           /\ shown' \in [Clients -> State \union {None}]
<1>1. locker = c /\ locker' = None
    BY DEF Release, Unlock, LetInHoldsLock
<1>2. shown' \in [Clients -> State \union {None}]
    BY DEF Release, RegistryTypeOK
<1>3. \A d \in Clients \ {c} : doing[d] = "nothing"
    BY <1>1 DEF LetInHoldsLock
<1> QED BY <1>1, <1>2, <1>3 DEF Release, RegistryTypeOK

(* A request between its first and its last step. *)
LEMMA Proceeds ==
    ASSUME RegistryInv, NEW c \in Clients, doing[c] # "nothing",
           NEW next \in {"advancing", "creating"}, doing' = [doing EXCEPT ![c] = next],
           UNCHANGED <<current, expired, issued, locker, shown>>
    PROVE  RegistryInv'
BY DEF RegistryInv, RegistryTypeOK, LetInHoldsLock, CurrentIsNewest, OneStatePerRevision

LEMMA EndsWithoutEffect ==
    ASSUME RegistryInv, NEW c \in Clients, doing[c] # "nothing", Release(c),
           UNCHANGED <<current, expired, issued>>
    PROVE  RegistryInv'
<1>1. /\ locker' = None
      /\ doing' \in [Clients -> {"nothing"}]
      /\ shown' \in [Clients -> State \union {None}]
    BY Released DEF RegistryInv
<1> QED BY <1>1 DEF RegistryInv, RegistryTypeOK, LetInHoldsLock, CurrentIsNewest, OneStatePerRevision

LEMMA Advances ==
    ASSUME RegistryInv, NEW c \in Clients, NEW t \in State, Advance(c, t)
    PROVE  RegistryInv' /\ current = shown[c] /\ t.rev = current.rev + 1
<1>1. doing[c] # "nothing" BY DEF Advance
<1>2. /\ locker' = None
      /\ doing' \in [Clients -> {"nothing"}]
      /\ shown' \in [Clients -> State \union {None}]
    BY <1>1, Released DEF RegistryInv, Advance
<1>3. current = shown[c] /\ current \in State
    BY <1>1 DEF RegistryInv, LetInHoldsLock, RegistryTypeOK
<1>4. t.rev = current.rev + 1 /\ current.rev \in Nat
    BY <1>3 DEF Advance, NextStates, State
<1>5. \A s \in issued : s.rev \in Nat /\ s.rev <= current.rev
    BY <1>3, NoneAssumption DEF RegistryInv, CurrentIsNewest, RegistryTypeOK, State
<1>6. RegistryTypeOK' BY <1>2 DEF RegistryInv, RegistryTypeOK, Advance
<1>7. LetInHoldsLock' BY <1>2 DEF LetInHoldsLock
<1>8. CurrentIsNewest' BY <1>4, <1>5 DEF CurrentIsNewest, Advance
<1>9. OneStatePerRevision'
    BY <1>4, <1>5 DEF RegistryInv, OneStatePerRevision, Advance
<1> QED BY <1>3, <1>4, <1>6, <1>7, <1>8, <1>9 DEF RegistryInv

LEMMA RegistryNextInv == RegistryInv /\ RegistryNext => RegistryInv'
<1> SUFFICES ASSUME RegistryInv, RegistryNext PROVE RegistryInv' OBVIOUS
<1> USE DEF RegistryInv
<1>1. ASSUME NEW s \in State, Register(s) PROVE RegistryInv'
    <2>1. current = None
        BY <1>1 DEF Register, CurrentIsNewest
    <2>2. \A c \in Clients : doing[c] = "nothing"
        BY <2>1 DEF LetInHoldsLock
    <2>3. s.rev \in Nat BY DEF State
    <2> QED BY <1>1, <2>2, <2>3
            DEF Register, RegistryTypeOK, LetInHoldsLock, CurrentIsNewest, OneStatePerRevision
<1>2. ASSUME NEW c \in Clients, NEW s \in State,
             NEW want \in {"reading", "changing", "starting"}, Verify(c, s, want)
      PROVE  RegistryInv'
    <2>1. \A d \in Clients : doing[d] = "nothing"
        BY <1>2, NoneAssumption DEF Verify, LetInHoldsLock
    <2>2. current = s /\ current # None
        BY <1>2, NoneAssumption DEF Verify, Verified
    <2>3. RegistryTypeOK' BY <1>2 DEF Verify, RegistryTypeOK
    <2>4. LetInHoldsLock'
        BY <1>2, <2>1, <2>2 DEF Verify, LetInHoldsLock, RegistryTypeOK
    <2> QED BY <1>2, <2>3, <2>4 DEF Verify, CurrentIsNewest, OneStatePerRevision
<1>3. ASSUME NEW c \in Clients, Recheck(c) PROVE RegistryInv'
    BY <1>3, Proceeds DEF Recheck
<1>4. ASSUME NEW c \in Clients, RequestEnds(c) PROVE RegistryInv'
    BY <1>4, EndsWithoutEffect, Advances DEF RequestEnds, Abort
<1>5. CASE Expire
    BY <1>5 DEF Expire, RegistryTypeOK, LetInHoldsLock, CurrentIsNewest, OneStatePerRevision
<1>6. CASE Cleanup
    <2>1. \A c \in Clients : doing[c] = "nothing"
        BY <1>6, NoneAssumption DEF Cleanup, Removable, LetInHoldsLock
    <2> QED BY <1>6, <2>1
            DEF Cleanup, RegistryTypeOK, LetInHoldsLock, CurrentIsNewest, OneStatePerRevision
<1> QED BY <1>1, <1>2, <1>3, <1>4, <1>5, <1>6 DEF RegistryNext

-----------------------------------------------------------------------------
(* The rows of the sessions. *)

LEMMA LeastMember ==
    ASSUME NEW S \in SUBSET Nat, S # {}
    PROVE  Least(S) \in S
<1> DEFINE Before == {e \in Nat \X Nat : e[1] < e[2]}
<1>1. IsWellFoundedOn(Before, Nat)
    BY NatLessThanWellFounded DEF OpToRel
<1>2. PICK p \in S : \A q \in S : <<q, p>> \notin Before
    <2> HIDE DEF Before
    <2> QED BY <1>1, WFMin
<1>3. ASSUME NEW q \in S PROVE p <= q
    <2>1. ~(q < p) BY <1>2
    <2> QED BY <2>1
<1> QED BY <1>3 DEF Least

LEMMA NewSessionType ==
    ASSUME NEW list \in Lists
    PROVE  NewSession(list) \in Session /\ Consistent(NewSession(list))
<1>1. 0 \in Position /\ 0 \in 0..PointCount BY PointsAssumption DEF Position
<1> QED BY <1>1 DEF NewSession, Session, Consistent, OpenPositions, ACTIVE_STATUSES

LEMMA MarkedType ==
    ASSUME NEW s \in Session, NEW p \in Position, NEW how \in {"visited", "skipped"}, Consistent(s)
    PROVE  LET m == Marked(s, p, how)
           IN  /\ m \in Session
               /\ m.status = s.status /\ m.ended = s.ended /\ m.current = s.current
               /\ m.visited = {q \in Position : m.mark[q] = "visited"}
               /\ m.skipped = {q \in Position : m.mark[q] = "skipped"}
<1> DEFINE k == [s.mark EXCEPT ![p] = how]
           v == IF how = "visited" THEN s.visited \union {p} ELSE s.visited \ {p}
           x == IF how = "skipped" THEN s.skipped \union {p} ELSE s.skipped \ {p}
<1>1. k \in [Position -> {"open", "visited", "skipped"}]
    BY DEF Session
<1>2. v \in SUBSET Position /\ x \in SUBSET Position
    BY DEF Session
<1>3. v = {q \in Position : k[q] = "visited"} /\ x = {q \in Position : k[q] = "skipped"}
    BY DEF Session, Consistent
<1>4. Marked(s, p, how) = [s EXCEPT !.mark = k, !.visited = v, !.skipped = x]
    BY DEF Marked, Session
<1> HIDE DEF k, v, x
<1>5. Marked(s, p, how) \in Session
    BY <1>1, <1>2, <1>4 DEF Session
<1>6. LET m == Marked(s, p, how)
      IN  /\ m.status = s.status /\ m.ended = s.ended /\ m.current = s.current
          /\ m.mark = k /\ m.visited = v /\ m.skipped = x
    BY <1>4 DEF Session
<1> QED BY <1>3, <1>5, <1>6

(* Neither way of going on after a point disagrees with the other. *)
LEMMA WentOn ==
    ASSUME NEW s \in Session, NEW p \in Position, NEW how \in {"visited", "skipped"},
           Consistent(s), s.status \in ACTIVE_STATUSES
    PROVE  /\ Advanced(Marked(s, p, how)) \in Session /\ Consistent(Advanced(Marked(s, p, how)))
           /\ CheckedIn(s, p, how) \in Session /\ Consistent(CheckedIn(s, p, how))
<1> DEFINE m == Marked(s, p, how)
           rest == Position \ (m.visited \union m.skipped)
<1>1. /\ m \in Session
      /\ m.status = s.status /\ m.ended = s.ended /\ m.current = s.current
      /\ m.visited = {q \in Position : m.mark[q] = "visited"}
      /\ m.skipped = {q \in Position : m.mark[q] = "skipped"}
    BY MarkedType
<1>2. ~m.ended BY <1>1 DEF Consistent
<1> HIDE DEF m
<1>3. rest = OpenPositions(m) BY <1>1 DEF OpenPositions, Session
<1>4. rest # {} => Least(rest) \in rest
    <2>1. rest \in SUBSET Nat BY PointsAssumption DEF Position
    <2> QED BY <2>1, LeastMember
<1>5. rest # {} => Least(rest) \in Position /\ Least(rest) \in 0..PointCount
    BY <1>4, PointsAssumption DEF Position
<1>6. PointCount \in 0..PointCount BY PointsAssumption
<1>7. m.status \in ACTIVE_STATUSES BY <1>1
<1>8. ASSUME rest # {}, NEW t, NEW v \in ACTIVE_STATUSES,
             t = [m EXCEPT !.current = Least(rest), !.status = v]
      PROVE  t \in Session /\ Consistent(t)
    <2>1. t \in Session BY <1>1, <1>5, <1>8 DEF Session
    <2>2. /\ t.mark = m.mark /\ t.visited = m.visited /\ t.skipped = m.skipped
          /\ ~t.ended /\ t.current \in Position
        BY <1>1, <1>2, <1>5, <1>8 DEF Session
    <2>3. OpenPositions(t) # {} BY <1>3, <1>8, <2>2 DEF OpenPositions
    <2>4. /\ t.visited = {q \in Position : t.mark[q] = "visited"}
          /\ t.skipped = {q \in Position : t.mark[q] = "skipped"}
        BY <1>1, <2>2
    <2> HIDE DEF rest
    <2> QED BY <2>1, <2>2, <2>3, <2>4 DEF Consistent
<1>9. ASSUME NEW t, NEW x \in 0..PointCount,
             t = [m EXCEPT !.current = x, !.status = "completed", !.ended = TRUE]
      PROVE  t \in Session /\ Consistent(t)
    <2>1. t \in Session BY <1>1, <1>9 DEF Session, TERMINAL_STATUSES
    <2>2. /\ t.mark = m.mark /\ t.visited = m.visited /\ t.skipped = m.skipped
          /\ t.status = "completed"
        BY <1>1, <1>9 DEF Session
    <2>3. "completed" \notin ACTIVE_STATUSES BY DEF ACTIVE_STATUSES
    <2> QED BY <1>1, <2>1, <2>2, <2>3 DEF Consistent
<1>10. Advanced(m) \in Session /\ Consistent(Advanced(m))
    <2> DEFINE t == Advanced(m)
    <2>1. CASE rest = {}
        <3>1. m.current \in 0..PointCount BY <1>1 DEF Session
        <3>2. t = [m EXCEPT !.current = m.current, !.status = "completed", !.ended = TRUE]
            BY <1>1, <1>3, <2>1 DEF Advanced, Session
        <3> QED BY <1>9, <3>1, <3>2
    <2>2. CASE rest # {}
        <3>1. t = [m EXCEPT !.current = Least(rest), !.status = m.status]
            BY <1>1, <1>3, <2>2 DEF Advanced, Session
        <3> QED BY <1>7, <1>8, <2>2, <3>1
    <2> QED BY <2>1, <2>2
<1>11. CheckedIn(s, p, how) \in Session /\ Consistent(CheckedIn(s, p, how))
    <2> DEFINE t == CheckedIn(s, p, how)
    <2>1. CASE rest = {}
        <3>1. t = [m EXCEPT !.current = PointCount, !.status = "completed", !.ended = TRUE]
            BY <2>1 DEF CheckedIn, m
        <3> QED BY <1>6, <1>9, <3>1
    <2>2. CASE rest # {}
        <3>1. t = [m EXCEPT !.current = Least(rest), !.status = "active"]
            BY <2>2 DEF CheckedIn, m
        <3> QED BY <1>8, <2>2, <3>1 DEF ACTIVE_STATUSES
    <2> QED BY <2>1, <2>2
<1> QED BY <1>10, <1>11 DEF m

(* Every request on a session writes a consistent row, and leaves an ended  *)
(* walk ended as it was.                                                    *)
LEMMA SessionStepWrites ==
    ASSUME WalksInv, NEW i \in SessionId, SessionStep(i)
    PROVE  \E s \in Session :
             /\ Set(i, s) /\ Consistent(s)
             /\ sessions[i].status \in TERMINAL_STATUSES => s.status = sessions[i].status
<1> DEFINE row == sessions[i]
<1> USE DEF ACTIVE_STATUSES, TERMINAL_STATUSES
<1>0. row \in Session /\ Consistent(row)
    BY DEF WalksInv, SessionsTypeOK, SessionId
<1>1. PointCount \in 0..PointCount BY PointsAssumption
<1>2. CASE \/ Pause(i) \/ Resume(i) \/ FinishSession(i) \/ CompleteSession(i)
    <2> DEFINE paused == [row EXCEPT !.status = "paused"]
               active == [row EXCEPT !.status = "active"]
               finished == [row EXCEPT !.status = "completed", !.ended = TRUE]
               completed == [row EXCEPT !.status = "completed", !.current = PointCount, !.ended = TRUE]
    <2>1. /\ paused \in Session /\ active \in Session
          /\ finished \in Session /\ completed \in Session
        BY <1>0, <1>1 DEF Session
    <2>2. /\ Consistent(finished) /\ Consistent(completed)
          /\ row.status \in ACTIVE_STATUSES => Consistent(paused) /\ Consistent(active)
        BY <1>0 DEF Consistent, Session, OpenPositions
    <2> QED BY <1>2, <2>1, <2>2, <1>0
            DEF Pause, Resume, FinishSession, CompleteSession, IsOpen, Session
<1>3. CASE Abandon(i)
    <2> DEFINE abandoned == [row EXCEPT !.status = "abandoned", !.ended = TRUE]
    <2>1. abandoned \in Session /\ Consistent(abandoned)
        BY <1>0 DEF Session, Consistent
    <2> QED BY <1>0, <1>3, <2>1 DEF Abandon
<1>4. ASSUME NEW status \in {"active", "paused", "abandoned"},
             NEW p \in Position \union {row.current}, UpdateSession(i, status, p)
      PROVE  \E s \in Session :
               /\ Set(i, s) /\ Consistent(s)
               /\ row.status \in TERMINAL_STATUSES => s.status = row.status
    <2> DEFINE new == [row EXCEPT !.status = status, !.current = p,
                                  !.ended = IF status = "abandoned" THEN FALSE ELSE @]
    <2>1. row.status \in ACTIVE_STATUSES BY <1>4 DEF UpdateSession, Editable, IsOpen
    <2>2. p \in Position BY <1>0, <2>1 DEF Consistent
    <2>3. p \in 0..PointCount BY <2>2, PointsAssumption DEF Position
    <2>4. new \in Session /\ Consistent(new)
        BY <1>0, <2>1, <2>2, <2>3 DEF Session, Consistent, OpenPositions
    <2> QED BY <1>4, <2>1, <2>4 DEF UpdateSession
<1>5. ASSUME NEW p \in Position, NEW how \in {"visited", "skipped"},
             ClosePoint(i, p, how) \/ CheckIn(i, p, how)
      PROVE  \E s \in Session :
               /\ Set(i, s) /\ Consistent(s)
               /\ row.status \in TERMINAL_STATUSES => s.status = row.status
    <2>1. row.status \in ACTIVE_STATUSES BY <1>5 DEF ClosePoint, CheckIn, Editable, IsOpen
    <2> QED BY <1>0, <1>5, <2>1, WentOn DEF ClosePoint, CheckIn
<1> QED BY <1>2, <1>3, <1>4, <1>5 DEF SessionStep

(* What becomes of the rows. *)
LEMMA SetKeeps ==
    ASSUME WalksInv, NEW i \in SessionId, NEW s \in Session, Consistent(s), Set(i, s)
    PROVE  /\ WalksInv' /\ SessionId' = SessionId /\ Len(sessions') = Len(sessions)
           /\ sessions'[i] = s /\ \A j \in SessionId \ {i} : sessions'[j] = sessions[j]
<1>1. sessions \in Seq(Session) /\ SessionId = 1..Len(sessions)
    BY DEF WalksInv, SessionsTypeOK, SessionId
<1>2. /\ sessions' \in Seq(Session) /\ Len(sessions') = Len(sessions)
      /\ \A j \in SessionId : sessions'[j] = IF j = i THEN s ELSE sessions[j]
    BY <1>1, ExceptSeq DEF Set
<1>3. SessionId' = SessionId BY <1>1, <1>2 DEF SessionId
<1> QED BY <1>2, <1>3 DEF WalksInv, SessionsTypeOK

LEMMA InsertKeeps ==
    ASSUME WalksInv, NEW list \in Lists, Insert(list)
    PROVE  /\ WalksInv' /\ Len(sessions') = Len(sessions) + 1
           /\ SessionId' = SessionId \union {Len(sessions')}
           /\ sessions'[Len(sessions')] = NewSession(list)
           /\ \A j \in SessionId : sessions'[j] = sessions[j]
<1> DEFINE new == NewSession(list)
<1>1. sessions \in Seq(Session) /\ SessionId = 1..Len(sessions) /\ Len(sessions) \in Nat
    BY DEF WalksInv, SessionsTypeOK, SessionId
<1>2. new \in Session /\ Consistent(new) BY NewSessionType
<1> HIDE DEF new
<1>3. sessions' = Append(sessions, new) /\ Len(sessions) < MaxSessions BY DEF Insert, new
<1>4. /\ sessions' \in Seq(Session) /\ Len(sessions') = Len(sessions) + 1
      /\ \A j \in 1..Len(sessions) : sessions'[j] = sessions[j]
      /\ sessions'[Len(sessions) + 1] = new
    BY <1>1, <1>2, <1>3, AppendProperties
<1>5. SessionId' = 1..Len(sessions') BY <1>4 DEF SessionId
<1>6. SessionId' = SessionId \union {Len(sessions')} BY <1>1, <1>4, <1>5
<1>7. SessionsTypeOK' BY <1>1, <1>3, <1>4, PointsAssumption DEF SessionsTypeOK
<1>8. \A j \in SessionId' : Consistent(sessions'[j])
    BY <1>1, <1>2, <1>4, <1>6 DEF WalksInv
<1> QED BY <1>1, <1>4, <1>6, <1>7, <1>8 DEF WalksInv, new

LEMMA SessionStepInv ==
    ASSUME WalksInv, NEW i \in SessionId, SessionStep(i)
    PROVE  /\ WalksInv' /\ Len(sessions') = Len(sessions)
           /\ OpenSessions' \subseteq OpenSessions
           /\ \A j \in SessionId : sessions[j].status \in TERMINAL_STATUSES
                                    => sessions'[j].status = sessions[j].status
<1>1. PICK s \in Session :
             /\ Set(i, s) /\ Consistent(s)
             /\ sessions[i].status \in TERMINAL_STATUSES => s.status = sessions[i].status
    BY SessionStepWrites
<1>2. /\ WalksInv' /\ SessionId' = SessionId /\ Len(sessions') = Len(sessions)
      /\ sessions'[i] = s /\ \A j \in SessionId \ {i} : sessions'[j] = sessions[j]
    BY <1>1, SetKeeps
<1>3. \A j \in SessionId : sessions[j].status \in TERMINAL_STATUSES
                           => sessions'[j].status = sessions[j].status
    BY <1>1, <1>2
<1>4. \A j \in SessionId : sessions[j].status \in ACTIVE_STATUSES \union TERMINAL_STATUSES
    <2>1. \A j \in SessionId : sessions[j] \in Session
        BY DEF WalksInv, SessionsTypeOK, SessionId
    <2> QED BY <2>1 DEF Session
<1>5. OpenSessions' \subseteq OpenSessions
    BY <1>2, <1>3, <1>4 DEF OpenSessions, IsOpen, ACTIVE_STATUSES, TERMINAL_STATUSES
<1> QED BY <1>2, <1>3, <1>5

-----------------------------------------------------------------------------
(* The two together. *)

LEMMA InitIInv == Init => IInv
<1> SUFFICES ASSUME Init PROVE IInv OBVIOUS
<1>1. SessionId = {} /\ sessions \in Seq(Session) /\ Len(sessions) = 0
    BY DEF Init, SessionsInit, SessionId
<1>2. WalksInv BY <1>1, PointsAssumption DEF WalksInv, SessionsTypeOK
<1>3. OpenSessions = {} BY <1>1 DEF OpenSessions
<1> QED BY <1>2, <1>3, RegistryInitInv DEF IInv, OneOpenSession, NoneOpenWhileCreating

(* A step of the registry begins no creation. *)
LEMMA NoNewCreation ==
    ASSUME RegistryInv, RegistryNext, NEW c \in Clients, doing'[c] = "creating"
    PROVE  doing[c] = "creating"
<1>1. doing \in [Clients -> {"nothing", "reading", "changing", "advancing", "starting", "creating"}]
    BY DEF RegistryInv, RegistryTypeOK
<1>2. ASSUME NEW d \in Clients, NEW to \in {"nothing", "reading", "changing", "starting", "advancing"},
             doing' = [doing EXCEPT ![d] = to]
      PROVE  doing[c] = "creating"
    BY <1>1, <1>2
<1>3. ASSUME NEW d \in Clients,
             \/ \E s \in State, want \in {"reading", "changing", "starting"} : Verify(d, s, want)
             \/ Recheck(d) \/ RequestEnds(d)
      PROVE  doing[c] = "creating"
    BY <1>2, <1>3 DEF Verify, Recheck, RequestEnds, Abort, Advance, Release
<1> QED BY <1>3 DEF RegistryNext, Register, Expire, Cleanup

LEMMA CreateInv ==
    ASSUME IInv, NEW c \in Clients, Create(c)
    PROVE  /\ IInv' /\ current \in State
           /\ sessions'[Len(sessions')] = NewSession(current.plan)
           /\ \A j \in SessionId : sessions'[j] = sessions[j]
<1>1. doing[c] = "creating" /\ Release(c) /\ UNCHANGED <<current, expired, issued>>
    BY DEF Create
<1>2. RegistryInv' BY <1>1, EndsWithoutEffect DEF IInv
<1>3. current \in State /\ shown[c] = current /\ current.plan \in Lists
    BY <1>1, OneKindOfList DEF IInv, RegistryInv, RegistryTypeOK, LetInHoldsLock, State
<1>4. /\ WalksInv' /\ Len(sessions') = Len(sessions) + 1
      /\ SessionId' = SessionId \union {Len(sessions')}
      /\ sessions'[Len(sessions')] = NewSession(current.plan)
      /\ \A j \in SessionId : sessions'[j] = sessions[j]
    BY <1>3, InsertKeeps DEF Create, IInv
<1>5. OpenSessions = {} BY <1>1 DEF IInv, NoneOpenWhileCreating
<1>6. OneOpenSession'
    BY <1>4, <1>5 DEF OneOpenSession, OpenSessions, IsOpen
<1>7. \A d \in Clients : doing'[d] # "creating"
    BY <1>1, Released DEF IInv, RegistryInv
<1> QED BY <1>2, <1>3, <1>4, <1>6, <1>7 DEF IInv, NoneOpenWhileCreating

LEMMA NextIInv == IInv /\ [Next]_vars => IInv'
<1> SUFFICES ASSUME IInv, [Next]_vars PROVE IInv' OBVIOUS
<1>1. CASE RegistryNext /\ UNCHANGED sessions
    <2>1. RegistryInv' BY <1>1, RegistryNextInv DEF IInv
    <2>2. WalksInv' /\ OpenSessions' = OpenSessions
        BY <1>1 DEF IInv, WalksInv, SessionsTypeOK, SessionId, OpenSessions, IsOpen
    <2>3. NoneOpenWhileCreating'
        BY <1>1, <2>2, NoNewCreation DEF IInv, NoneOpenWhileCreating
    <2> QED BY <2>1, <2>2, <2>3 DEF IInv, OneOpenSession
<1>2. ASSUME NEW c \in Clients, LookUp(c) PROVE IInv'
    <2>1. RegistryInv' BY <1>2, Proceeds DEF LookUp, IInv
    <2>2. WalksInv' /\ OpenSessions' = OpenSessions
        BY <1>2 DEF LookUp, IInv, WalksInv, SessionsTypeOK, SessionId, OpenSessions, IsOpen
    <2>3. OpenSessions = {} BY <1>2 DEF LookUp, SessionsToReclaim
    <2> QED BY <2>1, <2>2, <2>3 DEF IInv, OneOpenSession, NoneOpenWhileCreating
<1>3. ASSUME NEW c \in Clients, Create(c) PROVE IInv'
    BY <1>3, CreateInv
<1>4. ASSUME NEW i \in SessionId, SessionStep(i), UNCHANGED registryVars PROVE IInv'
    <2>1. RegistryInv'
        BY <1>4 DEF IInv, RegistryInv, RegistryTypeOK, LetInHoldsLock, CurrentIsNewest,
                    OneStatePerRevision, registryVars
    <2>2. WalksInv' /\ OpenSessions' \subseteq OpenSessions
        BY <1>4, SessionStepInv DEF IInv
    <2> QED BY <1>4, <2>1, <2>2 DEF IInv, OneOpenSession, NoneOpenWhileCreating, registryVars
<1>5. CASE UNCHANGED vars
    BY <1>5 DEF vars, registryVars, IInv, RegistryInv, RegistryTypeOK, LetInHoldsLock, CurrentIsNewest,
                OneStatePerRevision, WalksInv, SessionsTypeOK, SessionId, OneOpenSession, OpenSessions,
                IsOpen, NoneOpenWhileCreating
<1> QED BY <1>1, <1>2, <1>3, <1>4, <1>5 DEF Next, StartSession

LEMMA Invariance == Spec => []IInv
BY InitIInv, NextIInv, PTL DEF Spec

-----------------------------------------------------------------------------
(* Registry and sessions keep their types. *)
THEOREM TypeCorrect == Spec => []UserRoutesTypeOK
<1>1. IInv => UserRoutesTypeOK
    BY DEF IInv, RegistryInv, WalksInv, UserRoutesTypeOK
<1> QED BY <1>1, Invariance, PTL

(* However many requests present the same state, a revision is issued once. *)
THEOREM RouteNeverForks == Spec => []OneStatePerRevision
<1>1. IInv => OneStatePerRevision BY DEF IInv, RegistryInv
<1> QED BY <1>1, Invariance, PTL

(* A request that was let in works on the current state until it ends. *)
THEOREM LetInSeesCurrent == Spec => []RequestsSeeCurrent
<1>1. IInv => RequestsSeeCurrent
    BY DEF IInv, RegistryInv, LetInHoldsLock, RequestsSeeCurrent
<1> QED BY <1>1, Invariance, PTL

(* The two services keep the two records of progress in step. *)
THEOREM ProgressAgrees == Spec => []IndexesMatchPoints
<1>1. IInv => IndexesMatchPoints
    BY DEF IInv, WalksInv, Consistent, IndexesMatchPoints
<1> QED BY <1>1, Invariance, PTL

(* A walk that goes on has somewhere to go. *)
THEOREM OpenWalksGoOn == Spec => []OpenWalksHaveWork
<1>1. IInv => OpenWalksHaveWork
    BY DEF IInv, WalksInv, Consistent, OpenWalksHaveWork, IsOpen
<1> QED BY <1>1, Invariance, PTL

(* A route has one open session at most. *)
THEOREM OneSessionAtATime == Spec => []OneOpenSession
<1>1. IInv => OneOpenSession BY DEF IInv
<1> QED BY <1>1, Invariance, PTL

(* Neither service reopens an ended walk. *)
THEOREM EndIsFinal == Spec => EndedWalksStayEnded
<1> DEFINE Step == \A i \in SessionId :
             sessions[i].status \in TERMINAL_STATUSES => sessions'[i].status = sessions[i].status
<1>1. IInv /\ [Next]_vars => [Step]_sessions
    <2> SUFFICES ASSUME IInv, [Next]_vars, sessions' # sessions PROVE Step
        OBVIOUS
    <2>1. ASSUME NEW c \in Clients, Create(c) PROVE Step
        BY <2>1, CreateInv
    <2>2. ASSUME NEW i \in SessionId, SessionStep(i) PROVE Step
        BY <2>2, SessionStepInv DEF IInv
    <2> QED BY <2>1, <2>2 DEF Next, StartSession, LookUp, vars
<1> QED BY <1>1, Invariance, PTL DEF Spec, EndedWalksStayEnded

(* A session walks the places of the state that was current at its start. *)
THEOREM StartsFromCurrent == Spec => SessionsAreFromCurrent
<1> DEFINE Step == Len(sessions') > Len(sessions) =>
                     current # None /\ sessions'[Len(sessions')].list = current.plan
<1>1. IInv /\ [Next]_vars => [Step]_vars
    <2> SUFFICES ASSUME IInv, Next, Len(sessions') > Len(sessions)
                 PROVE  current # None /\ sessions'[Len(sessions')].list = current.plan
        OBVIOUS
    <2>1. ASSUME NEW c \in Clients, Create(c)
          PROVE  current # None /\ sessions'[Len(sessions')].list = current.plan
        BY <2>1, CreateInv, NoneAssumption DEF NewSession
    <2>2. Len(sessions) \in Nat BY DEF IInv, WalksInv, SessionsTypeOK
    <2>3. ~(Len(sessions') = Len(sessions)) BY <2>2
    <2>4. ASSUME NEW i \in SessionId, SessionStep(i) PROVE FALSE
        BY <2>3, <2>4, SessionStepInv DEF IInv
    <2> QED BY <2>1, <2>3, <2>4 DEF Next, StartSession, LookUp
<1> QED BY <1>1, Invariance, PTL DEF Spec, SessionsAreFromCurrent

(* The registry implements the compare-and-advance register. *)
THEOREM RegistryIsChain == Spec => ImplementsChain
<1>1. Init => Chain!Init
    BY DEF Init, RegistryInit, Chain!Init
<1>2. IInv /\ [Next]_vars => [Chain!Next]_<<current, issued>>
    <2> SUFFICES ASSUME IInv, [Next]_vars, ~(UNCHANGED <<current, issued>>) PROVE Chain!Next
        OBVIOUS
    <2>1. ASSUME NEW s \in State, Register(s) PROVE Chain!Next
        BY <2>1 DEF Register, Chain!Next, Chain!Issue
    <2>2. ASSUME NEW c \in Clients, NEW t \in State, Advance(c, t) PROVE Chain!Next
        <3>1. doing[c] # "nothing" BY <2>2 DEF Advance
        <3>2. current \in State
            BY <3>1 DEF IInv, RegistryInv, LetInHoldsLock, RegistryTypeOK
        <3>3. t.rev = current.rev + 1 BY <2>2, Advances DEF IInv
        <3> QED BY <2>2, <3>2, <3>3 DEF Advance, Chain!Next, Chain!Advance
    <2>3. CASE Cleanup
        BY <2>3 DEF Cleanup, Removable, Chain!Next, Chain!Retire
    <2> QED BY <2>1, <2>2, <2>3
            DEF Next, RegistryNext, Verify, Recheck, RequestEnds, Abort, Expire,
                StartSession, LookUp, Create, vars, registryVars
<1> QED BY <1>1, <1>2, Invariance, PTL DEF Spec, ImplementsChain, Chain!Spec
=============================================================================
