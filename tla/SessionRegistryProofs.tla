----------------------- MODULE SessionRegistryProofs -----------------------
(***************************************************************************)
(* Proofs about GLOBAL's session records (SessionRegistry), for every set  *)
(* of shards and provers, every epoch length, fence delay, drain limit and *)
(* budget, and whatever the committees certify.                            *)
(*                                                                         *)
(* The invariant ties three records together.  A session that is not       *)
(* active is a source of the request it names; a request that has not      *)
(* activated reserves each of its targets, and finds there the session     *)
(* it was made for; and a session that ended has executed exactly the      *)
(* frames up to its end.                                                   *)
(***************************************************************************)
EXTENDS SessionRegistry, SequenceTheorems, TLAPS

----------------------------------------------------------------------------
(* The inductive invariant.  Its parts take the records as arguments, for  *)
(* the states a single frame passes through.                               *)

Ends == Checkpoints \cup {NoCheckpoint}

Statuses == {"active", "sealing", "closed"}

SessionRecords ==
  [base : 0..MaxFrame, members : SUBSET Provers, request : Nat,
   status : Statuses, tip : Ends, seal : Ends, fence : Ends]

RequestRecords ==
  [sources : SUBSET (Filters \X Nat), vacant : SUBSET Filters,
   targets : UNION {[T -> SUBSET Provers] : T \in SUBSET Filters},
   generations : UNION {[T -> Nat] : T \in SUBSET Filters},
   age : Nat, activated : BOOLEAN]

\* A session by itself: it ends at most once, at the last frame executed.
Settled(x) ==
  /\ x \in SessionRecords
  /\ x.status = "active" => x.request = 0 /\ EndOf(x) = NoCheckpoint
  /\ x.status = "closed" => EndOf(x) # NoCheckpoint
  /\ EndOf(x) # NoCheckpoint => EndOf(x) = Executed(x)
  /\ NoCheckpoint \in {x.seal, x.fence}

\* A session among those of its shard, and the request it is closing for.
Placed(ses, reqs, f, g) ==
  /\ Settled(ses[f][g])
  /\ ses[f][g].status # "active" =>
       /\ ses[f][g].request \in DOMAIN reqs
       /\ <<f, g>> \in reqs[ses[f][g].request].sources
  /\ g < Len(ses[f]) => ses[f][g].status = "closed"
  /\ g > 1 => ses[f][g].base = Executed(ses[f][g - 1]).frame

\* A request and its sources.
Asks(ses, reqs, i) ==
  \A f \in Filters, g \in Nat :
    <<f, g>> \in reqs[i].sources =>
      /\ g \in DOMAIN ses[f]
      /\ ses[f][g].request = i
      /\ ses[f][g].status = (IF reqs[i].activated THEN "closed" ELSE "sealing")

\* An open request and its targets.
Reserves(ses, reqs, res, i) ==
  ~reqs[i].activated =>
    \A f \in DOMAIN reqs[i].targets :
      /\ res[f] = i
      /\ reqs[i].generations[f] = Len(ses[f]) + 1
      /\ ses[f] # <<>> =>
           \/ <<f, Len(ses[f])>> \in reqs[i].sources
           \/ ses[f][Len(ses[f])].status = "closed"

Registry(ses, reqs, res) ==
  /\ ses \in [Filters -> Seq(SessionRecords)]
  /\ reqs \in Seq(RequestRecords)
  /\ res \in [Filters -> 0..Len(reqs)]
  /\ \A f \in Filters : \A g \in DOMAIN ses[f] : Placed(ses, reqs, f, g)
  /\ \A i \in DOMAIN reqs : Asks(ses, reqs, i) /\ Reserves(ses, reqs, res, i)

Changes(n) == [number : Nat, kind : Kinds, wait : 0..2, request : 0..n]

Surroundings ==
  /\ grid \subseteq Filters
  /\ pending \subseteq Changes(Len(requests))
  /\ alloc \in [Filters -> [Provers -> Stages]]
  /\ unseated \in [Filters -> SUBSET Provers]
  /\ phase \in 0..EpochFrames - 1
  /\ proposed \in Nat

IInv == Registry(session, requests, reserved) /\ Surroundings

----------------------------------------------------------------------------
(* One session                                                             *)

\* A checkpoint is an end a session can have.
LEMMA CheckpointType ==
  ASSUME NEW cp \in Checkpoints
  PROVE  cp # NoCheckpoint /\ cp.frame \in 0..MaxFrame /\ cp \in Ends
  BY NoCheckpointAssumption DEF Checkpoints, Ends

\* So is the base of a session.
LEMMA BaseType ==
  ASSUME NEW x \in SessionRecords
  PROVE  BaseOf(x) \in Checkpoints /\ BaseOf(x).frame = x.base /\ BaseOf(x).digest = Genesis
  BY DEF SessionRecords, BaseOf, Checkpoints

\* Executed frames and ends are checkpoints.
LEMMA SessionParts ==
  ASSUME NEW x \in SessionRecords
  PROVE  /\ Executed(x) \in Checkpoints
         /\ x.tip # NoCheckpoint => x.tip \in Checkpoints
         /\ EndOf(x) # NoCheckpoint => EndOf(x) \in Checkpoints
         /\ EndOf(x) = NoCheckpoint <=> x.seal = NoCheckpoint /\ x.fence = NoCheckpoint
         /\ x.base \in 0..MaxFrame
  BY BaseType, NoCheckpointAssumption DEF SessionRecords, Executed, EndOf, Ends

\* A frame within the session's end never moves the tip of an ended session.
LEMMA TipHolds ==
  ASSUME NEW x, Settled(x), NEW cp \in Checkpoints, cp.frame > x.base, within_terminal(x, cp)
  PROVE  /\ Settled(record_session_tip(x, cp))
         /\ record_session_tip(x, cp).status = x.status
         /\ record_session_tip(x, cp).request = x.request
         /\ record_session_tip(x, cp).base = x.base
         /\ EndOf(x) # NoCheckpoint => record_session_tip(x, cp) = x
  <1> DEFINE y == record_session_tip(x, cp)
  <1>1. x \in SessionRecords /\ cp # NoCheckpoint /\ cp.frame \in Nat /\ cp \in Ends
    BY CheckpointType, FrameAssumption DEF Settled
  <1>2. CASE x.tip # NoCheckpoint /\ x.tip.frame >= cp.frame
    <2>1. y = x
      BY <1>2 DEF record_session_tip
    <2> QED
      BY <2>1
  <1>3. CASE ~(x.tip # NoCheckpoint /\ x.tip.frame >= cp.frame)
    <2>1. y = [x EXCEPT !.tip = cp]
      BY <1>3 DEF record_session_tip
    <2>2. EndOf(x) = NoCheckpoint
      <3> SUFFICES ASSUME EndOf(x) # NoCheckpoint PROVE FALSE
        OBVIOUS
      <3>1. EndOf(x) = Executed(x) /\ cp.frame <= EndOf(x).frame
        BY DEF Settled, within_terminal
      <3>2. CASE x.tip = NoCheckpoint
        BY <1>1, <3>1, <3>2, BaseType, SessionParts, FrameAssumption DEF Executed
      <3>3. CASE x.tip # NoCheckpoint
        <4>1. x.tip.frame \in Nat
          BY <1>1, <3>3, SessionParts, CheckpointType, FrameAssumption
        <4> QED
          BY <1>1, <1>3, <3>1, <3>3, <4>1 DEF Executed
      <3> QED
        BY <3>2, <3>3
    <2>3. y \in SessionRecords
      BY <1>1, <2>1 DEF SessionRecords
    <2>4. /\ y.status = x.status /\ y.request = x.request /\ y.base = x.base
          /\ y.seal = x.seal /\ y.fence = x.fence
      BY <1>1, <2>1 DEF SessionRecords
    <2>5. EndOf(y) = NoCheckpoint
      BY <2>2, <2>4 DEF EndOf
    <2> QED
      BY <2>2, <2>3, <2>4, <2>5 DEF Settled
  <1> QED
    BY <1>2, <1>3

\* A fence ends a closing session at its executed frame.
LEMMA FenceHolds ==
  ASSUME NEW x, Settled(x), x.status = "sealing", EndOf(x) = NoCheckpoint,
         NEW y, y = [x EXCEPT !.fence = write_fence(x)]
  PROVE  /\ Settled(y)
         /\ y.status = x.status /\ y.request = x.request /\ y.base = x.base
         /\ EndOf(y) # NoCheckpoint
  <1>1. x \in SessionRecords
    BY DEF Settled
  <1>2. write_fence(x) = Executed(x)
    BY DEF write_fence, Executed
  <1>3. Executed(x) \in Checkpoints /\ x.seal = NoCheckpoint
    BY <1>1, SessionParts
  <1>4. Executed(x) # NoCheckpoint /\ Executed(x) \in Ends
    BY <1>3, CheckpointType
  <1>5. y \in SessionRecords
    BY <1>1, <1>2, <1>4 DEF SessionRecords
  <1>6. /\ y.status = x.status /\ y.request = x.request /\ y.base = x.base /\ y.tip = x.tip
        /\ y.seal = x.seal /\ y.fence = Executed(x)
    BY <1>1, <1>2 DEF SessionRecords
  <1>7. EndOf(y) = Executed(x) /\ Executed(y) = Executed(x)
    BY <1>3, <1>6 DEF EndOf, Executed, BaseOf
  <1> QED
    BY <1>3, <1>4, <1>5, <1>6, <1>7 DEF Settled

\* The status of a session changes nothing else of it.
Restated(x, status, id) == [x EXCEPT !.status = status, !.request = id]

\* A session with another status and request.
LEMMA StatusHolds ==
  ASSUME NEW x \in SessionRecords, NEW status \in Statuses,
         NEW id \in Nat
  PROVE  /\ Restated(x, status, id) \in SessionRecords
         /\ Restated(x, status, id).status = status
         /\ Restated(x, status, id).request = id
         /\ Restated(x, status, id).base = x.base
         /\ EndOf(Restated(x, status, id)) = EndOf(x)
         /\ Executed(Restated(x, status, id)) = Executed(x)
         /\ Restated(x, status, id).seal = x.seal
         /\ Restated(x, status, id).fence = x.fence
  <1> DEFINE y == Restated(x, status, id)
             z == [x EXCEPT !.status = status]
  <1>1. /\ z \in SessionRecords
        /\ z.status = status /\ z.base = x.base /\ z.tip = x.tip
        /\ z.seal = x.seal /\ z.fence = x.fence
    BY DEF SessionRecords
  <1>2. y = [z EXCEPT !.request = id]
    BY DEF Restated
  <1> HIDE DEF y, z
  <1>3. /\ y \in SessionRecords
        /\ y.status = z.status /\ y.request = id /\ y.base = z.base /\ y.tip = z.tip
        /\ y.seal = z.seal /\ y.fence = z.fence
    BY <1>1, <1>2 DEF SessionRecords
  <1>4. EndOf(y) = EndOf(x) /\ Executed(y) = Executed(x)
    BY <1>1, <1>3 DEF EndOf, Executed, BaseOf
  <1> QED
    BY <1>1, <1>3, <1>4 DEF y

\* A new session starts settled at its base.
LEMMA NewSessionHolds ==
  ASSUME NEW base \in 0..MaxFrame, NEW members \in SUBSET Provers
  PROVE  /\ Settled(NewSession(base, members))
         /\ NewSession(base, members).base = base
         /\ NewSession(base, members).status = "active"
  <1> DEFINE x == NewSession(base, members)
  <1>1. x \in SessionRecords
    BY DEF NewSession, SessionRecords, Ends, Statuses
  <1>2. /\ x.status = "active" /\ x.request = 0 /\ x.base = base
        /\ x.seal = NoCheckpoint /\ x.fence = NoCheckpoint
    BY DEF NewSession
  <1> QED
    BY <1>1, <1>2 DEF Settled, EndOf

\* The parts of a request.
LEMMA RequestParts ==
  ASSUME NEW r \in RequestRecords
  PROVE  /\ DOMAIN r.targets \subseteq Filters
         /\ \A f \in DOMAIN r.targets : r.targets[f] \subseteq Provers
         /\ r.sources \subseteq Filters \X Nat
         /\ r.activated \in BOOLEAN /\ r.age \in Nat
  <1>1. /\ r.targets \in UNION {[T -> SUBSET Provers] : T \in SUBSET Filters}
        /\ r.sources \in SUBSET (Filters \X Nat) /\ r.activated \in BOOLEAN /\ r.age \in Nat
    BY DEF RequestRecords
  <1>2. PICK T \in SUBSET Filters : r.targets \in [T -> SUBSET Provers]
    BY <1>1
  <1> QED
    BY <1>1, <1>2

----------------------------------------------------------------------------
(* The records                                                             *)

\* One session replaced by one with the same place.
Put(ses, f, g, y) == [ses EXCEPT ![f] = [ses[f] EXCEPT ![g] = y]]

\* Replacing a session by one with the same standing keeps the registry.
LEMMA UpdateHolds ==
  ASSUME NEW ses, NEW reqs, NEW res, Registry(ses, reqs, res),
         NEW f \in Filters, NEW g \in DOMAIN ses[f], NEW y, Settled(y),
         y.status = ses[f][g].status, y.request = ses[f][g].request,
         y.base = ses[f][g].base,
         g < Len(ses[f]) => Executed(y) = Executed(ses[f][g])
  PROVE  Registry(Put(ses, f, g, y), reqs, res)
  <1> DEFINE new == Put(ses, f, g, y)
  <1>1. ses \in [Filters -> Seq(SessionRecords)] /\ y \in SessionRecords
    BY DEF Registry, Settled
  <1>2. /\ ses[f] \in Seq(SessionRecords)
        /\ [ses[f] EXCEPT ![g] = y] \in Seq(SessionRecords)
    BY <1>1
  <1>3. /\ new \in [Filters -> Seq(SessionRecords)]
        /\ \A h \in Filters : DOMAIN new[h] = DOMAIN ses[h] /\ Len(new[h]) = Len(ses[h])
        /\ \A h \in Filters : h # f => new[h] = ses[h]
        /\ new[f][g] = y
        /\ \A k \in DOMAIN ses[f] : k # g => new[f][k] = ses[f][k]
    BY <1>1, <1>2 DEF Put
  <1> HIDE DEF new
  <1>4. /\ \A h \in Filters : Len(ses[h]) \in Nat /\ DOMAIN ses[h] = 1..Len(ses[h])
    BY <1>1
  <1>5. \A h \in Filters : \A k \in DOMAIN ses[h] :
           /\ new[h][k].status = ses[h][k].status
           /\ new[h][k].request = ses[h][k].request
           /\ new[h][k].base = ses[h][k].base
           /\ k < Len(ses[h]) => Executed(new[h][k]) = Executed(ses[h][k])
    BY <1>3
  <1>6. ASSUME NEW h \in Filters, NEW k \in DOMAIN new[h] PROVE Placed(new, reqs, h, k)
    <2>1. k \in DOMAIN ses[h] /\ Placed(ses, reqs, h, k)
      BY <1>3 DEF Registry
    <2>2. Settled(new[h][k])
      BY <1>3, <2>1 DEF Placed
    <2>3. k > 1 => new[h][k].base = Executed(new[h][k - 1]).frame
      <3> SUFFICES ASSUME k > 1 PROVE new[h][k].base = Executed(new[h][k - 1]).frame
        OBVIOUS
      <3>1. k - 1 \in DOMAIN ses[h] /\ k - 1 < Len(ses[h])
        BY <1>4, <2>1
      <3> QED
        BY <1>5, <2>1, <3>1 DEF Placed
    <2> QED
      BY <1>3, <1>5, <2>1, <2>2, <2>3 DEF Placed
  <1>7. ASSUME NEW i \in DOMAIN reqs
        PROVE  Asks(new, reqs, i) /\ Reserves(new, reqs, res, i)
    <2>1. Asks(ses, reqs, i) /\ Reserves(ses, reqs, res, i)
      BY DEF Registry
    <2>2. DOMAIN reqs[i].targets \subseteq Filters
      BY RequestParts DEF Registry
    <2>3. Asks(new, reqs, i)
      BY <1>3, <1>5, <2>1 DEF Asks
    <2>4. \A h \in Filters : (new[h] # <<>> <=> ses[h] # <<>>)
            /\ (ses[h] # <<>> => Len(ses[h]) \in DOMAIN ses[h])
      BY <1>1, <1>3, <1>4
    <2>5. ASSUME ~reqs[i].activated, NEW h \in DOMAIN reqs[i].targets
          PROVE  /\ res[h] = i
                 /\ reqs[i].generations[h] = Len(new[h]) + 1
                 /\ new[h] # <<>> =>
                      \/ <<h, Len(new[h])>> \in reqs[i].sources
                      \/ new[h][Len(new[h])].status = "closed"
      <3>1. h \in Filters
        BY <2>2
      <3>2. Len(new[h]) = Len(ses[h]) /\ (new[h] # <<>> => ses[h] # <<>>)
        BY <1>3, <2>4, <3>1
      <3>3. ses[h] # <<>> => new[h][Len(ses[h])].status = ses[h][Len(ses[h])].status
        BY <1>5, <2>4, <3>1
      <3> QED
        BY <2>1, <2>5, <3>2, <3>3 DEF Reserves
    <2>6. Reserves(new, reqs, res, i)
      BY <2>5 DEF Reserves
    <2> QED
      BY <2>3, <2>6
  <1> QED
    BY <1>3, <1>6, <1>7 DEF Registry, new

\* What set_status leaves of the sessions.
Restates(new, ses, ids, status, id) ==
  /\ new \in [Filters -> Seq(SessionRecords)]
  /\ \A f \in Filters : DOMAIN new[f] = DOMAIN ses[f] /\ Len(new[f]) = Len(ses[f])
  /\ \A f \in Filters : \A g \in DOMAIN ses[f] :
       /\ new[f][g].base = ses[f][g].base
       /\ EndOf(new[f][g]) = EndOf(ses[f][g])
       /\ Executed(new[f][g]) = Executed(ses[f][g])
       /\ new[f][g].seal = ses[f][g].seal /\ new[f][g].fence = ses[f][g].fence
       /\ <<f, g>> \in ids => new[f][g].status = status /\ new[f][g].request = id
       /\ <<f, g>> \notin ids => new[f][g] = ses[f][g]

\* set_status changes the named sessions only.
LEMMA SetStatusAt ==
  ASSUME NEW ses \in [Filters -> Seq(SessionRecords)], NEW ids, NEW id \in Nat,
         NEW status \in Statuses
  PROVE  Restates(set_status(ses, ids, status, id), ses, ids, status, id)
  <1> DEFINE new == set_status(ses, ids, status, id)
  <1>1. \A f \in Filters :
          new[f] = [g \in DOMAIN ses[f] |->
                      IF <<f, g>> \in ids
                      THEN [ses[f][g] EXCEPT !.status = status, !.request = id]
                      ELSE ses[f][g]]
    BY DEF set_status
  <1>2. DOMAIN new = Filters /\ new = [f \in Filters |-> new[f]]
    BY DEF set_status
  <1> HIDE DEF new
  <1>3. ASSUME NEW f \in Filters, NEW g \in DOMAIN ses[f]
        PROVE  /\ new[f][g] \in SessionRecords
               /\ new[f][g].base = ses[f][g].base
               /\ EndOf(new[f][g]) = EndOf(ses[f][g])
               /\ Executed(new[f][g]) = Executed(ses[f][g])
               /\ new[f][g].seal = ses[f][g].seal /\ new[f][g].fence = ses[f][g].fence
               /\ <<f, g>> \in ids => new[f][g].status = status /\ new[f][g].request = id
               /\ <<f, g>> \notin ids => new[f][g] = ses[f][g]
    <2>1. ses[f][g] \in SessionRecords
      OBVIOUS
    <2>2. CASE <<f, g>> \in ids
      <3>1. new[f][g] = Restated(ses[f][g], status, id)
        BY <1>1, <2>2 DEF Restated
      <3> QED
        BY <2>1, <2>2, <3>1, StatusHolds
    <2>3. CASE <<f, g>> \notin ids
      <3>1. new[f][g] = ses[f][g]
        BY <1>1, <2>3
      <3> QED
        BY <2>1, <2>3, <3>1
    <2> QED
      BY <2>2, <2>3
  <1>4. ASSUME NEW f \in Filters
        PROVE  /\ new[f] \in Seq(SessionRecords)
               /\ DOMAIN new[f] = DOMAIN ses[f] /\ Len(new[f]) = Len(ses[f])
    <2>1. ses[f] \in Seq(SessionRecords) /\ DOMAIN ses[f] = 1..Len(ses[f]) /\ Len(ses[f]) \in Nat
      OBVIOUS
    <2>2. new[f] \in [DOMAIN ses[f] -> SessionRecords]
      BY <1>1, <1>3
    <2> QED
      BY <2>1, <2>2
  <1>5. new \in [Filters -> Seq(SessionRecords)]
    BY <1>2, <1>4
  <1> QED
    BY <1>3, <1>4, <1>5 DEF new, Restates

\* No open request names a target whose last session is active, nor one that
\* is reserved by no open request.
LEMMA TargetFree ==
  ASSUME NEW ses, NEW reqs, NEW res, Registry(ses, reqs, res),
         NEW i \in DOMAIN reqs, ~reqs[i].activated, NEW f \in DOMAIN reqs[i].targets
  PROVE  /\ f \in Filters /\ res[f] = i /\ res[f] # 0
         /\ ses[f] # <<>> => ses[f][Len(ses[f])].status # "active"
  <1>1. reqs \in Seq(RequestRecords) /\ reqs[i] \in RequestRecords /\ i # 0
    BY DEF Registry
  <1>2. f \in Filters
    BY <1>1, RequestParts
  <1>3. Asks(ses, reqs, i) /\ Reserves(ses, reqs, res, i)
    BY DEF Registry
  <1>4. ses[f] \in Seq(SessionRecords) /\ Len(ses[f]) \in Nat
    BY <1>2 DEF Registry
  <1>5. res[f] = i /\ (ses[f] # <<>> => \/ <<f, Len(ses[f])>> \in reqs[i].sources
                                        \/ ses[f][Len(ses[f])].status = "closed")
    BY <1>3 DEF Reserves
  <1>6. <<f, Len(ses[f])>> \in reqs[i].sources => ses[f][Len(ses[f])].status = "sealing"
    BY <1>2, <1>3, <1>4 DEF Asks
  <1> QED
    BY <1>1, <1>2, <1>5, <1>6

\* The sessions and the reservations once a request is made.
Asked(ses, r, id) == set_status(ses, r.sources, "sealing", id)

Reserved(res, r, id) == [f \in Filters |-> IF f \in DOMAIN r.targets THEN id ELSE res[f]]

\* A new request for active head sessions to close, whose targets no open
\* request reserves.
LEMMA ScheduleHolds ==
  ASSUME NEW ses, NEW reqs, NEW res, Registry(ses, reqs, res),
         NEW sources \in SUBSET Filters,
         \A f \in sources : ses[f] # <<>> /\ ses[f][Len(ses[f])].status = "active",
         NEW r \in RequestRecords, ~r.activated,
         r.sources = {<<f, Len(ses[f])>> : f \in sources},
         \A f \in DOMAIN r.targets :
           /\ r.generations[f] = Len(ses[f]) + 1
           /\ \/ f \in sources
              \/ /\ ses[f] # <<>> => ses[f][Len(ses[f])].status = "closed"
                 /\ res[f] = 0 \/ reqs[res[f]].activated
  PROVE  Registry(Asked(ses, r, Len(reqs) + 1), Append(reqs, r),
                  Reserved(res, r, Len(reqs) + 1))
  <1> DEFINE id == Len(reqs) + 1
             new == Asked(ses, r, id)
             newres == Reserved(res, r, id)
             more == Append(reqs, r)
  <1>1. ses \in [Filters -> Seq(SessionRecords)] /\ reqs \in Seq(RequestRecords)
    BY DEF Registry
  <1>2. /\ more \in Seq(RequestRecords) /\ Len(more) = id /\ id \in Nat
        /\ DOMAIN reqs = 1..Len(reqs) /\ DOMAIN more = 1..id
        /\ more[id] = r /\ \A i \in DOMAIN reqs : more[i] = reqs[i] /\ i # id
        /\ DOMAIN more = DOMAIN reqs \cup {id}
    BY <1>1
  <1>3. /\ new \in [Filters -> Seq(SessionRecords)]
        /\ \A f \in Filters : DOMAIN new[f] = DOMAIN ses[f] /\ Len(new[f]) = Len(ses[f])
        /\ \A f \in Filters : \A g \in DOMAIN ses[f] :
             /\ new[f][g].base = ses[f][g].base
             /\ EndOf(new[f][g]) = EndOf(ses[f][g])
             /\ Executed(new[f][g]) = Executed(ses[f][g])
             /\ new[f][g].seal = ses[f][g].seal /\ new[f][g].fence = ses[f][g].fence
             /\ <<f, g>> \in r.sources => new[f][g].status = "sealing" /\ new[f][g].request = id
             /\ <<f, g>> \notin r.sources => new[f][g] = ses[f][g]
    <2>1. "sealing" \in Statuses
      BY DEF Statuses
    <2>2. id \in Nat
      BY <1>2
    <2> HIDE DEF id, more
    <2>3. Restates(set_status(ses, r.sources, "sealing", id), ses, r.sources, "sealing", id)
      BY <1>1, <2>1, <2>2, SetStatusAt, Zenon
    <2>4. Restates(new, ses, r.sources, "sealing", id)
      BY <2>3 DEF Asked
    <2> QED
      BY <2>4 DEF Restates
  <1>0. /\ newres = [f \in Filters |-> IF f \in DOMAIN r.targets THEN id ELSE res[f]]
    BY DEF Reserved
  <1> HIDE DEF id, more, new, newres
  <1>4. \A f \in Filters : Len(ses[f]) \in Nat /\ DOMAIN ses[f] = 1..Len(ses[f])
                           /\ (ses[f] # <<>> <=> Len(ses[f]) \in DOMAIN ses[f])
    BY <1>1
  <1>5. \A f \in Filters, g \in Nat : <<f, g>> \in r.sources =>
            /\ f \in sources /\ g = Len(ses[f]) /\ g \in DOMAIN ses[f]
            /\ ses[f][g].status = "active"
    BY <1>4
  <1>6. newres \in [Filters -> 0..id]
    <2>1. res \in [Filters -> 0..Len(reqs)] /\ Len(reqs) \in Nat /\ id = Len(reqs) + 1
      BY <1>1 DEF Registry, id
    <2> QED
      BY <1>0, <2>1
  <1>7. ASSUME NEW f \in Filters, NEW g \in DOMAIN new[f] PROVE Placed(new, more, f, g)
    <2>0. g \in DOMAIN ses[f] /\ g \in Nat
      BY <1>3, <1>4
    <2>1. g \in DOMAIN ses[f] /\ Placed(ses, reqs, f, g) /\ g \in Nat
      BY <2>0 DEF Registry
    <2>2. g > 1 => new[f][g].base = Executed(new[f][g - 1]).frame
      <3> SUFFICES ASSUME g > 1 PROVE new[f][g].base = Executed(new[f][g - 1]).frame
        OBVIOUS
      <3>1. g - 1 \in DOMAIN ses[f]
        BY <1>4, <2>1
      <3> QED
        BY <1>3, <2>1, <3>1 DEF Placed
    <2>3. CASE <<f, g>> \in r.sources
      <3>1. /\ new[f][g] \in SessionRecords
            /\ new[f][g].status = "sealing" /\ new[f][g].request = id
            /\ EndOf(new[f][g]) = EndOf(ses[f][g]) /\ ses[f][g].status = "active"
            /\ g = Len(ses[f])
        BY <1>3, <1>5, <2>1, <2>3
      <3>2. EndOf(new[f][g]) = NoCheckpoint /\ NoCheckpoint \in {new[f][g].seal, new[f][g].fence}
        BY <1>3, <2>1, <3>1 DEF Placed, Settled
      <3>3. Settled(new[f][g])
        BY <3>1, <3>2 DEF Settled
      <3>4. new[f][g].request \in DOMAIN more /\ <<f, g>> \in more[new[f][g].request].sources
        BY <1>2, <2>3, <3>1
      <3> QED
        BY <1>3, <1>4, <2>2, <3>1, <3>3, <3>4 DEF Placed
    <2>4. CASE <<f, g>> \notin r.sources
      <3>1. new[f][g] = ses[f][g]
        BY <1>3, <2>1, <2>4
      <3>2. ses[f][g].status # "active" =>
              /\ ses[f][g].request \in DOMAIN more
              /\ <<f, g>> \in more[ses[f][g].request].sources
        <4>1. ses[f][g].status # "active" =>
                /\ ses[f][g].request \in DOMAIN reqs
                /\ <<f, g>> \in reqs[ses[f][g].request].sources
          BY <2>1 DEF Placed
        <4> QED
          BY <1>2, <4>1
      <3> QED
        BY <1>3, <2>1, <2>2, <3>1, <3>2 DEF Placed
    <2> QED
      BY <2>3, <2>4
  <1>8. ASSUME NEW i \in DOMAIN reqs
        PROVE  Asks(new, more, i) /\ Reserves(new, more, newres, i)
    <2>1. more[i] = reqs[i] /\ Asks(ses, reqs, i) /\ Reserves(ses, reqs, res, i)
      BY <1>2 DEF Registry
    <2>2. \A f \in Filters, g \in Nat : <<f, g>> \in reqs[i].sources => <<f, g>> \notin r.sources
      BY <1>5, <2>1 DEF Asks
    <2>3. Asks(new, more, i)
      BY <1>3, <2>1, <2>2 DEF Asks
    <2>4. ASSUME ~reqs[i].activated, NEW f \in DOMAIN reqs[i].targets
          PROVE  /\ newres[f] = i
                 /\ reqs[i].generations[f] = Len(new[f]) + 1
                 /\ new[f] # <<>> =>
                      \/ <<f, Len(new[f])>> \in reqs[i].sources
                      \/ new[f][Len(new[f])].status = "closed"
      <3>1. /\ f \in Filters /\ res[f] = i /\ res[f] # 0
            /\ ses[f] # <<>> => ses[f][Len(ses[f])].status # "active"
        BY <2>4, TargetFree
      <3>2. f \notin sources
        BY <3>1
      <3>3. f \notin DOMAIN r.targets
        BY <2>4, <3>1, <3>2
      <3>4. newres[f] = i
        BY <1>0, <3>1, <3>3
      <3>5. <<f, Len(ses[f])>> \notin r.sources
        BY <1>4, <1>5, <3>1, <3>2
      <3>6. /\ Len(new[f]) = Len(ses[f])
            /\ new[f] # <<>> => ses[f] # <<>> /\ new[f][Len(ses[f])] = ses[f][Len(ses[f])]
        BY <1>3, <1>4, <3>1, <3>5
      <3>7. /\ reqs[i].generations[f] = Len(ses[f]) + 1
            /\ ses[f] # <<>> => \/ <<f, Len(ses[f])>> \in reqs[i].sources
                                \/ ses[f][Len(ses[f])].status = "closed"
        BY <2>1, <2>4 DEF Reserves
      <3> QED
        BY <3>4, <3>6, <3>7
    <2> QED
      BY <2>1, <2>3, <2>4 DEF Reserves
  <1>9. Asks(new, more, id) /\ Reserves(new, more, newres, id)
    <2>1. Asks(new, more, id)
      BY <1>2, <1>3, <1>5 DEF Asks
    <2>2. ASSUME NEW f \in DOMAIN r.targets
          PROVE  /\ newres[f] = id
                 /\ r.generations[f] = Len(new[f]) + 1
                 /\ new[f] # <<>> =>
                      \/ <<f, Len(new[f])>> \in r.sources
                      \/ new[f][Len(new[f])].status = "closed"
      <3>1. f \in Filters
        BY RequestParts
      <3>2. newres[f] = id
        BY <1>0, <3>1
      <3>3. Len(new[f]) = Len(ses[f]) /\ r.generations[f] = Len(new[f]) + 1
        BY <1>3, <3>1
      <3>4. CASE f \in sources
        BY <3>2, <3>3, <3>4
      <3>5. CASE f \notin sources
        <4>1. <<f, Len(ses[f])>> \notin r.sources
          BY <1>4, <1>5, <3>1, <3>5
        <4>2. new[f] # <<>> => new[f][Len(ses[f])].status = "closed"
          BY <1>3, <1>4, <3>1, <3>5, <4>1
        <4> QED
          BY <3>2, <3>3, <4>2
      <3> QED
        BY <3>4, <3>5
    <2> QED
      BY <1>2, <2>1, <2>2 DEF Reserves
  <1>10. \A i \in DOMAIN more : Asks(new, more, i) /\ Reserves(new, more, newres, i)
    BY <1>2, <1>8, <1>9
  <1>11. newres \in [Filters -> 0..Len(more)]
    BY <1>2, <1>6
  <1>12. Registry(new, more, newres)
    BY <1>2, <1>3, <1>7, <1>10, <1>11 DEF Registry
  <1> QED
    BY <1>12 DEF more, new, newres, id

\* Requests one of which has now activated.
Done(reqs, id) == [reqs EXCEPT ![id] = [reqs[id] EXCEPT !.activated = TRUE]]

\* Marking a request activated changes nothing else of it.
LEMMA DoneParts ==
  ASSUME NEW reqs \in Seq(RequestRecords), NEW id \in DOMAIN reqs
  PROVE  /\ Done(reqs, id) \in Seq(RequestRecords)
         /\ DOMAIN Done(reqs, id) = DOMAIN reqs /\ Len(Done(reqs, id)) = Len(reqs)
         /\ Done(reqs, id)[id].activated = TRUE
         /\ \A i \in DOMAIN reqs :
              /\ Done(reqs, id)[i].sources = reqs[i].sources
              /\ i # id => Done(reqs, id)[i] = reqs[i]
  <1> DEFINE r == [reqs[id] EXCEPT !.activated = TRUE]
  <1>1. reqs[id] \in RequestRecords
    OBVIOUS
  <1>2. r \in RequestRecords /\ r.activated = TRUE /\ r.sources = reqs[id].sources
    BY <1>1 DEF RequestRecords
  <1>3. Done(reqs, id) = [reqs EXCEPT ![id] = r]
    BY DEF Done
  <1> HIDE DEF r
  <1> QED
    BY <1>2, <1>3

\* The sources of a request that all ended are closed.
LEMMA CloseHolds ==
  ASSUME NEW ses, NEW reqs, NEW res, Registry(ses, reqs, res),
         NEW id \in DOMAIN reqs, ~reqs[id].activated, AllEnded(ses, reqs[id])
  PROVE  /\ Registry(set_status(ses, reqs[id].sources, "closed", id), Done(reqs, id), res)
         /\ Restates(set_status(ses, reqs[id].sources, "closed", id), ses,
                     reqs[id].sources, "closed", id)
  <1> DEFINE ids == reqs[id].sources
             new == set_status(ses, ids, "closed", id)
             done == Done(reqs, id)
  <1>1. ses \in [Filters -> Seq(SessionRecords)] /\ reqs \in Seq(RequestRecords) /\ id \in Nat
    BY DEF Registry
  <1>2. /\ done \in Seq(RequestRecords)
        /\ DOMAIN done = DOMAIN reqs /\ Len(done) = Len(reqs)
        /\ done[id].activated = TRUE
        /\ \A i \in DOMAIN reqs :
             /\ done[i].sources = reqs[i].sources
             /\ i # id => done[i] = reqs[i]
    BY <1>1, DoneParts
  <1>3. "closed" \in Statuses
    BY DEF Statuses
  <1>4. Restates(new, ses, ids, "closed", id)
    BY <1>1, <1>3, SetStatusAt, Zenon
  <1> HIDE DEF new, done, ids
  <1>5. /\ new \in [Filters -> Seq(SessionRecords)]
        /\ \A f \in Filters : DOMAIN new[f] = DOMAIN ses[f] /\ Len(new[f]) = Len(ses[f])
        /\ \A f \in Filters : \A g \in DOMAIN ses[f] :
             /\ new[f][g].base = ses[f][g].base
             /\ EndOf(new[f][g]) = EndOf(ses[f][g])
             /\ Executed(new[f][g]) = Executed(ses[f][g])
             /\ new[f][g].seal = ses[f][g].seal /\ new[f][g].fence = ses[f][g].fence
             /\ <<f, g>> \in ids => new[f][g].status = "closed" /\ new[f][g].request = id
             /\ <<f, g>> \notin ids => new[f][g] = ses[f][g]
    BY <1>4 DEF Restates
  <1>6. \A f \in Filters : Len(ses[f]) \in Nat /\ DOMAIN ses[f] = 1..Len(ses[f])
                           /\ (ses[f] # <<>> <=> Len(ses[f]) \in DOMAIN ses[f])
    BY <1>1
  <1>7. \A f \in Filters, g \in Nat : <<f, g>> \in ids =>
            /\ g \in DOMAIN ses[f]
            /\ ses[f][g].request = id
            /\ EndOf(ses[f][g]) # NoCheckpoint
    <2>1. Asks(ses, reqs, id)
      BY DEF Registry
    <2> QED
      BY <2>1 DEF Asks, AllEnded, terminal, ids
  <1>8. ASSUME NEW f \in Filters, NEW g \in DOMAIN new[f] PROVE Placed(new, done, f, g)
    <2>1. g \in DOMAIN ses[f] /\ g \in Nat
      BY <1>5, <1>6
    <2>2. Placed(ses, reqs, f, g)
      BY <2>1 DEF Registry
    <2>3. g > 1 => new[f][g].base = Executed(new[f][g - 1]).frame
      <3> SUFFICES ASSUME g > 1 PROVE new[f][g].base = Executed(new[f][g - 1]).frame
        OBVIOUS
      <3>1. g - 1 \in DOMAIN ses[f]
        BY <1>6, <2>1
      <3> QED
        BY <1>5, <2>1, <2>2, <3>1 DEF Placed
    <2>4. CASE <<f, g>> \in ids
      <3>1. /\ new[f][g] \in SessionRecords
            /\ new[f][g].status = "closed" /\ new[f][g].request = id
            /\ EndOf(new[f][g]) = EndOf(ses[f][g]) /\ Executed(new[f][g]) = Executed(ses[f][g])
            /\ EndOf(ses[f][g]) # NoCheckpoint
        BY <1>5, <1>7, <2>1, <2>4
      <3>2. /\ EndOf(new[f][g]) = Executed(new[f][g])
            /\ NoCheckpoint \in {new[f][g].seal, new[f][g].fence}
        BY <1>5, <2>1, <2>2, <3>1 DEF Placed, Settled
      <3>3. Settled(new[f][g])
        BY <3>1, <3>2 DEF Settled
      <3>4. new[f][g].request \in DOMAIN done /\ <<f, g>> \in done[new[f][g].request].sources
        BY <1>2, <2>4, <3>1 DEF ids
      <3> QED
        BY <2>3, <3>1, <3>3, <3>4 DEF Placed
    <2>5. CASE <<f, g>> \notin ids
      <3>1. new[f][g] = ses[f][g]
        BY <1>5, <2>1, <2>5
      <3>2. ses[f][g].status # "active" =>
              /\ ses[f][g].request \in DOMAIN done
              /\ <<f, g>> \in done[ses[f][g].request].sources
        <4>1. ses[f][g].status # "active" =>
                /\ ses[f][g].request \in DOMAIN reqs
                /\ <<f, g>> \in reqs[ses[f][g].request].sources
          BY <2>2 DEF Placed
        <4> QED
          BY <1>2, <4>1
      <3> QED
        BY <1>5, <2>2, <2>3, <3>1, <3>2 DEF Placed
    <2> QED
      BY <2>4, <2>5
  <1>9. ASSUME NEW i \in DOMAIN reqs, i # id
        PROVE  Asks(new, done, i) /\ Reserves(new, done, res, i)
    <2>1. done[i] = reqs[i] /\ Asks(ses, reqs, i) /\ Reserves(ses, reqs, res, i)
      BY <1>2, <1>9 DEF Registry
    <2>2. \A f \in Filters, g \in Nat : <<f, g>> \in reqs[i].sources => <<f, g>> \notin ids
      BY <1>7, <1>9, <2>1 DEF Asks
    <2>3. Asks(new, done, i)
      BY <1>5, <2>1, <2>2 DEF Asks
    <2>4. ASSUME ~reqs[i].activated, NEW f \in DOMAIN reqs[i].targets
          PROVE  /\ res[f] = i
                 /\ reqs[i].generations[f] = Len(new[f]) + 1
                 /\ new[f] # <<>> =>
                      \/ <<f, Len(new[f])>> \in reqs[i].sources
                      \/ new[f][Len(new[f])].status = "closed"
      <3>1. f \in Filters /\ res[f] = i
        BY <2>4, TargetFree
      <3>2. /\ reqs[i].generations[f] = Len(ses[f]) + 1
            /\ ses[f] # <<>> => \/ <<f, Len(ses[f])>> \in reqs[i].sources
                                \/ ses[f][Len(ses[f])].status = "closed"
        BY <2>1, <2>4 DEF Reserves
      <3>3. Len(new[f]) = Len(ses[f]) /\ (new[f] # <<>> => Len(ses[f]) \in DOMAIN ses[f])
        BY <1>5, <1>6, <3>1
      <3>4. Len(ses[f]) \in DOMAIN ses[f] /\ ses[f][Len(ses[f])].status = "closed" =>
              new[f][Len(ses[f])].status = "closed"
        BY <1>5, <3>1
      <3> QED
        BY <1>6, <3>1, <3>2, <3>3, <3>4
    <2> QED
      BY <2>1, <2>3, <2>4 DEF Reserves
  <1>10. Asks(new, done, id) /\ Reserves(new, done, res, id)
    <2>1. Asks(new, done, id)
      BY <1>2, <1>5, <1>7 DEF Asks, ids
    <2> QED
      BY <1>2, <2>1 DEF Reserves
  <1>11. \A i \in DOMAIN done : Asks(new, done, i) /\ Reserves(new, done, res, i)
    BY <1>2, <1>9, <1>10
  <1>12. res \in [Filters -> 0..Len(done)]
    BY <1>2 DEF Registry
  <1>13. Registry(new, done, res)
    BY <1>2, <1>5, <1>8, <1>11, <1>12 DEF Registry
  <1> QED
    BY <1>4, <1>13 DEF new, done, ids

\* The sessions with a new one on each shard of a set.
Grown(ses, shards, seated) ==
  [f \in Filters |->
     IF f \in shards
     THEN Append(ses[f], NewSession(IF ses[f] = <<>> THEN 0 ELSE EndOf(ses[f][Len(ses[f])]).frame,
                                    seated[f]))
     ELSE ses[f]]

\* A shard no open request reserves, and whose last session is closed, starts
\* its next one.
LEMMA GrownHolds ==
  ASSUME NEW ses, NEW reqs, NEW res, Registry(ses, reqs, res),
         NEW shards \in SUBSET Filters, NEW seated,
         \A f \in shards : /\ seated[f] \in SUBSET Provers
                           /\ ses[f] # <<>> => ses[f][Len(ses[f])].status = "closed"
                           /\ res[f] = 0 \/ reqs[res[f]].activated
  PROVE  Registry(Grown(ses, shards, seated), reqs, res)
  <1> DEFINE base(f) == IF ses[f] = <<>> THEN 0 ELSE EndOf(ses[f][Len(ses[f])]).frame
             new == Grown(ses, shards, seated)
             x(f) == NewSession(base(f), seated[f])
  <1>1. ses \in [Filters -> Seq(SessionRecords)] /\ reqs \in Seq(RequestRecords)
    BY DEF Registry
  <1>2. \A f \in Filters : Len(ses[f]) \in Nat /\ DOMAIN ses[f] = 1..Len(ses[f])
                           /\ (ses[f] # <<>> <=> Len(ses[f]) \in DOMAIN ses[f])
    BY <1>1
  <1>3. \A f \in Filters : new[f] = IF f \in shards THEN Append(ses[f], x(f)) ELSE ses[f]
    BY DEF Grown
  <1>4. new = [f \in Filters |-> new[f]]
    BY DEF Grown
  <1>5. ASSUME NEW f \in shards
        PROVE  /\ base(f) \in 0..MaxFrame
               /\ ses[f] # <<>> => base(f) = Executed(ses[f][Len(ses[f])]).frame
    <2>1. CASE ses[f] = <<>>
      BY <2>1, FrameAssumption
    <2>2. CASE ses[f] # <<>>
      <3> DEFINE y == ses[f][Len(ses[f])]
      <3>1. Placed(ses, reqs, f, Len(ses[f]))
        BY <1>2, <2>2 DEF Registry
      <3>2. Settled(y) /\ y.status = "closed" /\ y \in SessionRecords
        BY <2>2, <3>1 DEF Placed, Settled
      <3>3. EndOf(y) # NoCheckpoint /\ EndOf(y) = Executed(y)
        BY <3>2 DEF Settled
      <3>4. EndOf(y).frame \in 0..MaxFrame
        BY <3>2, <3>3, SessionParts, CheckpointType
      <3> QED
        BY <2>2, <3>3, <3>4
    <2> QED
      BY <2>1, <2>2
  <1>6. ASSUME NEW f \in shards
        PROVE  Settled(x(f)) /\ x(f).base = base(f) /\ x(f).status = "active"
    BY <1>5, NewSessionHolds
  <1> HIDE DEF base, x, new
  <1>7. ASSUME NEW f \in shards
        PROVE  /\ new[f] \in Seq(SessionRecords)
               /\ Len(new[f]) = Len(ses[f]) + 1
               /\ DOMAIN new[f] = 1..(Len(ses[f]) + 1)
               /\ new[f][Len(ses[f]) + 1] = x(f)
               /\ \A g \in DOMAIN ses[f] : new[f][g] = ses[f][g]
    <2>1. x(f) \in SessionRecords
      BY <1>6 DEF Settled
    <2>2. ses[f] \in Seq(SessionRecords)
      BY <1>1
    <2>3. new[f] = Append(ses[f], x(f))
      BY <1>3
    <2> QED
      BY <2>1, <2>2, <2>3
  <1>8. new \in [Filters -> Seq(SessionRecords)]
    BY <1>1, <1>3, <1>4, <1>7
  <1>9. \A f \in Filters : \A g \in DOMAIN ses[f] : g \in DOMAIN new[f] /\ new[f][g] = ses[f][g]
    BY <1>2, <1>3, <1>7
  <1>10. ASSUME NEW f \in Filters, NEW g \in DOMAIN new[f] PROVE Placed(new, reqs, f, g)
    <2>1. CASE f \notin shards
      <3>1. new[f] = ses[f] /\ Placed(ses, reqs, f, g)
        BY <1>3, <2>1 DEF Registry
      <3> QED
        BY <3>1 DEF Placed
    <2>2. CASE f \in shards /\ g \in DOMAIN ses[f]
      <3>1. Placed(ses, reqs, f, g) /\ new[f][g] = ses[f][g]
        BY <1>9, <2>2 DEF Registry
      <3>2. new[f][g].status = "closed"
        <4>1. CASE g < Len(ses[f])
          BY <3>1, <4>1 DEF Placed
        <4>2. CASE g = Len(ses[f])
          BY <1>2, <2>2, <3>1, <4>2
        <4> QED
          BY <1>2, <2>2, <4>1, <4>2
      <3>3. g > 1 => new[f][g].base = Executed(new[f][g - 1]).frame
        <4> SUFFICES ASSUME g > 1 PROVE new[f][g].base = Executed(new[f][g - 1]).frame
          OBVIOUS
        <4>1. g - 1 \in DOMAIN ses[f]
          BY <1>2, <2>2
        <4> QED
          BY <1>9, <3>1, <4>1 DEF Placed
      <3> QED
        BY <3>1, <3>2, <3>3 DEF Placed
    <2>3. CASE f \in shards /\ g \notin DOMAIN ses[f]
      <3>1. g = Len(ses[f]) + 1 /\ new[f][g] = x(f) /\ Len(new[f]) = g
        BY <1>2, <1>7, <2>3
      <3>2. g > 1 => new[f][g].base = Executed(new[f][g - 1]).frame
        <4> SUFFICES ASSUME g > 1 PROVE new[f][g].base = Executed(new[f][g - 1]).frame
          OBVIOUS
        <4>1. g - 1 = Len(ses[f]) /\ g - 1 \in DOMAIN ses[f] /\ ses[f] # <<>>
          BY <1>2, <3>1
        <4> QED
          BY <1>5, <1>6, <1>9, <2>3, <3>1, <4>1
      <3> QED
        BY <1>2, <1>6, <2>3, <3>1, <3>2 DEF Placed
    <2> QED
      BY <2>1, <2>2, <2>3
  <1>11. ASSUME NEW i \in DOMAIN reqs
         PROVE  Asks(new, reqs, i) /\ Reserves(new, reqs, res, i)
    <2>1. Asks(ses, reqs, i) /\ Reserves(ses, reqs, res, i)
      BY DEF Registry
    <2>2. Asks(new, reqs, i)
      BY <1>9, <2>1 DEF Asks
    <2>3. ASSUME ~reqs[i].activated, NEW f \in DOMAIN reqs[i].targets
          PROVE  new[f] = ses[f]
      <3>1. f \in Filters /\ res[f] = i /\ res[f] # 0
        BY <2>3, TargetFree
      <3>2. f \notin shards
        BY <2>3, <3>1
      <3> QED
        BY <1>3, <3>1, <3>2
    <2>4. Reserves(new, reqs, res, i)
      BY <2>1, <2>3 DEF Reserves
    <2> QED
      BY <2>2, <2>4
  <1> QED
    BY <1>8, <1>10, <1>11 DEF Registry, new

\* Activating a request closes its sources and starts its successors.
LEMMA ActivateHolds ==
  ASSUME NEW ses, NEW reqs, NEW res, Registry(ses, reqs, res),
         NEW id \in DOMAIN reqs, ~reqs[id].activated, AllEnded(ses, reqs[id]),
         NEW seated, DOMAIN seated \subseteq DOMAIN reqs[id].targets,
         \A f \in DOMAIN seated : seated[f] \in SUBSET Provers
  PROVE  Registry(activate_with(ses, id, reqs[id], seated), Done(reqs, id), res)
  <1> DEFINE ids == reqs[id].sources
             closed == set_status(ses, ids, "closed", id)
             shards == {f \in DOMAIN seated : seated[f] # {}}
  <1>1. Registry(closed, Done(reqs, id), res) /\ Restates(closed, ses, ids, "closed", id)
    BY CloseHolds
  <1>2. activate_with(ses, id, reqs[id], seated) = Grown(closed, shards, seated)
    BY DEF activate_with, Grown
  <1> HIDE DEF closed
  <1>3. reqs \in Seq(RequestRecords) /\ Reserves(ses, reqs, res, id)
    BY DEF Registry
  <1>4. Done(reqs, id)[id].activated = TRUE
    BY <1>3, DoneParts
  <1>5. ASSUME NEW f \in shards
        PROVE  /\ f \in Filters
               /\ closed[f] # <<>> => closed[f][Len(closed[f])].status = "closed"
               /\ Done(reqs, id)[res[f]].activated
    <2>1. f \in DOMAIN reqs[id].targets /\ f \in Filters /\ res[f] = id
      BY TargetFree
    <2>2. ses[f] # <<>> => \/ <<f, Len(ses[f])>> \in ids
                           \/ ses[f][Len(ses[f])].status = "closed"
      BY <1>3, <2>1 DEF Reserves
    <2>3. /\ Len(closed[f]) = Len(ses[f]) /\ closed[f] \in Seq(SessionRecords)
          /\ \A g \in DOMAIN ses[f] :
               /\ <<f, g>> \in ids => closed[f][g].status = "closed"
               /\ <<f, g>> \notin ids => closed[f][g] = ses[f][g]
      BY <1>1, <2>1 DEF Restates
    <2>4. ses[f] \in Seq(SessionRecords)
      BY <2>1 DEF Registry
    <2>5. closed[f] # <<>> => ses[f] # <<>> /\ Len(ses[f]) \in DOMAIN ses[f]
      BY <2>3, <2>4
    <2> QED
      BY <1>4, <2>1, <2>2, <2>3, <2>5
  <1>6. Registry(Grown(closed, shards, seated), Done(reqs, id), res)
    BY <1>1, <1>5, GrownHolds
  <1> QED
    BY <1>2, <1>6

\* Requests that differ in their age only.
LEMMA AgeHolds ==
  ASSUME NEW ses, NEW reqs, NEW res, Registry(ses, reqs, res),
         NEW aged \in Seq(RequestRecords), Len(aged) = Len(reqs),
         \A i \in DOMAIN reqs :
           /\ aged[i].sources = reqs[i].sources /\ aged[i].targets = reqs[i].targets
           /\ aged[i].generations = reqs[i].generations
           /\ aged[i].activated = reqs[i].activated
  PROVE  Registry(ses, aged, res)
  <1>1. DOMAIN aged = DOMAIN reqs
    BY DEF Registry
  <1>2. ASSUME NEW f \in Filters, NEW g \in DOMAIN ses[f] PROVE Placed(ses, aged, f, g)
    <2>1. Placed(ses, reqs, f, g)
      BY DEF Registry
    <2>2. ses[f][g].status # "active" =>
            /\ ses[f][g].request \in DOMAIN aged
            /\ <<f, g>> \in aged[ses[f][g].request].sources
      BY <1>1, <2>1 DEF Placed
    <2> QED
      BY <2>1, <2>2 DEF Placed
  <1>3. ASSUME NEW i \in DOMAIN aged
        PROVE  Asks(ses, aged, i) /\ Reserves(ses, aged, res, i)
    <2>1. Asks(ses, reqs, i) /\ Reserves(ses, reqs, res, i) /\ i \in DOMAIN reqs
      BY <1>1 DEF Registry
    <2>2. /\ aged[i].sources = reqs[i].sources /\ aged[i].targets = reqs[i].targets
          /\ aged[i].generations = reqs[i].generations
          /\ aged[i].activated = reqs[i].activated
      BY <2>1
    <2>3. Asks(ses, aged, i)
      BY <2>1, <2>2 DEF Asks
    <2>4. Reserves(ses, aged, res, i)
      BY <2>1, <2>2 DEF Reserves
    <2> QED
      BY <2>3, <2>4
  <1> QED
    BY <1>2, <1>3 DEF Registry

\* A submission is accepted at the executed tip: it seals the session there,
\* and never moves the tip of one that ended.
LEMMA SubmissionHolds ==
  ASSUME NEW x, Settled(x), NEW cp \in Checkpoints, NEW drain \in BOOLEAN,
         x.status # "active", x.fence = NoCheckpoint, drain_shape(x, cp, drain),
         verify_submission_at(Drained(x, cp, drain), cp),
         NEW d, d = Drained(x, cp, drain),
         NEW y, y = [d EXCEPT !.seal = cp]
  PROVE  /\ Settled(d) /\ Settled(y)
         /\ d.status = x.status /\ d.request = x.request /\ d.base = x.base
         /\ y.status = x.status /\ y.request = x.request /\ y.base = x.base
         /\ EndOf(x) # NoCheckpoint => Executed(d) = Executed(x) /\ Executed(y) = Executed(x)
  <1>1. x \in SessionRecords /\ cp # NoCheckpoint /\ cp.frame \in Nat /\ cp \in Ends
    BY CheckpointType, FrameAssumption DEF Settled
  <1>2. /\ d \in SessionRecords /\ Settled(d) /\ d.fence = NoCheckpoint
        /\ d.status = x.status /\ d.request = x.request /\ d.base = x.base
        /\ Executed(d) = cp /\ d.seal \in {NoCheckpoint, cp}
        /\ EndOf(x) # NoCheckpoint => Executed(d) = Executed(x)
    <2>1. CASE ~drain
      BY <1>1, <2>1 DEF Drained, verify_submission_at
    <2>2. CASE drain
      <3>1. cp.frame > Executed(x).frame /\ Executed(x).frame \in Nat
        <4>1. Executed(x).frame \in Nat
          BY <1>1, SessionParts, CheckpointType, FrameAssumption
        <4> QED
          BY <1>1, <2>2, <4>1, FrameAssumption DEF drain_shape
      <3>2. ~(x.tip # NoCheckpoint /\ x.tip.frame >= cp.frame)
        BY <1>1, <3>1 DEF Executed
      <3>3. d = [x EXCEPT !.tip = cp]
        BY <2>2, <3>2 DEF Drained, record_session_tip
      <3>4. /\ d \in SessionRecords /\ d.status = x.status /\ d.request = x.request
            /\ d.base = x.base /\ d.seal = x.seal /\ d.fence = x.fence /\ d.tip = cp
        BY <1>1, <3>3 DEF SessionRecords
      <3>5. Executed(d) = cp /\ d.seal \in {NoCheckpoint, cp}
        BY <1>1, <3>4 DEF Executed, verify_submission_at
      <3>6. x.seal = NoCheckpoint
        <4> SUFFICES ASSUME x.seal = cp PROVE FALSE
          BY <3>4, <3>5
        <4>1. EndOf(x) = cp /\ Executed(x) = cp
          BY <1>1 DEF EndOf, Settled
        <4> QED
          BY <3>1, <4>1
      <3>7. EndOf(x) = NoCheckpoint /\ EndOf(d) = NoCheckpoint
        BY <3>4, <3>6 DEF EndOf
      <3>8. Settled(d)
        BY <3>4, <3>7 DEF Settled
      <3> QED
        BY <3>4, <3>5, <3>7, <3>8
    <2> QED
      BY <2>1, <2>2
  <1>3. /\ y \in SessionRecords /\ y.status = d.status /\ y.request = d.request
        /\ y.base = d.base /\ y.tip = d.tip /\ y.fence = d.fence /\ y.seal = cp
    BY <1>1, <1>2 DEF SessionRecords
  <1>4. EndOf(y) = cp /\ Executed(y) = Executed(d)
    BY <1>1, <1>3 DEF EndOf, Executed, BaseOf
  <1>5. Settled(y)
    BY <1>1, <1>2, <1>3, <1>4 DEF Settled
  <1> QED
    BY <1>2, <1>3, <1>4, <1>5

----------------------------------------------------------------------------
(* Messages                                                                *)

\* Changes scheduled by an earlier frame are scheduled by a later one.
LEMMA ChangesGrow ==
  ASSUME NEW m \in Nat, NEW n \in Nat, m <= n
  PROVE  Changes(m) \subseteq Changes(n)
  BY DEF Changes

\* A session of a shard.
LEMMA PlaceOf ==
  ASSUME IInv, NEW f \in Filters, NEW g \in DOMAIN session[f]
  PROVE  /\ Placed(session, requests, f, g) /\ Settled(session[f][g])
         /\ session[f] \in Seq(SessionRecords) /\ g \in 1..Len(session[f])
         /\ g < Len(session[f]) => EndOf(session[f][g]) # NoCheckpoint
  <1>1. Placed(session, requests, f, g) /\ session[f] \in Seq(SessionRecords)
    BY DEF IInv, Registry
  <1> QED
    BY <1>1 DEF Placed, Settled

\* A frame of a session is executed.
LEMMA FrameExecuted ==
  ASSUME IInv, NEW f \in Filters, NEW g \in DOMAIN session[f], NEW cp \in Checkpoints,
         verify_frame(f, g, cp),
         session' = [session EXCEPT ![f][g] = record_session_tip(@, cp)],
         UNCHANGED <<requests, reserved>>
  PROVE  Registry(session, requests, reserved)'
  <1> DEFINE x == session[f][g]
             y == record_session_tip(x, cp)
  <1>1. Settled(x) /\ (g < Len(session[f]) => EndOf(x) # NoCheckpoint)
    BY PlaceOf
  <1>2. cp.frame > x.base /\ within_terminal(x, cp)
    BY DEF verify_frame
  <1>3. /\ Settled(y) /\ y.status = x.status /\ y.request = x.request /\ y.base = x.base
        /\ EndOf(x) # NoCheckpoint => y = x
    BY <1>1, <1>2, TipHolds
  <1>4. session' = Put(session, f, g, y)
    BY DEF Put
  <1>5. g < Len(session[f]) => Executed(y) = Executed(x)
    BY <1>1, <1>3
  <1>6. Registry(session, requests, reserved)
    BY DEF IInv
  <1> HIDE DEF y
  <1>7. Registry(Put(session, f, g, y), requests, reserved)
    BY <1>3, <1>5, <1>6, UpdateHolds
  <1> QED
    BY <1>4, <1>7

\* The request of a session that is closing or closed.
LEMMA RequestOfSession ==
  ASSUME IInv, NEW f \in Filters, NEW g \in DOMAIN session[f],
         session[f][g].status # "active"
  PROVE  /\ session[f][g].request \in DOMAIN requests
         /\ requests[session[f][g].request] \in RequestRecords
  <1>1. Placed(session, requests, f, g) /\ requests \in Seq(RequestRecords)
    BY DEF IInv, Registry
  <1> QED
    BY <1>1 DEF Placed

\* A request is marked when it activates.
LEMMA MarkParts ==
  ASSUME NEW ses, requests \in Seq(RequestRecords), NEW id \in DOMAIN requests
  PROVE  /\ Activates(ses, id, requests[id]) =>
              MarkActivated(ses, id, requests[id]) = Done(requests, id)
         /\ ~Activates(ses, id, requests[id]) =>
              MarkActivated(ses, id, requests[id]) = requests
  <1>1. requests[id] \in RequestRecords /\ requests[id].activated \in BOOLEAN
    BY RequestParts
  <1>2. CASE Activates(ses, id, requests[id])
    BY <1>2 DEF MarkActivated, Done
  <1>3. CASE ~Activates(ses, id, requests[id])
    <2>1. MarkActivated(ses, id, requests[id]) =
            [requests EXCEPT ![id] = [requests[id] EXCEPT !.activated = requests[id].activated]]
      BY <1>1, <1>3 DEF MarkActivated
    <2>2. [requests[id] EXCEPT !.activated = requests[id].activated] = requests[id]
      BY <1>1 DEF RequestRecords
    <2> QED
      BY <1>3, <2>1, <2>2
  <1> QED
    BY <1>2, <1>3

\* What an attempt to activate a request leaves.
LEMMA AttemptHolds ==
  ASSUME NEW ses, Registry(ses, requests, reserved), NEW id \in DOMAIN requests,
         NEW seated, DOMAIN seated \subseteq DOMAIN requests[id].targets,
         \A f \in DOMAIN seated : seated[f] \in SUBSET Provers
  PROVE  Registry(activate(ses, id, requests[id], seated),
                  MarkActivated(ses, id, requests[id]), reserved)
  <1>1. requests \in Seq(RequestRecords)
    BY DEF Registry
  <1>2. CASE Activates(ses, id, requests[id])
    <2>1. ~requests[id].activated /\ AllEnded(ses, requests[id])
      BY <1>2 DEF Activates
    <2>2. Registry(activate_with(ses, id, requests[id], seated), Done(requests, id), reserved)
      BY <2>1, ActivateHolds
    <2> QED
      BY <1>1, <1>2, <2>2, MarkParts DEF activate
  <1>3. CASE ~Activates(ses, id, requests[id])
    BY <1>1, <1>3, MarkParts DEF activate
  <1> QED
    BY <1>2, <1>3

\* The steps that leave the records alone, and those that leave alone all but
\* the records without asking a session to close.
LEMMA SurroundingsKept ==
  ASSUME IInv, Len(requests') = Len(requests),
         UNCHANGED <<grid, pending, people, phase, proposed>>
  PROVE  Surroundings'
  BY DEF IInv, Surroundings, people

\* A frame header keeps the invariant.
LEMMA FrameHeaderStep ==
  ASSUME IInv, NEW f \in Filters, NEW g \in DOMAIN session[f], NEW cp \in Checkpoints,
         FrameHeader(f, g, cp)
  PROVE  IInv'
  <1>1. Registry(session, requests, reserved)'
    BY FrameExecuted DEF FrameHeader
  <1>2. Surroundings'
    BY SurroundingsKept DEF FrameHeader
  <1> QED
    BY <1>1, <1>2 DEF IInv

\* A drain that does not reach the end keeps it.
LEMMA PartialDrainStep ==
  ASSUME IInv, NEW f \in Filters, NEW g \in DOMAIN session[f], NEW cp \in Checkpoints,
         NEW last \in Checkpoints, PartialDrain(f, g, cp, last)
  PROVE  IInv'
  <1>1. Registry(session, requests, reserved)'
    BY FrameExecuted DEF PartialDrain
  <1>2. Surroundings'
    BY SurroundingsKept DEF PartialDrain
  <1> QED
    BY <1>1, <1>2 DEF IInv

\* A submission of a checkpoint keeps it.
LEMMA SubmissionStep ==
  ASSUME IInv, NEW f \in Filters, NEW g \in DOMAIN session[f], NEW cp \in Checkpoints,
         NEW drain \in BOOLEAN, apply_submission(f, g, cp, drain)
  PROVE  IInv'
  <1> DEFINE x == session[f][g]
             id == x.request
             r == requests[id]
             d == Drained(x, cp, drain)
             y == [d EXCEPT !.seal = cp]
             sealed == Put(session, f, g, y)
  <1>1. /\ x.status # "active" /\ x.fence = NoCheckpoint
        /\ drain_shape(x, cp, drain) /\ verify_submission_at(d, cp)
    BY DEF apply_submission, verify_closing_certificate
  <1>2. Settled(x) /\ (g < Len(session[f]) => EndOf(x) # NoCheckpoint)
    BY PlaceOf
  <1>3. /\ Settled(d) /\ Settled(y)
        /\ d.status = x.status /\ d.request = x.request /\ d.base = x.base
        /\ y.status = x.status /\ y.request = x.request /\ y.base = x.base
        /\ EndOf(x) # NoCheckpoint => Executed(d) = Executed(x) /\ Executed(y) = Executed(x)
    BY <1>1, <1>2, SubmissionHolds
  <1>4. /\ g < Len(session[f]) => Executed(d) = Executed(x)
        /\ g < Len(session[f]) => Executed(y) = Executed(x)
    BY <1>2, <1>3
  <1>5. Registry(session, requests, reserved)
    BY DEF IInv
  <1>6. /\ id \in DOMAIN requests /\ r \in RequestRecords
        /\ \A h \in DOMAIN r.targets : r.targets[h] \in SUBSET Provers
    BY <1>1, RequestOfSession, RequestParts
  <1>7. /\ IF r.activated
           THEN session' = Put(session, f, g, d) /\ UNCHANGED requests
           ELSE IF membership_request(r, f)
           THEN session' = sealed /\ UNCHANGED requests
           ELSE /\ session' = activate(sealed, id, r, r.targets)
                /\ requests' = MarkActivated(sealed, id, r)
        /\ UNCHANGED <<grid, reserved, pending, people, phase, stage, proposed, budget>>
    BY DEF apply_submission, Put
  <1> HIDE DEF d, y
  <1>8. Registry(Put(session, f, g, d), requests, reserved)
    BY <1>3, <1>4, <1>5, UpdateHolds
  <1>9. Registry(sealed, requests, reserved)
    BY <1>3, <1>4, <1>5, UpdateHolds
  <1> HIDE DEF sealed, id
  <1>10. Registry(activate(sealed, id, r, r.targets), MarkActivated(sealed, id, r), reserved)
    BY <1>6, <1>9, AttemptHolds
  <1>11. Registry(session, requests, reserved)' /\ Len(requests') = Len(requests)
    <2>1. CASE requests' = requests
      BY <1>7, <1>8, <1>9, <1>10, <2>1
    <2>2. CASE requests' # requests
      <3>1. /\ session' = activate(sealed, id, r, r.targets)
            /\ requests' = MarkActivated(sealed, id, r) /\ reserved' = reserved
        BY <1>7, <2>2
      <3>2. requests \in Seq(RequestRecords)
        BY <1>5 DEF Registry
      <3>3. requests' \in {requests, Done(requests, id)}
        BY <1>6, <3>1, <3>2, MarkParts
      <3>4. Len(requests') = Len(requests)
        BY <1>6, <3>2, <3>3, DoneParts
      <3> QED
        BY <1>10, <3>1, <3>4
    <2> QED
      BY <2>1, <2>2
  <1>12. Surroundings'
    BY <1>7, <1>11, SurroundingsKept
  <1> QED
    BY <1>11, <1>12 DEF IInv

\* The messages that touch no record.
LEMMA ProposeStep ==
  ASSUME IInv, NEW kind \in Kinds, put_pending_shard_change(kind)
  PROVE  IInv'
  <1>1. UNCHANGED <<grid, session, requests, reserved, alloc, unseated, phase>>
    BY DEF put_pending_shard_change, records, people
  <1>2. requests \in Seq(RequestRecords)
    BY DEF IInv, Registry
  <1>3. /\ [number |-> proposed + 1, kind |-> kind, wait |-> 2, request |-> 0]
             \in Changes(Len(requests))
        /\ proposed + 1 \in Nat
    BY <1>2 DEF IInv, Surroundings, Changes
  <1>4. pending' \subseteq Changes(Len(requests)) /\ proposed' \in Nat
    BY <1>3 DEF IInv, Surroundings, put_pending_shard_change
  <1> QED
    BY <1>1, <1>4 DEF IInv, Surroundings

\* A step of one prover on one shard: it joins, confirms, leaves, or loses or
\* regains its seat.
Moves(p, f) == Join(p, f) \/ Confirm(p, f) \/ Leave(p, f) \/ Seating(p, f)

\* It leaves the records and the changes alone.
LEMMA MovesFrame ==
  ASSUME NEW p, NEW f, Moves(p, f)
  PROVE  UNCHANGED <<grid, session, requests, reserved, pending, phase, stage, proposed>>
  BY DEF Moves, Join, Confirm, Leave, Seating, MoveTo, records

\* It keeps the invariant.
LEMMA PeopleStep ==
  ASSUME IInv, NEW p \in Provers, NEW f \in Filters, Moves(p, f)
  PROVE  IInv'
  <1>1. UNCHANGED <<grid, session, requests, reserved, pending, phase, proposed>>
    BY MovesFrame
  <1>2. alloc \in [Filters -> [Provers -> Stages]] /\ unseated \in [Filters -> SUBSET Provers]
    BY DEF IInv, Surroundings
  <1>3. ASSUME NEW to \in Stages, MoveTo(f, p, to)
        PROVE  alloc' \in [Filters -> [Provers -> Stages]] /\ unseated' = unseated
    BY <1>2, <1>3 DEF MoveTo
  <1>4. alloc' \in [Filters -> [Provers -> Stages]] /\ unseated' \in [Filters -> SUBSET Provers]
    <2>1. CASE Join(p, f) \/ Confirm(p, f) \/ Leave(p, f)
      BY <1>2, <1>3, <2>1 DEF Join, Confirm, Leave, Stages
    <2>2. CASE Seating(p, f)
      BY <1>2, <2>2 DEF Seating
    <2> QED
      BY <2>1, <2>2 DEF Moves
  <1> QED
    BY <1>1, <1>4 DEF IInv, Surroundings

----------------------------------------------------------------------------
(* The pass                                                                *)

\* A committee is of provers.
LEMMA DesiredType ==
  ASSUME NEW f
  PROVE  desired_members(f) \subseteq Provers
  BY DEF desired_members, active_on_filter, Staged

\* A request and its parts.
Made(r, sources, vacant, targets) ==
  /\ r \in RequestRecords /\ r.activated = FALSE
  /\ r.sources = {<<f, Len(session[f])>> : f \in sources}
  /\ r.targets = targets /\ r.vacant = vacant
  /\ \A f \in DOMAIN targets : r.generations[f] = Len(session[f]) + 1

Committee(targets) == \E T \in SUBSET Filters : targets \in [T -> SUBSET Provers]

\* A new request names the live sessions of its sources.
LEMMA RequestOfParts ==
  ASSUME session \in [Filters -> Seq(SessionRecords)], NEW sources \in SUBSET Filters,
         NEW vacant \in SUBSET Filters, NEW targets, Committee(targets)
  PROVE  Made(RequestOf(sources, vacant, targets), sources, vacant, targets)
  <1> DEFINE r == RequestOf(sources, vacant, targets)
  <1>0. PICK T \in SUBSET Filters : targets \in [T -> SUBSET Provers]
    BY DEF Committee
  <1>1. /\ {<<f, Len(session[f])>> : f \in sources} \in SUBSET (Filters \X Nat)
        /\ targets \in UNION {[S -> SUBSET Provers] : S \in SUBSET Filters}
    BY <1>0
  <1>2. [f \in T |-> Len(session[f]) + 1] \in UNION {[S -> Nat] : S \in SUBSET Filters}
    <2>1. [f \in T |-> Len(session[f]) + 1] \in [T -> Nat]
      OBVIOUS
    <2> QED
      BY <2>1
  <1>3. DOMAIN targets = T
    BY <1>0
  <1>4. r \in RequestRecords
    BY <1>1, <1>2, <1>3 DEF RequestOf, RequestRecords
  <1> QED
    BY <1>3, <1>4 DEF RequestOf, Made

\* The head of a shard and its request.
LEMMA HeadOf ==
  ASSUME IInv, NEW f \in Filters, HasHead(f)
  PROVE  /\ Len(session[f]) \in DOMAIN session[f] /\ session[f] \in Seq(SessionRecords)
         /\ Settled(head(f))
         /\ head(f).status # "active" => /\ head(f).request \in DOMAIN requests
                                         /\ RequestFor(f) \in RequestRecords
  <1>1. session[f] \in Seq(SessionRecords) /\ session[f] # <<>>
    BY DEF IInv, Registry, HasHead
  <1>2. Len(session[f]) \in DOMAIN session[f]
    BY <1>1
  <1> QED
    BY <1>1, <1>2, PlaceOf, RequestOfSession DEF head, RequestFor

\* A new request is made for sources whose head sessions are active.
LEMMA ScheduleStep ==
  ASSUME IInv, NEW sources \in SUBSET Filters, NEW vacant \in SUBSET Filters,
         NEW targets, Committee(targets),
         NEW r, r = RequestOf(sources, vacant, targets),
         \A f \in sources : HasHead(f) /\ head(f).status = "active",
         \A f \in DOMAIN targets :
           \/ f \in sources
           \/ ~is_reserved(f) /\ (HasHead(f) => head(f).status = "closed")
  PROVE  /\ Made(r, sources, vacant, targets)
         /\ Registry(Asked(session, r, Len(requests) + 1), Append(requests, r),
                     Reserved(reserved, r, Len(requests) + 1))
         /\ reserve(Len(requests) + 1, targets) = Reserved(reserved, r, Len(requests) + 1)
         /\ Len(Append(requests, r)) = Len(requests) + 1 /\ Len(requests) \in Nat
  <1>1. /\ Registry(session, requests, reserved) /\ session \in [Filters -> Seq(SessionRecords)]
        /\ requests \in Seq(RequestRecords)
    BY DEF IInv, Registry
  <1>2. Made(r, sources, vacant, targets)
    BY <1>1, RequestOfParts
  <1>3. /\ r \in RequestRecords /\ ~r.activated
        /\ r.sources = {<<f, Len(session[f])>> : f \in sources}
        /\ r.targets = targets
        /\ \A f \in DOMAIN r.targets : r.generations[f] = Len(session[f]) + 1
    BY <1>2 DEF Made
  <1>4. /\ \A f \in sources : session[f] # <<>> /\ session[f][Len(session[f])].status = "active"
        /\ \A f \in DOMAIN r.targets :
             /\ r.generations[f] = Len(session[f]) + 1
             /\ \/ f \in sources
                \/ /\ session[f] # <<>> => session[f][Len(session[f])].status = "closed"
                   /\ reserved[f] = 0 \/ requests[reserved[f]].activated
    BY <1>3 DEF HasHead, head, is_reserved
  <1>5. reserve(Len(requests) + 1, targets) = Reserved(reserved, r, Len(requests) + 1)
    BY <1>3 DEF reserve, Reserved
  <1>6. Registry(Asked(session, r, Len(requests) + 1), Append(requests, r),
                 Reserved(reserved, r, Len(requests) + 1))
    BY <1>1, <1>3, <1>4, ScheduleHolds
  <1> QED
    BY <1>1, <1>2, <1>3, <1>5, <1>6

\* Dropping a stale change keeps it.
LEMMA ConsumeStep ==
  ASSUME IInv, NEW c \in pending, ConsumeStale(c)
  PROVE  IInv'
  BY DEF IInv, Surroundings, ConsumeStale, Consume, records, people

\* The committees a change may seat.
LEMMA CommitteesType ==
  ASSUME IInv, NEW c \in pending, NEW targets \in Committees(c)
  PROVE  /\ New(c.kind) \subseteq Filters /\ Old(c.kind) \subseteq Filters
         /\ targets \in [New(c.kind) -> SUBSET Provers]
  <1>1. c.kind \in Kinds
    BY DEF IInv, Surroundings, Changes
  <1>2. Old(c.kind) \subseteq Filters /\ New(c.kind) \subseteq Filters
    BY <1>1 DEF Old, New, Filters, Kinds
  <1>3. Movers(c) \subseteq Provers
    BY DEF Movers, active_on_filter, Staged
  <1>4. CASE c.kind = "merge"
    <2>1. targets = [f \in {Parent} |-> Movers(c)] /\ New(c.kind) = {Parent}
      BY <1>4 DEF Committees, New
    <2> QED
      BY <1>2, <1>3, <2>1
  <1>5. CASE c.kind # "merge"
    <2>1. PICK a \in Spread(Movers(c)) : targets = [f \in Kids |-> {p \in Movers(c) : a[p] = f}]
      BY <1>5 DEF Committees
    <2>2. New(c.kind) = Kids
      BY <1>1, <1>5 DEF New, Kinds
    <2> QED
      BY <1>2, <1>3, <2>1, <2>2
  <1> QED
    BY <1>2, <1>4, <1>5

\* Scheduling a change behind its sources keeps it.
LEMMA GateScheduleStep ==
  ASSUME IInv, NEW c \in pending, GateSchedule(c)
  PROVE  IInv'
  <1>1. PICK targets \in Committees(c) :
          LET id == Len(requests) + 1
              r == RequestOf(SourcesOf(c), Old(c.kind) \ SourcesOf(c), targets)
          IN  /\ requests' = Append(requests, r)
              /\ session' = set_status(session, r.sources, "sealing", id)
              /\ reserved' = reserve(id, targets)
              /\ pending' = (pending \ {c}) \cup {[c EXCEPT !.request = id]}
    BY DEF GateSchedule
  <1> DEFINE vacant == Old(c.kind) \ SourcesOf(c)
             r == RequestOf(SourcesOf(c), vacant, targets)
  <1>2. /\ New(c.kind) \subseteq Filters /\ Old(c.kind) \subseteq Filters
        /\ targets \in [New(c.kind) -> SUBSET Provers]
    BY CommitteesType
  <1>3. SourcesOf(c) \in SUBSET Filters /\ vacant \in SUBSET Filters /\ Committee(targets)
    BY <1>2 DEF SourcesOf, Committee
  <1>4. \A f \in SourcesOf(c) : HasHead(f) /\ head(f).status = "active"
    BY DEF GateSchedule, GateSchedules, Schedulable, SourcesOf
  <1>5. \A f \in DOMAIN targets : ~is_reserved(f) /\ (HasHead(f) => head(f).status = "closed")
    BY <1>2 DEF GateSchedule, GateSchedules
  <1>6. /\ Registry(Asked(session, r, Len(requests) + 1), Append(requests, r),
                    Reserved(reserved, r, Len(requests) + 1))
        /\ reserve(Len(requests) + 1, targets) = Reserved(reserved, r, Len(requests) + 1)
        /\ Len(Append(requests, r)) = Len(requests) + 1 /\ Len(requests) \in Nat
    BY <1>3, <1>4, <1>5, ScheduleStep
  <1>7. Registry(session, requests, reserved)' /\ Len(requests') = Len(requests) + 1
    BY <1>1, <1>6 DEF Asked
  <1>10. pending' \subseteq Changes(Len(requests'))
    <2>1. pending \subseteq Changes(Len(requests))
      BY DEF IInv, Surroundings
    <2>2. pending \subseteq Changes(Len(requests'))
      BY <1>6, <1>7, <2>1, ChangesGrow
    <2>3. [c EXCEPT !.request = Len(requests) + 1] \in Changes(Len(requests'))
      BY <1>6, <1>7, <2>2 DEF Changes
    <2> QED
      BY <1>1, <2>2, <2>3
  <1>11. Surroundings'
    BY <1>10 DEF IInv, Surroundings, GateSchedule, people
  <1> QED
    BY <1>7, <1>11 DEF IInv

\* Applying a change at once keeps it.
LEMMA ApplyStep ==
  ASSUME IInv, NEW c \in pending, Apply(c)
  PROVE  IInv'
  <1>1. c.kind \in Kinds /\ alloc \in [Filters -> [Provers -> Stages]] /\ Parent \in Filters
    BY DEF IInv, Surroundings, Changes, Filters
  <1>2. grid' \subseteq Filters
    BY <1>1 DEF IInv, Surroundings, Apply, Old, New, Filters, Kinds
  <1>3. alloc' \in [Filters -> [Provers -> Stages]]
    <2>1. CASE c.kind = "merge"
      <3>1. PICK to \in [Provers -> Stages] :
              alloc' = [f \in Filters |-> [p \in Provers |-> IF f = Parent THEN to[p] ELSE "none"]]
        BY <2>1 DEF Apply
      <3> QED
        BY <3>1 DEF Stages
    <2>2. CASE c.kind = "split"
      <3>1. PICK a \in [all_on_filter(Parent) -> Leaves] :
              alloc' = [f \in Filters |-> [p \in Provers |->
                  IF f = Parent THEN "none"
                  ELSE IF p \in all_on_filter(Parent) /\ a[p] = f THEN alloc[Parent][p]
                  ELSE alloc[f][p]]]
        BY <2>2 DEF Apply
      <3> QED
        BY <1>1, <3>1 DEF Stages
    <2> QED
      BY <1>1, <2>1, <2>2 DEF Kinds
  <1>4. /\ pending' \subseteq pending
        /\ UNCHANGED <<session, requests, reserved, unseated, phase, proposed>>
    BY DEF Apply, Consume, records
  <1> QED
    BY <1>2, <1>3, <1>4 DEF IInv, Surroundings

\* A fence on the head session of a shard.
LEMMA FencedHolds ==
  ASSUME NEW ses, NEW reqs, NEW res, Registry(ses, reqs, res),
         NEW f \in Filters, ses[f] # <<>>, ses[f][Len(ses[f])].status = "sealing",
         EndOf(ses[f][Len(ses[f])]) = NoCheckpoint
  PROVE  Registry(Fenced(ses, f), reqs, res)
  <1> DEFINE g == Len(ses[f])
             x == ses[f][g]
             y == [x EXCEPT !.fence = write_fence(x)]
  <1>1. g \in DOMAIN ses[f]
    BY DEF Registry
  <1>2. Settled(x)
    BY <1>1 DEF Registry, Placed
  <1>3. Settled(y) /\ y.status = x.status /\ y.request = x.request /\ y.base = x.base
    BY <1>2, FenceHolds
  <1>4. Fenced(ses, f) = Put(ses, f, g, y)
    BY DEF Fenced, Put
  <1>5. ~(g < Len(ses[f]))
    BY <1>1 DEF Registry
  <1> HIDE DEF y
  <1>6. Registry(Put(ses, f, g, y), reqs, res)
    BY <1>1, <1>3, <1>5, UpdateHolds
  <1> QED
    BY <1>4, <1>6

\* Activating a request whose sources have ended keeps the registry.
LEMMA ActivatedHolds ==
  ASSUME NEW ses, NEW reqs, NEW res, Registry(ses, reqs, res),
         NEW id \in DOMAIN reqs, Activates(ses, id, reqs[id]),
         NEW seated, DOMAIN seated \subseteq DOMAIN reqs[id].targets,
         \A f \in DOMAIN seated : seated[f] \in SUBSET Provers
  PROVE  Registry(activate(ses, id, reqs[id], seated), Done(reqs, id), res)
  BY ActivateHolds DEF Activates, activate

\* Appending a request already done is appending and marking it.
LEMMA AppendedLast ==
  ASSUME NEW reqs \in Seq(RequestRecords), NEW r \in RequestRecords,
         NEW done \in RequestRecords
  PROVE  Append(reqs, done) = [Append(reqs, r) EXCEPT ![Len(reqs) + 1] = done]
  <1> DEFINE a == Append(reqs, done)
             b == [Append(reqs, r) EXCEPT ![Len(reqs) + 1] = done]
  <1>1. a \in Seq(RequestRecords) /\ Len(a) = Len(reqs) + 1
    OBVIOUS
  <1>2. b \in Seq(RequestRecords) /\ Len(b) = Len(reqs) + 1
    OBVIOUS
  <1>3. ASSUME NEW i \in 1..Len(reqs) + 1 PROVE a[i] = b[i]
    <2>1. CASE i = Len(reqs) + 1
      BY <2>1
    <2>2. CASE i # Len(reqs) + 1
      <3>1. i \in 1..Len(reqs) /\ i \in DOMAIN Append(reqs, r)
        BY <2>2
      <3>2. a[i] = reqs[i] /\ Append(reqs, r)[i] = reqs[i]
        BY <3>1
      <3> QED
        BY <2>2, <3>1, <3>2
    <2> QED
      BY <2>1, <2>2
  <1> HIDE DEF a, b
  <1> QED
    BY <1>1, <1>2, <1>3, SeqEqual DEF a, b

\* Fencing a session early keeps the invariant.
LEMMA FenceEarlyStep ==
  ASSUME IInv, NEW f \in grid, NEW committee \in SUBSET desired_members(f),
         fence_early(f, committee)
  PROVE  IInv'
  <1> DEFINE seated == [g \in {f} |-> committee]
  <1>1. f \in Filters /\ HasHead(f) /\ committee \in SUBSET Provers
    BY DesiredType DEF IInv, Surroundings, fence_early
  <1>2. /\ Len(session[f]) \in DOMAIN session[f] /\ session[f] \in Seq(SessionRecords)
        /\ Settled(head(f))
        /\ head(f).status # "active" => /\ head(f).request \in DOMAIN requests
                                        /\ RequestFor(f) \in RequestRecords
    BY <1>1, HeadOf
  <1>3. Registry(session, requests, reserved) /\ requests \in Seq(RequestRecords)
    BY DEF IInv, Registry
  <1>4. /\ DOMAIN seated = {f} /\ \A g \in DOMAIN seated : seated[g] \in SUBSET Provers
        /\ Committee(seated)
    BY <1>1 DEF Committee
  <1>5. ASSUME Closing(f)
        PROVE  Registry(session, requests, reserved)' /\ Len(requests') = Len(requests)
    <2> DEFINE id == head(f).request
               ses == Fenced(session, f)
    <2>1. /\ EndOf(head(f)) = NoCheckpoint
          /\ membership_request(requests[id], f)
          /\ Activates(ses, id, requests[id])
          /\ session' = activate(ses, id, requests[id], seated)
          /\ requests' = [requests EXCEPT ![id].activated = TRUE]
          /\ reserved' = reserved
      BY <1>5 DEF fence_early, RequestFor, Closing
    <2>2. id \in DOMAIN requests /\ head(f).status = "sealing"
      BY <1>2, <1>5 DEF Closing
    <2>3. Registry(ses, requests, reserved)
      BY <1>1, <1>3, <2>1, <2>2, FencedHolds DEF HasHead, head
    <2>4. DOMAIN seated \subseteq DOMAIN requests[id].targets
      BY <1>4, <2>1 DEF membership_request
    <2>5. requests' = Done(requests, id)
      BY <2>1 DEF Done
    <2> HIDE DEF id, ses
    <2>6. Registry(activate(ses, id, requests[id], seated), Done(requests, id), reserved)
      BY <1>4, <2>1, <2>2, <2>3, <2>4, ActivatedHolds
    <2>7. Len(requests') = Len(requests)
      BY <1>3, <2>2, <2>5, DoneParts
    <2> QED
      BY <1>3, <2>1, <2>5, <2>6, <2>7
  <1>6. ASSUME ~Closing(f)
        PROVE  Registry(session, requests, reserved)' /\ Len(requests') = Len(requests) + 1
    <2> DEFINE id == Len(requests) + 1
               r == RequestOf({f}, {}, seated)
               asked == Asked(session, r, id)
               ses == Fenced(asked, f)
               reqs == Append(requests, r)
    <2>1. /\ head(f).status = "active"
          /\ Activates(ses, id, r)
          /\ session' = activate(ses, id, r, seated)
          /\ requests' = Append(requests, [r EXCEPT !.activated = TRUE])
          /\ reserved' = reserve(id, r.targets)
      BY <1>6 DEF fence_early, Asked
    <2>2. \A g \in {f} : HasHead(g) /\ head(g).status = "active"
      BY <1>1, <2>1
    <2>3. {f} \in SUBSET Filters /\ {} \in SUBSET Filters
      BY <1>1
    <2> HIDE DEF seated
    <2>4. /\ Made(r, {f}, {}, seated)
          /\ Registry(asked, reqs, Reserved(reserved, r, id))
          /\ reserve(id, seated) = Reserved(reserved, r, id)
          /\ Len(reqs) = id /\ Len(requests) \in Nat
      BY <1>4, <2>2, <2>3, ScheduleStep
    <2>5. /\ r \in RequestRecords /\ r.activated = FALSE /\ r.targets = seated
          /\ <<f, Len(session[f])>> \in r.sources
      BY <2>4 DEF Made
    <2> HIDE DEF r
    <2>6. Restates(asked, session, r.sources, "sealing", id)
      <3>1. "sealing" \in Statuses
        BY DEF Statuses
      <3>2. session \in [Filters -> Seq(SessionRecords)] /\ id \in Nat
        BY <1>3, <2>4 DEF Registry
      <3> HIDE DEF id
      <3>3. Restates(set_status(session, r.sources, "sealing", id), session, r.sources, "sealing", id)
        BY <3>1, <3>2, SetStatusAt, Zenon
      <3> QED
        BY <3>3 DEF Asked
    <2> HIDE DEF asked
    <2>7. /\ asked[f] # <<>> /\ asked[f][Len(asked[f])].status = "sealing"
          /\ EndOf(asked[f][Len(asked[f])]) = NoCheckpoint
      <3>1. Len(asked[f]) = Len(session[f]) /\ asked[f] \in Seq(SessionRecords)
        BY <1>1, <2>6 DEF Restates
      <3>2. /\ asked[f][Len(session[f])].status = "sealing"
            /\ EndOf(asked[f][Len(session[f])]) = EndOf(head(f))
        BY <1>1, <1>2, <2>5, <2>6 DEF Restates, head
      <3>3. EndOf(head(f)) = NoCheckpoint
        BY <1>2, <2>1 DEF Settled
      <3>4. asked[f] # <<>>
        BY <1>2, <3>1
      <3> QED
        BY <3>1, <3>2, <3>3, <3>4
    <2>8. Registry(ses, reqs, Reserved(reserved, r, id))
      BY <1>1, <2>4, <2>7, FencedHolds
    <2>9. id \in DOMAIN reqs /\ reqs[id] = r
      BY <1>3, <2>4, <2>5
    <2>10. requests' = Done(reqs, id)
      <3> DEFINE done == [r EXCEPT !.activated = TRUE]
      <3>1. done \in RequestRecords /\ requests' = Append(requests, done)
        BY <2>1, <2>5 DEF RequestRecords
      <3>2. Done(reqs, id) = [reqs EXCEPT ![id] = done]
        BY <2>9 DEF Done
      <3> HIDE DEF done
      <3> QED
        BY <1>3, <2>5, <3>1, <3>2, AppendedLast
    <2>12. DOMAIN seated \subseteq DOMAIN reqs[id].targets
      BY <2>5, <2>9
    <2>14. reserved' = Reserved(reserved, r, id)
      BY <2>1, <2>4, <2>5
    <2>15. Len(requests') = Len(requests) + 1
      BY <1>3, <2>1, <2>4
    <2> HIDE DEF ses, reqs, id
    <2>13. Registry(activate(ses, id, reqs[id], seated), Done(reqs, id), Reserved(reserved, r, id))
      BY <1>4, <2>1, <2>8, <2>9, <2>12, ActivatedHolds
    <2> QED
      BY <1>3, <2>1, <2>4, <2>9, <2>10, <2>13, <2>14, <2>15
  <1>7. Surroundings'
    <2>1. /\ UNCHANGED <<grid, pending, alloc, phase, proposed>>
          /\ unseated' = [unseated EXCEPT ![f] = @ \cup (desired_members(f) \ committee)]
      BY DEF fence_early
    <2>2. unseated' \in [Filters -> SUBSET Provers]
      BY <1>1, <2>1, DesiredType DEF IInv, Surroundings
    <2>3. Len(requests) \in Nat /\ Len(requests') \in {Len(requests), Len(requests) + 1}
      BY <1>3, <1>5, <1>6
    <2>4. pending \subseteq Changes(Len(requests'))
      BY <2>3, ChangesGrow DEF IInv, Surroundings
    <2> QED
      BY <2>1, <2>2, <2>4 DEF IInv, Surroundings
  <1> QED
    BY <1>5, <1>6, <1>7 DEF IInv

\* The committees of a request's successors, as they are taken at the fence.
LEMMA FencedCommitteeType ==
  ASSUME IInv, NEW r \in RequestRecords
  PROVE  /\ DOMAIN fenced_committee(r) = DOMAIN r.targets
         /\ \A f \in DOMAIN fenced_committee(r) : fenced_committee(r)[f] \in SUBSET Provers
  <1>1. /\ DOMAIN r.targets \subseteq Filters
        /\ \A f \in DOMAIN r.targets : r.targets[f] \subseteq Provers
    BY RequestParts
  <1>2. \A f \in Filters : desired_members(f) \subseteq Provers
    BY DesiredType
  <1> QED
    BY <1>1, <1>2 DEF fenced_committee

\* A step that attempts to activate the request of a shard's closing session.
LEMMA SuccessorStep ==
  ASSUME IInv, NEW f \in Filters, Closing(f), NEW ses, Registry(ses, requests, reserved),
         session' = activate(ses, head(f).request, RequestFor(f), fenced_committee(RequestFor(f))),
         requests' = MarkActivated(ses, head(f).request, RequestFor(f)),
         UNCHANGED <<grid, reserved, pending, people, phase, proposed>>
  PROVE  IInv'
  <1> DEFINE id == head(f).request
  <1>1. id \in DOMAIN requests /\ RequestFor(f) = requests[id] /\ requests[id] \in RequestRecords
    BY HeadOf DEF Closing, RequestFor
  <1>2. requests \in Seq(RequestRecords)
    BY DEF IInv, Registry
  <1> HIDE DEF id
  <1>3. Registry(activate(ses, id, requests[id], fenced_committee(requests[id])),
                 MarkActivated(ses, id, requests[id]), reserved)
    BY <1>1, FencedCommitteeType, AttemptHolds
  <1>4. Registry(session, requests, reserved)'
    BY <1>1, <1>3 DEF id
  <1>5. MarkActivated(ses, id, requests[id]) \in {requests, Done(requests, id)}
    BY <1>1, <1>2, MarkParts
  <1>6. Len(MarkActivated(ses, id, requests[id])) = Len(requests)
    BY <1>1, <1>2, <1>5, DoneParts
  <1>7. Surroundings'
    BY <1>1, <1>6, SurroundingsKept DEF id
  <1> QED
    BY <1>4, <1>7 DEF IInv

\* Activating the successors of sealed sources keeps it.
LEMMA SealedStep ==
  ASSUME IInv, NEW f \in grid, activate_sealed_successors(f)
  PROVE  IInv'
  <1>1. f \in Filters /\ Registry(session, requests, reserved)
    BY DEF IInv, Surroundings
  <1> QED
    BY <1>1, SuccessorStep DEF activate_sealed_successors, SealedSuccessorDue

\* Fencing stalled sources keeps it.
LEMMA StalledStep ==
  ASSUME IInv, NEW f \in grid, fence_stalled_sources(f)
  PROVE  IInv'
  <1>1. f \in Filters /\ Registry(session, requests, reserved)
    BY DEF IInv, Surroundings
  <1>2. Closing(f) /\ EndOf(head(f)) = NoCheckpoint
    BY DEF fence_stalled_sources, FenceDue
  <1>3. Registry(Fenced(session, f), requests, reserved)
    BY <1>1, <1>2, FencedHolds DEF Closing, HasHead, head
  <1> QED
    BY <1>1, <1>2, <1>3, SuccessorStep DEF fence_stalled_sources

\* Initializing a shard's first session keeps it.
LEMMA InitializeStep ==
  ASSUME IInv, NEW f \in grid, initialize(f)
  PROVE  IInv'
  <1> DEFINE seated == [g \in Filters |-> desired_members(g)]
  <1>1. f \in Filters /\ Registry(session, requests, reserved)
    BY DEF IInv, Surroundings
  <1>2. session[f] = <<>> /\ (reserved[f] = 0 \/ requests[reserved[f]].activated)
    BY DEF initialize, FirstSessionDue, HasHead, is_reserved
  <1>3. seated[f] = desired_members(f) /\ seated[f] \in SUBSET Provers
    BY <1>1, DesiredType
  <1>4. session' = Grown(session, {f}, seated)
    <2>1. session' = [session EXCEPT ![f] = <<NewSession(0, desired_members(f))>>]
      BY DEF initialize
    <2>2. session \in [Filters -> Seq(SessionRecords)]
      BY <1>1 DEF Registry
    <2>3. Append(session[f], NewSession(0, desired_members(f))) =
            <<NewSession(0, desired_members(f))>>
      BY <1>2
    <2> QED
      BY <1>1, <1>2, <1>3, <2>1, <2>2, <2>3 DEF Grown
  <1> HIDE DEF seated
  <1>5. Registry(Grown(session, {f}, seated), requests, reserved)
    BY <1>1, <1>2, <1>3, GrownHolds
  <1>6. Surroundings'
    BY SurroundingsKept DEF initialize
  <1> QED
    BY <1>4, <1>5, <1>6 DEF IInv, initialize

\* Reconciling the membership keeps it.
LEMMA ReconcileStep ==
  ASSUME IInv, NEW f \in grid, reconcile_membership(f)
  PROVE  IInv'
  <1> DEFINE seated == [g \in {f} |-> desired_members(f)]
             id == Len(requests) + 1
             r == RequestOf({f}, {}, seated)
  <1>1. f \in Filters /\ {f} \in SUBSET Filters /\ {} \in SUBSET Filters
    BY DEF IInv, Surroundings
  <1>2. Committee(seated) /\ DOMAIN seated = {f}
    BY <1>1, DesiredType DEF Committee
  <1>3. /\ requests' = Append(requests, r)
        /\ session' = Asked(session, r, id)
        /\ reserved' = reserve(id, r.targets)
        /\ UNCHANGED <<grid, pending, people, phase, proposed>>
    BY DEF reconcile_membership, Asked
  <1>4. \A g \in {f} : HasHead(g) /\ head(g).status = "active"
    BY DEF reconcile_membership, MembershipDue
  <1> HIDE DEF seated
  <1>5. /\ Made(r, {f}, {}, seated)
        /\ Registry(Asked(session, r, id), Append(requests, r), Reserved(reserved, r, id))
        /\ reserve(id, seated) = Reserved(reserved, r, id)
        /\ Len(Append(requests, r)) = id /\ Len(requests) \in Nat
    BY <1>1, <1>2, <1>4, ScheduleStep
  <1>6. r.targets = seated
    BY <1>5 DEF Made
  <1>7. Registry(session, requests, reserved)'
    BY <1>3, <1>5, <1>6
  <1>8. pending \subseteq Changes(Len(requests'))
    BY <1>3, <1>5, ChangesGrow DEF IInv, Surroundings
  <1>9. Surroundings'
    BY <1>3, <1>8 DEF IInv, Surroundings, people
  <1> QED
    BY <1>7, <1>9 DEF IInv

\* The next GLOBAL frame keeps it.
LEMMA NextFrameStep ==
  ASSUME IInv, NextFrame
  PROVE  IInv'
  <1>1. Registry(session, requests, reserved) /\ requests \in Seq(RequestRecords)
    BY DEF IInv, Registry
  <1>2. /\ requests' = [i \in DOMAIN requests |->
              IF fence_due(requests[i]) THEN requests[i] ELSE [requests[i] EXCEPT !.age = @ + 1]]
        /\ UNCHANGED <<grid, session, reserved, unseated, proposed>>
    BY DEF NextFrame
  <1>3. ASSUME NEW i \in DOMAIN requests
        PROVE  /\ requests'[i] \in RequestRecords
               /\ requests'[i].sources = requests[i].sources
               /\ requests'[i].targets = requests[i].targets
               /\ requests'[i].generations = requests[i].generations
               /\ requests'[i].activated = requests[i].activated
    <2>1. requests[i] \in RequestRecords
      BY <1>1
    <2>2. requests'[i] \in {requests[i], [requests[i] EXCEPT !.age = requests[i].age + 1]}
      BY <1>2
    <2> QED
      BY <2>1, <2>2 DEF RequestRecords
  <1>4. /\ requests' \in Seq(RequestRecords) /\ Len(requests') = Len(requests)
    <2>1. DOMAIN requests = 1..Len(requests) /\ Len(requests) \in Nat
      BY <1>1
    <2>2. requests' \in [DOMAIN requests -> RequestRecords]
      BY <1>2, <1>3
    <2> QED
      BY <2>1, <2>2
  <1>5. Registry(session, requests', reserved)
    BY <1>1, <1>3, <1>4, AgeHolds
  <1>6. pending' \subseteq Changes(Len(requests))
    <2> SUFFICES ASSUME NEW d \in pending' PROVE d \in Changes(Len(requests))
      OBVIOUS
    <2>1. PICK c \in pending :
            d = IF (phase + 1) % EpochFrames = 0 /\ c.wait > 0
                THEN [c EXCEPT !.wait = @ - 1] ELSE c
      BY DEF NextFrame
    <2>2. c \in Changes(Len(requests))
      BY DEF IInv, Surroundings
    <2> QED
      BY <2>1, <2>2 DEF Changes
  <1>7. phase' \in 0..EpochFrames - 1
    BY FrameAssumption DEF IInv, Surroundings, NextFrame
  <1>8. alloc' \in [Filters -> [Provers -> Stages]]
    <2>1. alloc \in [Filters -> [Provers -> Stages]]
      BY DEF IInv, Surroundings
    <2>2. \A x \in Stages : effective_status[x] \in Stages
      BY DEF Stages, effective_status
    <2>3. CASE alloc' = alloc
      BY <2>1, <2>3
    <2>4. CASE alloc' = [f \in Filters |-> [p \in Provers |-> effective_status[alloc[f][p]]]]
      BY <2>1, <2>2, <2>4
    <2> QED
      BY <2>3, <2>4 DEF NextFrame
  <1>9. Surroundings'
    BY <1>2, <1>4, <1>6, <1>7, <1>8 DEF IInv, Surroundings
  <1> QED
    BY <1>2, <1>5, <1>9 DEF IInv

----------------------------------------------------------------------------
(* The theorems                                                            *)

\* The initial state.
LEMMA InitHolds ==
  ASSUME Init
  PROVE  IInv
  <1>1. /\ session = [f \in Filters |-> <<>>] /\ requests = <<>>
        /\ reserved = [f \in Filters |-> 0] /\ pending = {}
    BY DEF Init
  <1>2. /\ session \in [Filters -> Seq(SessionRecords)] /\ requests \in Seq(RequestRecords)
        /\ Len(requests) = 0 /\ DOMAIN requests = {}
        /\ \A f \in Filters : DOMAIN session[f] = {}
    BY <1>1
  <1>3. reserved \in [Filters -> 0..Len(requests)]
    BY <1>1, <1>2
  <1>4. Registry(session, requests, reserved)
    BY <1>2, <1>3 DEF Registry
  <1>5. grid \subseteq Filters
    <2>1. budget \in Budget /\ grid \in budget.grids
      BY FrameAssumption DEF Init
    <2> QED
      BY <2>1 DEF Budget, Filters
  <1>6. alloc \in [Filters -> [Provers -> Stages]]
    <2>1. PICK a \in [grid -> SUBSET Provers] :
            alloc = [f \in Filters |-> [p \in Provers |->
                       IF f \in grid /\ p \in a[f] THEN "active" ELSE "none"]]
      BY DEF Init
    <2> QED
      BY <2>1 DEF Stages
  <1>7. Surroundings
    BY <1>1, <1>5, <1>6, FrameAssumption DEF Init, Surroundings
  <1> QED
    BY <1>4, <1>7 DEF IInv

\* Every step, and stuttering.
LEMMA StepHolds ==
  ASSUME IInv, [Next]_vars
  PROVE  IInv'
  <1>1. CASE UNCHANGED vars
    BY <1>1 DEF IInv, Surroundings, vars
  <1>2. CASE Messages
    <2>1. ASSUME NEW f \in Filters, NEW g \in DOMAIN session[f], NEW cp \in Checkpoints,
                 \/ FrameHeader(f, g, cp)
                 \/ \E last \in Checkpoints : PartialDrain(f, g, cp, last)
                 \/ \E drain \in BOOLEAN : apply_submission(f, g, cp, drain)
          PROVE  IInv'
      BY <2>1, FrameHeaderStep, PartialDrainStep, SubmissionStep
    <2>2. "split" \in Kinds /\ "merge" \in Kinds
      BY DEF Kinds
    <2> QED
      BY <1>2, <2>1, <2>2, ProposeStep, PeopleStep
      DEF Messages, Moves, invoke_shard_split, invoke_shard_merge
  <1>3. CASE Pass
    <2>1. ASSUME NEW c \in pending, ConsumeStale(c) \/ GateSchedule(c) \/ Apply(c)
          PROVE  IInv'
      BY <2>1, ConsumeStep, GateScheduleStep, ApplyStep
    <2>2. ASSUME NEW f \in grid,
                 NEW committee \in SUBSET desired_members(f) \ {{}, desired_members(f)},
                 fence_early(f, committee)
          PROVE  IInv'
      BY <2>2, FenceEarlyStep
    <2>3. ASSUME NEW f \in grid,
                 \/ activate_sealed_successors(f) \/ fence_stalled_sources(f)
                 \/ initialize(f) \/ reconcile_membership(f)
          PROVE  IInv'
      BY <2>3, SealedStep, StalledStep, InitializeStep, ReconcileStep
    <2>4. CASE NextStage
      BY <2>4 DEF NextStage, IInv, Surroundings, records, people
    <2>5. CASE NextFrame
      BY <2>5, NextFrameStep
    <2> QED
      BY <1>3, <2>1, <2>2, <2>3, <2>4, <2>5 DEF Pass
  <1> QED
    BY <1>1, <1>2, <1>3 DEF Next

\* Every frame GLOBAL executes keeps the registry's records consistent: sessions
\* with their requests, open requests with the targets they reserve, and ends
\* with the frames executed.
THEOREM Invariance == Spec => []IInv
  <1>1. Init => IInv
    BY InitHolds
  <1>2. IInv /\ [Next]_vars => IInv'
    BY StepHolds
  <1> QED
    BY <1>1, <1>2, PTL DEF Spec

\* Every record is of its kind, and a request's sources name it, closing until
\* it activates and closed from then on (schedule_with_vacant, activate_with).
THEOREM TypeSafe == Spec => []TypeOK
  <1>1. IInv => TypeOK
    <2> SUFFICES ASSUME IInv PROVE TypeOK
      OBVIOUS
    <2>1. /\ session \in [Filters -> Seq(SessionRecords)] /\ requests \in Seq(RequestRecords)
          /\ reserved \in [Filters -> 0..Len(requests)]
      BY DEF IInv, Registry
    <2>2. ASSUME NEW f \in Filters, NEW g \in DOMAIN session[f]
          PROVE  session[f][g] \in Sessions
      <3>1. Placed(session, requests, f, g) /\ Settled(session[f][g])
        BY PlaceOf
      <3>2. session[f][g] \in SessionRecords
        BY <3>1 DEF Settled
      <3>3. session[f][g].request \in 0..Len(requests)
        BY <2>1, <3>1 DEF Placed, Settled
      <3> QED
        BY <3>2, <3>3 DEF SessionRecords, Sessions, Ends, Statuses
    <2>3. ASSUME NEW i \in DOMAIN requests, NEW s \in requests[i].sources
          PROVE  /\ s[2] \in DOMAIN session[s[1]]
                 /\ session[s[1]][s[2]].request = i
                 /\ session[s[1]][s[2]].status =
                      (IF requests[i].activated THEN "closed" ELSE "sealing")
      <3>1. Asks(session, requests, i)
        BY DEF IInv, Registry
      <3>2. s \in Filters \X Nat
        BY <2>1, RequestParts
      <3>3. s[1] \in Filters /\ s[2] \in Nat /\ s = <<s[1], s[2]>>
        BY <3>2
      <3> QED
        BY <3>1, <3>3 DEF Asks
    <2>4. \A c \in pending : c.kind \in Kinds /\ c.wait \in 0..2 /\ c.request \in 0..Len(requests)
      BY DEF IInv, Surroundings, Changes
    <2> QED
      BY <2>1, <2>2, <2>3, <2>4 DEF TypeOK, IInv, Surroundings
  <1> QED
    BY <1>1, Invariance, PTL

\* Of a shard's sessions only the last can be live (activate_with closes the
\* previous one, or refuses).
THEOREM OneLiveSafe == Spec => []OneLivePerShard
  <1>1. IInv => OneLivePerShard
    BY PlaceOf DEF OneLivePerShard, Placed
  <1> QED
    BY <1>1, Invariance, PTL

\* Whatever a committee certifies, its session ends once, at the last frame
\* GLOBAL executed of it (verify_submission_at, write_fence, verify_with).
THEOREM EndsSafe == Spec => []EndsAtExecutedTip
  <1>1. IInv => EndsAtExecutedTip
    BY PlaceOf DEF EndsAtExecutedTip, Settled
  <1> QED
    BY <1>1, Invariance, PTL

\* A successor starts at the last frame executed of its predecessor, and that
\* frame never moves again (activate_with, closed_checkpoint).
THEOREM ContinuesSafe == Spec => []SuccessorContinues
  <1>1. IInv => SuccessorContinues
    BY PlaceOf DEF SuccessorContinues, Placed
  <1> QED
    BY <1>1, Invariance, PTL

\* An open request is never refused for a target that changed: its targets are
\* reserved for it, so their sessions are the ones it was made for.
THEOREM TargetsSafe == Spec => []TargetsHeld
  <1>1. IInv => TargetsHeld
    <2> SUFFICES ASSUME IInv, NEW i \in DOMAIN requests, ~requests[i].activated
                 PROVE  ~refused(session, requests[i])
      BY DEF TargetsHeld
    <2>1. Reserves(session, requests, reserved, i)
      BY DEF IInv, Registry
    <2> QED
      BY <2>1 DEF Reserves, refused
  <1> QED
    BY <1>1, Invariance, PTL

----------------------------------------------------------------------------
(* Two committees of one range only where a merge left a child out         *)

\* A change whose request has activated.
Passed(c) == c.request # 0 /\ requests[c.request].activated

\* A split waits for the parent's last session.
SplitHolds(c) ==
  LET r == requests[c.request]
  IN  /\ Parent \in grid /\ HasHead(Parent)
      /\ r.sources = {<<Parent, Len(session[Parent])>>}
      /\ DOMAIN r.targets = Kids

\* A merge waits for the last sessions of the children it did not record as
\* vacant, and no later request asks the parent to close.  It may be scheduled
\* over a split that is about to be applied.
MergeHolds(c) ==
  LET r == requests[c.request]
  IN  /\ Kids \ r.vacant # {}
      /\ \A k \in Kids \ r.vacant : HasHead(k)
      /\ r.sources = {<<k, Len(session[k])>> : k \in Kids \ r.vacant}
      /\ DOMAIN r.targets = {Parent}
      /\ \A j \in DOMAIN requests : j > c.request => Parent \notin Sources(requests[j])
      /\ \/ grid = Kids
         \/ stage = "gate" /\ ~r.activated /\ \E d \in pending : d.kind = "split" /\ Passed(d)

Linked(c) ==
  c.wait = 0 /\ (IF c.kind = "split" THEN SplitHolds(c) ELSE MergeHolds(c))

Gridded == grid \in {{Parent}, Kids}

Links == \A c \in pending : c.request # 0 => Linked(c)

\* A request is one change's, and only one merge waits.
OneEach ==
  \A c, d \in pending :
    /\ c.request # 0 /\ c.request = d.request => c = d
    /\ c.request # 0 /\ d.request # 0 /\ c.kind = "merge" /\ d.kind = "merge" => c = d

\* An open request is a membership change's or a pending change's.
Owned(i) ==
  \/ \E f \in Filters : membership_request(requests[i], f)
  \/ \E c \in pending : c.request = i

Owners == \A i \in DOMAIN requests : ~requests[i].activated => Owned(i)

\* A child a merge left out, while the children it did not are closed.
LeftOut(k) ==
  k \in Kids /\ MergedWithout(k) /\ \E s \in Kids : HasHead(s) /\ ~LiveAt(s)

\* A live session is on a registered shard, on one about to be, or on a child
\* left out.
Living ==
  \A f \in Filters : LiveAt(f) =>
    f \in grid \/ (\E c \in pending : f \in New(c.kind) /\ Passed(c)) \/ LeftOut(f)

\* A reservation is by a request that names the shard as a target.
Reservations ==
  \A f \in Filters : reserved[f] # 0 => f \in DOMAIN requests[reserved[f]].targets

TInv == Gridded /\ Links /\ OneEach /\ Owners /\ Living /\ Reservations

\* The last session of a shard is not closed.
LiveIn(ses, f) == ses[f] # <<>> /\ ses[f][Len(ses[f])].status # "closed"

\* Every shard has as many sessions, live only if they were.
Steady(new, ses) ==
  \A f \in Filters : Len(new[f]) = Len(ses[f]) /\ (LiveIn(new, f) => LiveIn(ses, f))

\* The seated shards have one more.
Grew(new, ses, seated) ==
  \A f \in Filters :
    IF f \in DOMAIN seated /\ seated[f] # {} THEN Len(new[f]) = Len(ses[f]) + 1
    ELSE Len(new[f]) = Len(ses[f]) /\ (LiveIn(new, f) => LiveIn(ses, f))

\* A shard has a session when it has had at least one.
LEMMA HeadCount ==
  ASSUME NEW ses \in [Filters -> Seq(SessionRecords)], NEW f \in Filters
  PROVE  Len(ses[f]) \in Nat /\ (ses[f] # <<>> <=> Len(ses[f]) # 0)
         /\ DOMAIN ses[f] = 1..Len(ses[f])
         /\ (ses[f] # <<>> => Len(ses[f]) \in DOMAIN ses[f])
  OBVIOUS

\* Replacing a session by one of the same status.
LEMMA PutSteady ==
  ASSUME NEW ses \in [Filters -> Seq(SessionRecords)], NEW f \in Filters,
         NEW g \in DOMAIN ses[f], NEW y \in SessionRecords, y.status = ses[f][g].status
  PROVE  Steady(Put(ses, f, g, y), ses)
  <1> DEFINE new == Put(ses, f, g, y)
  <1>1. ses[f] \in Seq(SessionRecords) /\ [ses[f] EXCEPT ![g] = y] \in Seq(SessionRecords)
    OBVIOUS
  <1>2. /\ new \in [Filters -> Seq(SessionRecords)]
        /\ \A h \in Filters : Len(new[h]) = Len(ses[h])
        /\ \A h \in Filters : h # f => new[h] = ses[h]
        /\ new[f][g] = y /\ \A k \in DOMAIN ses[f] : k # g => new[f][k] = ses[f][k]
    BY <1>1 DEF Put
  <1> HIDE DEF new
  <1>3. ASSUME NEW h \in Filters, LiveIn(new, h) PROVE LiveIn(ses, h)
    <2>1. ses[h] # <<>> /\ Len(ses[h]) \in DOMAIN ses[h]
      BY <1>2, <1>3, HeadCount DEF LiveIn
    <2> QED
      BY <1>2, <1>3, <2>1 DEF LiveIn
  <1> QED
    BY <1>2, <1>3 DEF Steady, new

\* Asking sessions to close, or closing them.
LEMMA StatusSteady ==
  ASSUME NEW ses \in [Filters -> Seq(SessionRecords)], NEW ids, NEW id \in Nat,
         NEW status \in Statuses,
         status = "closed" \/ \A f \in Filters : \A g \in DOMAIN ses[f] :
                                <<f, g>> \in ids => ses[f][g].status = "active"
  PROVE  /\ Steady(set_status(ses, ids, status, id), ses)
         /\ set_status(ses, ids, status, id) \in [Filters -> Seq(SessionRecords)]
  <1> DEFINE new == set_status(ses, ids, status, id)
  <1>1. Restates(new, ses, ids, status, id)
    BY SetStatusAt
  <1> HIDE DEF new
  <1>2. /\ new \in [Filters -> Seq(SessionRecords)]
        /\ \A f \in Filters : Len(new[f]) = Len(ses[f])
    BY <1>1 DEF Restates
  <1>3. ASSUME NEW f \in Filters, LiveIn(new, f) PROVE LiveIn(ses, f)
    <2>1. ses[f] # <<>> /\ Len(ses[f]) \in DOMAIN ses[f]
      BY <1>2, <1>3, HeadCount DEF LiveIn
    <2>2. CASE <<f, Len(ses[f])>> \in ids
      <3>1. new[f][Len(ses[f])].status = status
        BY <1>1, <2>1, <2>2 DEF Restates
      <3>2. ses[f][Len(ses[f])].status = "active"
        BY <1>2, <1>3, <2>1, <2>2, <3>1 DEF LiveIn
      <3> QED
        BY <2>1, <3>2 DEF LiveIn
    <2>3. CASE <<f, Len(ses[f])>> \notin ids
      <3>1. new[f][Len(ses[f])] = ses[f][Len(ses[f])]
        BY <1>1, <2>1, <2>3 DEF Restates
      <3> QED
        BY <1>2, <1>3, <2>1, <3>1 DEF LiveIn
    <2> QED
      BY <2>2, <2>3
  <1> QED
    BY <1>2, <1>3 DEF Steady, new

\* Activating a request.
LEMMA ActivateGrew ==
  ASSUME NEW ses \in [Filters -> Seq(SessionRecords)], NEW id \in Nat, NEW r, NEW seated
  PROVE  Grew(activate_with(ses, id, r, seated), ses, seated)
  <1> DEFINE closed == set_status(ses, r.sources, "closed", id)
             new == activate_with(ses, id, r, seated)
  <1>1. closed \in [Filters -> Seq(SessionRecords)] /\ Steady(closed, ses)
    <2>1. "closed" \in Statuses
      BY DEF Statuses
    <2> QED
      BY <2>1, StatusSteady
  <1>2. \A f \in Filters :
          IF f \in DOMAIN seated /\ seated[f] # {}
          THEN \E x : new[f] = Append(closed[f], x)
          ELSE new[f] = closed[f]
    BY DEF activate_with
  <1> HIDE DEF closed, new
  <1>3. ASSUME NEW f \in Filters
        PROVE  IF f \in DOMAIN seated /\ seated[f] # {} THEN Len(new[f]) = Len(ses[f]) + 1
               ELSE Len(new[f]) = Len(ses[f]) /\ (LiveIn(new, f) => LiveIn(ses, f))
    <2>1. CASE f \in DOMAIN seated /\ seated[f] # {}
      <3>1. PICK x : new[f] = Append(closed[f], x)
        BY <1>2, <2>1
      <3>2. Len(new[f]) = Len(closed[f]) + 1
        BY <1>1, <3>1, HeadCount
      <3> QED
        BY <1>1, <2>1, <3>2 DEF Steady
    <2>2. CASE ~(f \in DOMAIN seated /\ seated[f] # {})
      <3>1. new[f] = closed[f]
        BY <1>2, <2>2
      <3> QED
        BY <1>1, <2>2, <3>1 DEF Steady, LiveIn
    <2> QED
      BY <2>1, <2>2
  <1> QED
    BY <1>3 DEF Grew, new

\* A request that has at most aged.
SameRequest(r, q) ==
  /\ q.sources = r.sources /\ q.targets = r.targets /\ q.vacant = r.vacant
  /\ q.activated = r.activated

\* The request a pending change waits for exists.
LEMMA ChangeParts ==
  ASSUME IInv, NEW c \in pending
  PROVE  /\ c.kind \in Kinds /\ c.wait \in 0..2 /\ c.request \in Nat
         /\ c.request # 0 => c.request \in DOMAIN requests
         /\ c = [number |-> c.number, kind |-> c.kind, wait |-> c.wait, request |-> c.request]
  <1>1. requests \in Seq(RequestRecords) /\ c \in Changes(Len(requests))
    BY DEF IInv, Registry, Surroundings
  <1> QED
    BY <1>1 DEF Changes

\* Only the heads of the parent and of its children count.
LEMMA ParentsAndKids ==
  /\ Parent \in Filters /\ Kids \subseteq Filters /\ Leaves \subseteq Kids /\ Parent \notin Kids
  /\ \A f \in Filters : f = Parent \/ f \in Kids
  /\ Kids # {} /\ Kids # {Parent}
  BY ShardAssumption DEF Filters

\* What a merge left out stays so until a split takes effect.
LEMMA MergedKept ==
  ASSUME NEW k, MergedWithout(k),
         requests \in Seq(RequestRecords), requests' \in Seq(RequestRecords),
         DOMAIN requests \subseteq DOMAIN requests',
         \A i \in DOMAIN requests :
           /\ requests'[i].targets = requests[i].targets
           /\ requests'[i].vacant = requests[i].vacant
           /\ requests[i].activated => requests'[i].activated,
         \A j \in DOMAIN requests' :
           /\ requests'[j].activated
           /\ Parent \in Sources(requests'[j]) /\ Parent \notin DOMAIN requests'[j].targets
           => /\ j \in DOMAIN requests /\ requests[j].activated
              /\ requests'[j].sources = requests[j].sources
  PROVE  MergedWithout(k)'
  <1>1. PICK i \in DOMAIN requests :
          /\ requests[i].activated
          /\ Parent \in DOMAIN requests[i].targets /\ k \in requests[i].vacant
          /\ \A j \in i + 1 .. Len(requests) :
               requests[j].activated =>
                 Parent \notin Sources(requests[j]) \/ Parent \in DOMAIN requests[j].targets
    BY DEF MergedWithout
  <1>2. /\ DOMAIN requests = 1..Len(requests) /\ DOMAIN requests' = 1..Len(requests')
        /\ Len(requests) \in Nat /\ Len(requests') \in Nat
    OBVIOUS
  <1>3. ASSUME NEW j \in i + 1 .. Len(requests'), requests'[j].activated,
               Parent \in Sources(requests'[j]), Parent \notin DOMAIN requests'[j].targets
        PROVE  FALSE
    <2>1. j \in DOMAIN requests'
      BY <1>2
    <2>2. j \in DOMAIN requests /\ requests[j].activated /\ Sources(requests[j]) = Sources(requests'[j])
      BY <1>3, <2>1 DEF Sources
    <2>3. j \in i + 1 .. Len(requests) /\ requests'[j].targets = requests[j].targets
      BY <1>2, <2>2
    <2> QED
      BY <1>1, <1>3, <2>2, <2>3
  <1>4. /\ i \in DOMAIN requests' /\ requests'[i].activated
        /\ Parent \in DOMAIN requests'[i].targets /\ k \in requests'[i].vacant
    BY <1>1
  <1> QED
    BY <1>3, <1>4 DEF MergedWithout

\* A step that starts no session and applies no change.
LEMMA SteadyStep ==
  ASSUME IInv, IInv', TInv, Steady(session', session),
         DOMAIN requests \subseteq DOMAIN requests',
         \A i \in DOMAIN requests : SameRequest(requests[i], requests'[i]),
         UNCHANGED grid, OneEach', Reservations',
         \A c \in pending : c.request # 0 => c \in pending',
         \A c \in pending' : c.request # 0 => c \in pending \/ Linked(c)',
         \A i \in DOMAIN requests' \ DOMAIN requests :
           /\ Owned(i)' /\ ~requests'[i].activated
           /\ (\E c \in pending : c.request # 0 /\ c.kind = "merge") =>
                Parent \notin Sources(requests'[i]),
         stage' = stage \/ \A c \in pending : c.request # 0 /\ c.kind = "merge" => grid = Kids
  PROVE  TInv'
  <1>0. /\ session \in [Filters -> Seq(SessionRecords)] /\ session' \in [Filters -> Seq(SessionRecords)]
        /\ requests \in Seq(RequestRecords) /\ requests' \in Seq(RequestRecords)
    BY DEF IInv, Registry
  <1>1. \A f \in Filters : /\ session'[f] # <<>> <=> session[f] # <<>>
                           /\ Len(session'[f]) = Len(session[f])
                           /\ LiveAt(f)' => LiveAt(f)
    <2>2. ASSUME NEW f \in Filters
          PROVE  /\ session'[f] # <<>> <=> session[f] # <<>>
                 /\ Len(session'[f]) = Len(session[f])
      BY <1>0, HeadCount DEF Steady
    <2>3. ASSUME NEW f \in Filters, LiveAt(f)' PROVE LiveAt(f)
      BY <2>3 DEF Steady, LiveIn, LiveAt, HasHead, head
    <2> QED
      BY <2>2, <2>3
  <1>2. Gridded'
    BY DEF TInv, Gridded
  <1>3. ASSUME NEW c \in pending, c.request # 0, c \in pending' PROVE Linked(c)'
    <2>1. Linked(c) /\ c.request \in DOMAIN requests /\ c.kind \in Kinds
      BY <1>3, ChangeParts DEF TInv, Links
    <2>2. SameRequest(requests[c.request], requests'[c.request])
      BY <2>1
    <2>3. CASE c.kind = "split"
      <3>1. SplitHolds(c)
        BY <2>1, <2>3 DEF Linked
      <3>2. SplitHolds(c)'
        BY <1>1, <2>2, <3>1, ParentsAndKids DEF SplitHolds, SameRequest, HasHead
      <3> QED
        BY <2>1, <2>3, <3>2 DEF Linked
    <2>4. CASE c.kind = "merge"
      <3>1. MergeHolds(c)
        BY <2>1, <2>4 DEF Linked
      <3>2. PICK asked : asked = Kids \ requests[c.request].vacant
        OBVIOUS
      <3>3. /\ asked # {} /\ asked \subseteq Filters /\ asked = Kids \ requests'[c.request].vacant
            /\ \A k \in asked : HasHead(k)'
            /\ requests'[c.request].sources = {<<k, Len(session'[k])>> : k \in asked}
            /\ DOMAIN requests'[c.request].targets = {Parent}
        BY <1>1, <2>2, <3>1, <3>2, ParentsAndKids DEF MergeHolds, SameRequest, HasHead
      <3>4. \A j \in DOMAIN requests' : j > c.request => Parent \notin Sources(requests'[j])
        <4> SUFFICES ASSUME NEW j \in DOMAIN requests', j > c.request
                     PROVE  Parent \notin Sources(requests'[j])
          OBVIOUS
        <4>1. CASE j \in DOMAIN requests
          <5>1. Parent \notin Sources(requests[j]) /\ SameRequest(requests[j], requests'[j])
            BY <3>1, <4>1 DEF MergeHolds
          <5> QED
            BY <5>1 DEF Sources, SameRequest
        <4>2. CASE j \notin DOMAIN requests
          BY <1>3, <2>4, <4>2
        <4> QED
          BY <4>1, <4>2
      <3>5. grid = Kids \/ (/\ stage' = "gate" /\ ~requests'[c.request].activated
                            /\ \E d \in pending' : d.kind = "split" /\ Passed(d)')
        <4> SUFFICES ASSUME grid # Kids
                     PROVE  /\ stage' = "gate" /\ ~requests'[c.request].activated
                            /\ \E d \in pending' : d.kind = "split" /\ Passed(d)'
          OBVIOUS
        <4>1. stage = "gate" /\ ~requests[c.request].activated /\ stage' = stage
          BY <1>3, <2>4, <3>1 DEF MergeHolds
        <4>2. PICK d \in pending : d.kind = "split" /\ Passed(d)
          BY <3>1 DEF MergeHolds
        <4>3. d \in pending' /\ d.request \in DOMAIN requests
          BY <4>2, ChangeParts DEF Passed
        <4>4. Passed(d)'
          BY <4>2, <4>3 DEF Passed, SameRequest
        <4> QED
          BY <2>2, <4>1, <4>2, <4>3, <4>4 DEF SameRequest
      <3>6. MergeHolds(c)'
        BY <3>3, <3>4, <3>5 DEF MergeHolds
      <3> QED
        BY <2>1, <2>4, <3>6 DEF Linked
    <2> QED
      BY <2>1, <2>3, <2>4 DEF Kinds
  <1>4. Links'
    BY <1>3 DEF Links
  <1>5. Owners'
    <2> SUFFICES ASSUME NEW i \in DOMAIN requests', ~requests'[i].activated PROVE Owned(i)'
      BY DEF Owners
    <2>1. CASE i \in DOMAIN requests
      <3>1. SameRequest(requests[i], requests'[i]) /\ i # 0
        BY <2>1 DEF IInv, Registry
      <3>2. Owned(i)
        BY <2>1, <3>1 DEF TInv, Owners, SameRequest
      <3>3. ASSUME NEW f \in Filters, membership_request(requests[i], f)
            PROVE  membership_request(requests'[i], f)
        BY <3>1, <3>3 DEF membership_request, Sources, SameRequest
      <3> QED
        BY <3>1, <3>2, <3>3 DEF Owned
    <2>2. CASE i \notin DOMAIN requests
      BY <2>2
    <2> QED
      BY <2>1, <2>2
  <1>6. ASSUME NEW k, LeftOut(k) PROVE LeftOut(k)'
    <2>1. MergedWithout(k)'
      <3>1. \A i \in DOMAIN requests :
              /\ requests'[i].targets = requests[i].targets
              /\ requests'[i].vacant = requests[i].vacant
              /\ requests'[i].activated = requests[i].activated
              /\ requests'[i].sources = requests[i].sources
        BY DEF SameRequest
      <3>2. \A j \in DOMAIN requests' : requests'[j].activated => j \in DOMAIN requests
        OBVIOUS
      <3>3. MergedWithout(k)
        BY <1>6 DEF LeftOut
      <3> QED
        BY <1>0, <3>1, <3>2, <3>3, MergedKept
    <2>2. PICK s \in Kids : HasHead(s) /\ ~LiveAt(s)
      BY <1>6 DEF LeftOut
    <2>3. HasHead(s)' /\ ~LiveAt(s)'
      BY <1>1, <2>2, ParentsAndKids DEF HasHead
    <2> QED
      BY <1>6, <2>1, <2>3 DEF LeftOut
  <1>7. Living'
    <2> SUFFICES ASSUME NEW f \in Filters, LiveAt(f)', f \notin grid, ~LeftOut(f)
                 PROVE  \E c \in pending' : f \in New(c.kind) /\ Passed(c)'
      BY <1>6 DEF Living
    <2>1. PICK c \in pending : f \in New(c.kind) /\ Passed(c)
      BY <1>1 DEF TInv, Living
    <2>2. c \in pending' /\ c.request \in DOMAIN requests
      BY <2>1, ChangeParts DEF Passed
    <2>3. Passed(c)'
      BY <2>1, <2>2 DEF Passed, SameRequest
    <2> QED
      BY <2>1, <2>2, <2>3
  <1> QED
    BY <1>2, <1>4, <1>5, <1>7 DEF TInv

\* A step that changes the frames or ends of sessions only.
LEMMA QuietStep ==
  ASSUME IInv, IInv', TInv, Steady(session', session),
         UNCHANGED <<grid, requests, reserved, pending, stage>>
  PROVE  TInv'
  <1>1. OneEach' /\ Reservations' /\ \A i \in DOMAIN requests : SameRequest(requests[i], requests'[i])
    BY DEF TInv, OneEach, Reservations, SameRequest
  <1> QED
    BY <1>1, SteadyStep

\* A header or drain is executed.
LEMMA FrameKeepsRange ==
  ASSUME IInv, IInv', TInv, NEW f \in Filters, NEW g \in DOMAIN session[f], NEW cp \in Checkpoints,
         FrameHeader(f, g, cp) \/ \E last \in Checkpoints : PartialDrain(f, g, cp, last)
  PROVE  TInv'
  <1>1. PICK at \in Checkpoints :
          /\ verify_frame(f, g, at)
          /\ session' = [session EXCEPT ![f][g] = record_session_tip(@, at)]
    BY DEF FrameHeader, PartialDrain
  <1> DEFINE y == record_session_tip(session[f][g], at)
  <1>2. Settled(y) /\ y.status = session[f][g].status
    BY <1>1, PlaceOf, TipHolds DEF verify_frame
  <1>3. session' = Put(session, f, g, y)
    BY <1>1 DEF Put
  <1>4. session \in [Filters -> Seq(SessionRecords)] /\ y \in SessionRecords
    BY <1>2 DEF IInv, Registry, Settled
  <1> HIDE DEF y
  <1>5. Steady(session', session)
    BY <1>2, <1>3, <1>4, PutSteady
  <1>6. UNCHANGED <<grid, requests, reserved, pending, stage>>
    BY DEF FrameHeader, PartialDrain
  <1> QED
    BY <1>5, <1>6, QuietStep

\* Provers join, confirm, leave, and lose or regain their seats.
LEMMA PeopleKeepRange ==
  ASSUME IInv, IInv', TInv, NEW p \in Provers, NEW f \in Filters, Moves(p, f)
  PROVE  TInv'
  <1>1. UNCHANGED <<grid, session, requests, reserved, pending, stage>>
    BY MovesFrame
  <1>2. Steady(session', session)
    BY <1>1 DEF Steady
  <1> QED
    BY <1>1, <1>2, QuietStep

\* Steps that change which changes are pending, but none that waits.
LEMMA PendingStep ==
  ASSUME IInv, IInv', TInv, UNCHANGED <<grid, session, reserved>>,
         DOMAIN requests' = DOMAIN requests,
         \A i \in DOMAIN requests : SameRequest(requests[i], requests'[i]),
         \A c : c.request # 0 => (c \in pending <=> c \in pending'),
         stage' = stage \/ \A c \in pending : c.request # 0 /\ c.kind = "merge" => grid = Kids
  PROVE  TInv'
  <1>1. Steady(session', session)
    BY DEF Steady
  <1>2. OneEach'
    BY DEF TInv, OneEach
  <1>3. Reservations'
    <2> SUFFICES ASSUME NEW f \in Filters, reserved[f] # 0
                 PROVE  f \in DOMAIN requests'[reserved[f]].targets
      BY DEF Reservations
    <2>1. reserved[f] \in DOMAIN requests
      BY DEF IInv, Registry
    <2> QED
      BY <2>1 DEF TInv, Reservations, SameRequest
  <1> QED
    BY <1>1, <1>2, <1>3, SteadyStep

\* A split or merge is proposed.
LEMMA ProposeKeepsRange ==
  ASSUME IInv, IInv', TInv, NEW kind \in Kinds, put_pending_shard_change(kind)
  PROVE  TInv'
  <1> DEFINE new == [number |-> proposed + 1, kind |-> kind, wait |-> 2, request |-> 0]
  <1>1. /\ UNCHANGED <<grid, session, requests, reserved, stage>>
        /\ pending' = {c \in pending : c.wait # 2} \cup {new}
    BY DEF put_pending_shard_change, records
  <1>2. new.wait = 2 /\ new.request = 0
    OBVIOUS
  <1> HIDE DEF new
  <1>3. \A c : c.request # 0 => (c \in pending <=> c \in pending')
    BY <1>1, <1>2 DEF TInv, Links, Linked
  <1>4. \A i \in DOMAIN requests : SameRequest(requests[i], requests'[i])
    BY <1>1 DEF SameRequest
  <1> QED
    BY <1>1, <1>3, <1>4, PendingStep

\* A change is dropped before it was scheduled.
LEMMA ConsumeKeepsRange ==
  ASSUME IInv, IInv', TInv, NEW c \in pending, ConsumeStale(c)
  PROVE  TInv'
  <1>1. /\ UNCHANGED <<grid, session, requests, reserved, stage>>
        /\ pending' = pending \ {c}
    BY DEF ConsumeStale, Consume, records
  <1>2. c.request = 0
    <2>1. CASE stale_split(c)
      BY <2>1 DEF stale_split, TInv, Links, Linked, SplitHolds
    <2>2. CASE GateDrops(c)
      BY <2>2 DEF GateDrops, Schedulable
    <2> QED
      BY <2>1, <2>2 DEF ConsumeStale
  <1>3. \A d : d.request # 0 => (d \in pending <=> d \in pending')
    BY <1>1, <1>2
  <1>4. \A i \in DOMAIN requests : SameRequest(requests[i], requests'[i])
    BY <1>1 DEF SameRequest
  <1> QED
    BY <1>1, <1>3, <1>4, PendingStep

\* Outside the gate a scheduled merge finds the children registered.
LEMMA MergeGrid ==
  ASSUME TInv, stage # "gate", NEW c \in pending, c.request # 0, c.kind = "merge"
  PROVE  grid = Kids /\ MergeHolds(c)
  BY DEF TInv, Links, Linked, MergeHolds

\* The gate ends with no activated split left to apply.
LEMMA StageKeepsRange ==
  ASSUME IInv, IInv', TInv, NextStage
  PROVE  TInv'
  <1>1. UNCHANGED <<grid, session, requests, reserved, pending>>
    BY DEF NextStage, records
  <1>2. \A c \in pending : c.request # 0 /\ c.kind = "merge" => grid = Kids
    <2> SUFFICES ASSUME NEW c \in pending, c.request # 0, c.kind = "merge", grid # Kids PROVE FALSE
      OBVIOUS
    <2>1. MergeHolds(c)
      BY DEF TInv, Links, Linked
    <2>2. stage = "gate"
      BY <2>1 DEF MergeHolds
    <2>3. PICK d \in pending : d.kind = "split" /\ Passed(d)
      BY <2>1 DEF MergeHolds
    <2>4. Linked(d) /\ d.wait = 0 /\ Parent \in grid
      BY <2>3 DEF TInv, Links, Linked, Passed, SplitHolds
    <2>5. GateApplies(d)
      BY <2>3, <2>4 DEF GateApplies, stale_split, Passed
    <2> QED
      BY <2>2, <2>4, <2>5 DEF NextStage
  <1>3. \A i \in DOMAIN requests : SameRequest(requests[i], requests'[i])
    BY <1>1 DEF SameRequest
  <1> QED
    BY <1>1, <1>2, <1>3, PendingStep

\* The next GLOBAL frame ages the requests and the changes.
LEMMA NextFrameKeepsRange ==
  ASSUME IInv, IInv', TInv, NextFrame
  PROVE  TInv'
  <1>1. /\ UNCHANGED <<grid, session, reserved>> /\ stage = "membership"
        /\ requests' = [i \in DOMAIN requests |->
              IF fence_due(requests[i]) THEN requests[i] ELSE [requests[i] EXCEPT !.age = @ + 1]]
        /\ pending' = {IF phase' = 0 /\ c.wait > 0 THEN [c EXCEPT !.wait = @ - 1] ELSE c
                         : c \in pending}
    BY DEF NextFrame
  <1>2. /\ DOMAIN requests' = DOMAIN requests
        /\ \A i \in DOMAIN requests : SameRequest(requests[i], requests'[i])
    <2>1. DOMAIN requests' = DOMAIN requests
      BY <1>1
    <2>2. ASSUME NEW i \in DOMAIN requests PROVE SameRequest(requests[i], requests'[i])
      <3>1. requests[i] \in RequestRecords
        BY DEF IInv, Registry
      <3>2. requests'[i] \in {requests[i], [requests[i] EXCEPT !.age = requests[i].age + 1]}
        BY <1>1
      <3> QED
        BY <3>1, <3>2 DEF RequestRecords, SameRequest
    <2> QED
      BY <2>1, <2>2
  <1>3. \A c \in pending : c.request # 0 => c.wait = 0
    BY DEF TInv, Links, Linked
  <1>4. ASSUME NEW d \in pending'
        PROVE  \E c \in pending : d.request = c.request /\ (d = c \/ c.wait # 0)
    <2>1. PICK c \in pending : d = IF phase' = 0 /\ c.wait > 0 THEN [c EXCEPT !.wait = @ - 1] ELSE c
      BY <1>1
    <2>2. c \in Changes(Len(requests))
      BY DEF IInv, Surroundings
    <2> QED
      BY <2>1, <2>2 DEF Changes
  <1>5. ASSUME NEW c, c.request # 0 PROVE c \in pending <=> c \in pending'
    <2>1. ASSUME c \in pending PROVE c \in pending'
      BY <1>1, <1>3, <1>5, <2>1
    <2>2. ASSUME c \in pending' PROVE c \in pending
      BY <1>3, <1>4, <1>5, <2>2
    <2> QED
      BY <2>1, <2>2
  <1>6. \A c \in pending : c.request # 0 /\ c.kind = "merge" => grid = Kids
    BY <1>1, MergeGrid
  <1> QED
    BY <1>1, <1>2, <1>5, <1>6, PendingStep

\* A source of a request is where its shard's last session is, if it is open.
LEMMA SourceHead ==
  ASSUME IInv, NEW f \in Filters, HasHead(f), NEW i \in DOMAIN requests,
         <<f, Len(session[f])>> \in requests[i].sources
  PROVE  /\ head(f).request = i
         /\ head(f).status = (IF requests[i].activated THEN "closed" ELSE "sealing")
  <1>1. Asks(session, requests, i) /\ session[f] \in Seq(SessionRecords)
    BY DEF IInv, Registry
  <1>2. Len(session[f]) \in Nat
    BY <1>1
  <1> QED
    BY <1>1, <1>2 DEF Asks, head

\* A target of an open request: its shard's live session is the one closing for
\* a membership change, or a pending change registers it.
LEMMA OpenTarget ==
  ASSUME IInv, TInv, NEW i \in DOMAIN requests, ~requests[i].activated,
         NEW f \in DOMAIN requests[i].targets
  PROVE  /\ f \in Filters
         /\ \/ HasHead(f) /\ head(f).request = i /\ LiveAt(f)
            \/ \E c \in pending : c.request = i /\ f \in New(c.kind) /\ Linked(c)
  <1>1. /\ requests[i] \in RequestRecords /\ Asks(session, requests, i) /\ i # 0
        /\ f \in Filters /\ Owned(i)
    BY RequestParts DEF IInv, Registry, TInv, Owners
  <1>2. ASSUME NEW h \in Filters, membership_request(requests[i], h)
        PROVE  HasHead(f) /\ head(f).request = i /\ LiveAt(f)
    <2>1. f \in {s[1] : s \in requests[i].sources}
      BY <1>2 DEF membership_request, Sources
    <2>2. PICK s \in requests[i].sources : s[1] = f
      BY <2>1
    <2>3. s \in Filters \X Nat
      BY <1>1, RequestParts
    <2>4. s[2] \in Nat /\ <<f, s[2]>> \in requests[i].sources
      BY <2>2, <2>3
    <2>5. /\ s[2] \in DOMAIN session[f] /\ session[f][s[2]].request = i
          /\ session[f][s[2]].status = "sealing"
      BY <1>1, <2>4 DEF Asks
    <2>6. /\ s[2] \in 1..Len(session[f]) /\ session[f] \in Seq(SessionRecords)
          /\ Placed(session, requests, f, s[2])
      BY <1>1, <2>5, PlaceOf
    <2>7. ~(s[2] < Len(session[f]))
      BY <2>5, <2>6 DEF Placed
    <2>8. s[2] = Len(session[f]) /\ session[f] # <<>>
      BY <2>6, <2>7
    <2> QED
      BY <2>5, <2>8 DEF HasHead, head, LiveAt
  <1>3. ASSUME NEW c \in pending, c.request = i PROVE f \in New(c.kind) /\ Linked(c)
    <2>1. Linked(c) /\ c.kind \in Kinds
      BY <1>1, <1>3, ChangeParts DEF TInv, Links
    <2>2. DOMAIN requests[i].targets = New(c.kind)
      BY <1>3, <2>1 DEF Linked, SplitHolds, MergeHolds, New, Kinds
    <2> QED
      BY <2>1, <2>2
  <1> QED
    BY <1>1, <1>2, <1>3 DEF Owned

\* Successors start where a pending change awaits them, or in place of the live
\* session of a registered shard.
LEMMA ActivationStep ==
  ASSUME IInv, IInv', TInv, stage # "gate",
         NEW id \in DOMAIN requests, ~requests[id].activated, requests' = Done(requests, id),
         NEW seated, DOMAIN seated = DOMAIN requests[id].targets,
         Grew(session', session, seated),
         UNCHANGED <<grid, reserved, pending, stage>>
  PROVE  TInv'
  <1>1. /\ session \in [Filters -> Seq(SessionRecords)] /\ session' \in [Filters -> Seq(SessionRecords)]
        /\ requests \in Seq(RequestRecords) /\ requests' \in Seq(RequestRecords) /\ id # 0
    BY DEF IInv, Registry
  <1>2. /\ DOMAIN requests' = DOMAIN requests /\ requests'[id].activated
        /\ \A i \in DOMAIN requests :
             /\ requests'[i].sources = requests[i].sources
             /\ requests'[i].targets = requests[i].targets
             /\ requests'[i].vacant = requests[i].vacant
             /\ requests[i].activated => requests'[i].activated
             /\ i # id => requests'[i] = requests[i]
    <2>1. requests[id] \in RequestRecords
      BY <1>1
    <2>2. requests'[id].targets = requests[id].targets /\ requests'[id].vacant = requests[id].vacant
      BY <1>1, <2>1 DEF Done, RequestRecords
    <2> QED
      BY <1>1, <2>2, DoneParts
  <1>3. ASSUME NEW f \in Filters, HasHead(f) PROVE HasHead(f)'
    <2>1. Len(session[f]) \in Nat /\ Len(session[f]) # 0
      BY <1>1, <1>3, HeadCount DEF HasHead
    <2>2. Len(session'[f]) \in {Len(session[f]), Len(session[f]) + 1}
      BY DEF Grew
    <2> QED
      BY <1>1, <2>1, <2>2, HeadCount DEF HasHead
  <1>4. ASSUME NEW f \in Filters, f \notin DOMAIN requests[id].targets \/ seated[f] = {}
        PROVE  /\ HasHead(f) <=> HasHead(f)'
               /\ Len(session'[f]) = Len(session[f])
               /\ LiveAt(f)' => LiveAt(f)
    <2>1. Len(session'[f]) = Len(session[f]) /\ (LiveIn(session', f) => LiveIn(session, f))
      BY <1>4 DEF Grew
    <2> QED
      BY <1>1, <2>1, HeadCount DEF HasHead, LiveIn, LiveAt, head
  <1>6. Gridded' /\ OneEach'
    BY DEF TInv, Gridded, OneEach
  <1>7. Reservations'
    <2> SUFFICES ASSUME NEW f \in Filters, reserved[f] # 0
                 PROVE  f \in DOMAIN requests'[reserved[f]].targets
      BY DEF Reservations
    <2>1. reserved[f] \in DOMAIN requests
      BY DEF IInv, Registry
    <2> QED
      BY <1>2, <2>1 DEF TInv, Reservations
  <1>9. Owners'
    <2> SUFFICES ASSUME NEW i \in DOMAIN requests', ~requests'[i].activated PROVE Owned(i)'
      BY DEF Owners
    <2>1. i \in DOMAIN requests /\ requests'[i] = requests[i] /\ Owned(i)
      BY <1>2 DEF TInv, Owners
    <2> QED
      BY <2>1 DEF Owned, membership_request, Sources
  <1>10. ASSUME NEW c \in pending, Passed(c) PROVE Passed(c)'
    BY <1>2, <1>10, ChangeParts DEF Passed
  <1>8. ASSUME NEW f \in Filters, f \notin grid, LeftOut(f)
        PROVE  LeftOut(f)' \/ \E c \in pending : f \in New(c.kind) /\ Passed(c)'
    <2>1. f \in Kids /\ MergedWithout(f)
      BY <1>8 DEF LeftOut
    <2>2. PICK s \in Kids : HasHead(s) /\ ~LiveAt(s)
      BY <1>8 DEF LeftOut
    <2>3. CASE \E c \in pending : c.request = id /\ c.kind = "split"
      BY <1>1, <1>2, <2>1, <2>3 DEF Passed, New
    <2>4. CASE ~ \E c \in pending : c.request = id /\ c.kind = "split"
      <3>1. s \notin DOMAIN requests[id].targets
        <4> SUFFICES ASSUME s \in DOMAIN requests[id].targets PROVE FALSE
          OBVIOUS
        <4>1. PICK c \in pending : c.request = id /\ s \in New(c.kind)
          BY <2>2, OpenTarget
        <4> QED
          BY <2>2, <2>4, <4>1, ParentsAndKids, ChangeParts DEF New, Kinds
      <3>2. HasHead(s)' /\ ~LiveAt(s)'
        BY <1>4, <2>2, <3>1, ParentsAndKids
      <3>3. Parent \in Sources(requests[id]) => Parent \in DOMAIN requests[id].targets
        <4>1. Owned(id)
          BY DEF TInv, Owners
        <4>2. ASSUME NEW c \in pending, c.request = id PROVE FALSE
          <5>1. c.kind = "merge"
            BY <2>4, <4>2, ChangeParts DEF Kinds
          <5> QED
            BY <1>1, <1>8, <2>1, <4>2, <5>1, MergeGrid
        <4>3. PICK h \in Filters : membership_request(requests[id], h)
          BY <4>1, <4>2 DEF Owned
        <4> QED
          BY <4>3 DEF membership_request
      <3>4. \A j \in DOMAIN requests' :
              /\ requests'[j].activated
              /\ Parent \in Sources(requests'[j]) /\ Parent \notin DOMAIN requests'[j].targets
              => /\ j \in DOMAIN requests /\ requests[j].activated
                 /\ requests'[j].sources = requests[j].sources
        BY <1>2, <3>3 DEF Sources
      <3>5. MergedWithout(f)'
        BY <1>1, <1>2, <2>1, <3>4, MergedKept
      <3> QED
        BY <2>1, <3>2, <3>5 DEF LeftOut
    <2> QED
      BY <2>3, <2>4
  <1>11. Living'
    <2> SUFFICES ASSUME NEW f \in Filters, LiveAt(f)', f \notin grid
                 PROVE  LeftOut(f)' \/ \E c \in pending : f \in New(c.kind) /\ Passed(c)'
      BY DEF Living
    <2>1. CASE LiveAt(f)
      BY <1>8, <1>10, <2>1 DEF TInv, Living
    <2>2. CASE ~LiveAt(f)
      <3>1. f \in DOMAIN requests[id].targets
        BY <1>4, <2>2
      <3>2. PICK c \in pending : c.request = id /\ f \in New(c.kind)
        BY <2>2, <3>1, OpenTarget
      <3> QED
        BY <1>1, <1>2, <3>2 DEF Passed
    <2> QED
      BY <2>1, <2>2
  <1>12. ASSUME NEW c \in pending, c.request # 0, c.kind = "split" PROVE SplitHolds(c)'
    <2> DEFINE j == c.request
    <2>1. SplitHolds(c) /\ j \in DOMAIN requests
      BY <1>12, ChangeParts DEF TInv, Links, Linked
    <2>2. /\ Parent \in grid /\ HasHead(Parent) /\ DOMAIN requests[j].targets = Kids
          /\ requests[j].sources = {<<Parent, Len(session[Parent])>>}
      BY <2>1 DEF SplitHolds
    <2>3. head(Parent).request = j
      BY <2>1, <2>2, ParentsAndKids, SourceHead
    <2> HIDE DEF j
    <2>4. Parent \notin DOMAIN requests[id].targets
      <3> SUFFICES ASSUME Parent \in DOMAIN requests[id].targets PROVE FALSE
        OBVIOUS
      <3>1. j # id
        BY <2>2, ParentsAndKids
      <3>2. PICK d \in pending : d.request = id /\ Parent \in New(d.kind) /\ Linked(d)
        BY <2>3, <3>1, OpenTarget
      <3>3. d.kind = "merge"
        BY <3>2, ParentsAndKids, ChangeParts DEF New, Kinds
      <3>4. grid = Kids
        BY <1>1, <3>2, <3>3, MergeGrid
      <3> QED
        BY <2>2, <3>4, ParentsAndKids
    <2>5. HasHead(Parent)' /\ Len(session'[Parent]) = Len(session[Parent])
      BY <1>4, <2>2, <2>4, ParentsAndKids
    <2> QED
      BY <1>2, <2>1, <2>2, <2>5 DEF SplitHolds, j
  <1>13. ASSUME NEW c \in pending, c.request # 0, c.kind = "merge" PROVE MergeHolds(c)'
    <2>a. PICK j : j = c.request
      OBVIOUS
    <2>b. PICK asked : asked = Kids \ requests[j].vacant
      OBVIOUS
    <2>1. MergeHolds(c) /\ grid = Kids /\ j \in DOMAIN requests
      BY <1>13, <2>a, ChangeParts, MergeGrid
    <2>2. /\ asked # {} /\ asked \subseteq Kids /\ \A k \in asked : HasHead(k)
          /\ requests[j].sources = {<<k, Len(session[k])>> : k \in asked}
          /\ DOMAIN requests[j].targets = {Parent}
      BY <2>a, <2>b, <2>1 DEF MergeHolds
    <2>3. ASSUME NEW k \in asked PROVE head(k).request = j
      <3>1. k \in Filters /\ HasHead(k) /\ <<k, Len(session[k])>> \in requests[j].sources
        BY <2>2, ParentsAndKids
      <3> QED
        BY <2>1, <3>1, SourceHead
    <2>4. ASSUME NEW k \in asked PROVE k \notin DOMAIN requests[id].targets
      <3> SUFFICES ASSUME k \in DOMAIN requests[id].targets PROVE FALSE
        OBVIOUS
      <3>1. j # id
        BY <2>2, ParentsAndKids
      <3>2. PICK d \in pending : d.request = id /\ k \in New(d.kind) /\ Linked(d)
        BY <2>3, <3>1, OpenTarget
      <3>3. d.kind = "split"
        BY <2>2, <3>2, ParentsAndKids DEF New
      <3>4. Parent \in grid
        BY <3>2, <3>3 DEF Linked, SplitHolds
      <3> QED
        BY <2>1, <3>4, ParentsAndKids
    <2>5. \A k \in asked : HasHead(k)' /\ Len(session'[k]) = Len(session[k])
      BY <1>4, <2>2, <2>4, ParentsAndKids
    <2>6. /\ requests'[j].sources = {<<k, Len(session'[k])>> : k \in asked}
          /\ asked = Kids \ requests'[j].vacant /\ DOMAIN requests'[j].targets = {Parent}
      BY <1>2, <2>b, <2>1, <2>2, <2>5
    <2>7. \A i \in DOMAIN requests' : i > j => Parent \notin Sources(requests'[i])
      BY <1>2, <2>a, <2>1 DEF MergeHolds, Sources
    <2> QED
      BY <2>a, <2>1, <2>2, <2>5, <2>6, <2>7 DEF MergeHolds
  <1>14. Links'
    <2> SUFFICES ASSUME NEW c \in pending, c.request # 0 PROVE Linked(c)'
      BY DEF Links
    <2>1. c.kind \in Kinds /\ c.wait = 0
      BY ChangeParts DEF TInv, Links, Linked
    <2> QED
      BY <1>12, <1>13, <2>1 DEF Linked, Kinds
  <1> QED
    BY <1>6, <1>7, <1>9, <1>11, <1>14 DEF TInv

\* An attempt to activate a request, once the ends of sessions changed.
LEMMA AttemptStep ==
  ASSUME IInv, IInv', TInv, stage # "gate", NEW id \in DOMAIN requests,
         NEW ses \in [Filters -> Seq(SessionRecords)], Steady(ses, session),
         NEW seated, DOMAIN seated = DOMAIN requests[id].targets,
         session' = activate(ses, id, requests[id], seated),
         requests' = MarkActivated(ses, id, requests[id]),
         UNCHANGED <<grid, reserved, pending, stage>>
  PROVE  TInv'
  <1>1. requests \in Seq(RequestRecords) /\ id \in Nat
    BY DEF IInv, Registry
  <1>2. CASE Activates(ses, id, requests[id])
    <2>1. /\ session' = activate_with(ses, id, requests[id], seated)
          /\ requests' = Done(requests, id) /\ ~requests[id].activated
      BY <1>1, <1>2, MarkParts DEF activate, Activates
    <2>2. Grew(session', ses, seated)
      BY <1>1, <2>1, ActivateGrew
    <2>3. Grew(session', session, seated)
      BY <2>2 DEF Grew, Steady
    <2> QED
      BY <2>1, <2>3, ActivationStep
  <1>3. CASE ~Activates(ses, id, requests[id])
    <2>1. session' = ses /\ requests' = requests
      BY <1>1, <1>3, MarkParts DEF activate
    <2> QED
      BY <2>1, QuietStep
  <1> QED
    BY <1>2, <1>3

\* The successors of sealed sources.
LEMMA SealedKeepsRange ==
  ASSUME IInv, IInv', TInv, NEW f \in grid, activate_sealed_successors(f)
  PROVE  TInv'
  <1> DEFINE id == head(f).request
             r == RequestFor(f)
  <1>1. f \in Filters /\ session \in [Filters -> Seq(SessionRecords)]
    BY DEF IInv, Registry, Surroundings
  <1>2. /\ Closing(f) /\ stage = "sealed"
        /\ session' = activate(session, id, r, fenced_committee(r))
        /\ requests' = MarkActivated(session, id, r)
        /\ UNCHANGED <<grid, reserved, pending, stage>>
    BY DEF activate_sealed_successors, SealedSuccessorDue
  <1>3. id \in DOMAIN requests /\ r = requests[id] /\ r \in RequestRecords
    BY <1>1, <1>2, HeadOf DEF Closing, RequestFor
  <1>4. Steady(session, session)
    BY DEF Steady
  <1> HIDE DEF id, r
  <1> QED
    BY <1>1, <1>2, <1>3, <1>4, FencedCommitteeType, AttemptStep

\* A fence leaves a session closing.
LEMMA FencedSteady ==
  ASSUME NEW ses, NEW reqs, NEW res, Registry(ses, reqs, res), NEW f \in Filters, ses[f] # <<>>,
         ses[f][Len(ses[f])].status = "sealing", EndOf(ses[f][Len(ses[f])]) = NoCheckpoint
  PROVE  Fenced(ses, f) \in [Filters -> Seq(SessionRecords)] /\ Steady(Fenced(ses, f), ses)
  <1> DEFINE g == Len(ses[f])
             x == ses[f][g]
             y == [x EXCEPT !.fence = write_fence(x)]
  <1>1. g \in DOMAIN ses[f] /\ ses \in [Filters -> Seq(SessionRecords)]
    BY DEF Registry
  <1>2. Settled(x)
    BY <1>1 DEF Registry, Placed
  <1>3. Settled(y) /\ y.status = x.status /\ y \in SessionRecords
    BY <1>2, FenceHolds DEF Settled
  <1>4. Fenced(ses, f) = Put(ses, f, g, y)
    BY DEF Fenced, Put
  <1>5. Registry(Fenced(ses, f), reqs, res)
    BY FencedHolds
  <1> HIDE DEF y
  <1>6. Steady(Put(ses, f, g, y), ses)
    BY <1>1, <1>3, PutSteady
  <1> QED
    BY <1>4, <1>5, <1>6 DEF Registry

\* A stalled source is fenced.
LEMMA StalledKeepsRange ==
  ASSUME IInv, IInv', TInv, NEW f \in grid, fence_stalled_sources(f)
  PROVE  TInv'
  <1> DEFINE id == head(f).request
             r == RequestFor(f)
             ses == Fenced(session, f)
  <1>1. f \in Filters /\ Registry(session, requests, reserved)
    BY DEF IInv, Surroundings
  <1>2. /\ Closing(f) /\ EndOf(head(f)) = NoCheckpoint /\ stage = "due"
        /\ session' = activate(ses, id, r, fenced_committee(r))
        /\ requests' = MarkActivated(ses, id, r)
        /\ UNCHANGED <<grid, reserved, pending, stage>>
    BY DEF fence_stalled_sources, FenceDue
  <1>3. id \in DOMAIN requests /\ r = requests[id] /\ r \in RequestRecords
    BY <1>1, <1>2, HeadOf DEF Closing, RequestFor
  <1>4. ses \in [Filters -> Seq(SessionRecords)] /\ Steady(ses, session)
    BY <1>1, <1>2, FencedSteady DEF Closing, HasHead, head
  <1> HIDE DEF id, r, ses
  <1> QED
    BY <1>2, <1>3, <1>4, FencedCommitteeType, AttemptStep

\* A checkpoint is submitted.
LEMMA SubmissionKeepsRange ==
  ASSUME IInv, IInv', TInv, NEW f \in Filters, NEW g \in DOMAIN session[f], NEW cp \in Checkpoints,
         NEW drain \in BOOLEAN, apply_submission(f, g, cp, drain)
  PROVE  TInv'
  <1> DEFINE x == session[f][g]
             id == x.request
             r == requests[id]
             d == Drained(x, cp, drain)
             y == [d EXCEPT !.seal = cp]
  <1>1. /\ x.status # "active" /\ x.fence = NoCheckpoint /\ stage = "messages"
        /\ drain_shape(x, cp, drain) /\ verify_submission_at(d, cp)
    BY DEF apply_submission, verify_closing_certificate, Executing
  <1>2. Settled(x) /\ session \in [Filters -> Seq(SessionRecords)]
    BY PlaceOf DEF IInv, Registry
  <1>3. Settled(d) /\ Settled(y) /\ d.status = x.status /\ y.status = x.status
    BY <1>1, <1>2, SubmissionHolds
  <1>4. id \in DOMAIN requests /\ r \in RequestRecords
    BY <1>1, RequestOfSession
  <1>5. /\ IF r.activated
           THEN session' = Put(session, f, g, d) /\ UNCHANGED requests
           ELSE IF membership_request(r, f)
           THEN session' = Put(session, f, g, y) /\ UNCHANGED requests
           ELSE /\ session' = activate(Put(session, f, g, y), id, r, r.targets)
                /\ requests' = MarkActivated(Put(session, f, g, y), id, r)
        /\ UNCHANGED <<grid, reserved, pending, stage>>
    BY DEF apply_submission, Put
  <1> HIDE DEF d, y
  <1>6. d \in SessionRecords /\ y \in SessionRecords
    BY <1>3 DEF Settled
  <1>7. Steady(Put(session, f, g, d), session) /\ Steady(Put(session, f, g, y), session)
    BY <1>2, <1>3, <1>6, PutSteady
  <1>8. Put(session, f, g, y) \in [Filters -> Seq(SessionRecords)]
    BY <1>2, <1>6 DEF Put
  <1> HIDE DEF id
  <1>9. CASE r.activated \/ membership_request(r, f)
    <2>1. Steady(session', session)
      BY <1>5, <1>7, <1>9
    <2>2. UNCHANGED <<grid, requests, reserved, pending, stage>>
      BY <1>5, <1>9
    <2> QED
      BY <2>1, <2>2, QuietStep
  <1>10. CASE ~(r.activated \/ membership_request(r, f))
    <2>1. /\ session' = activate(Put(session, f, g, y), id, r, r.targets)
          /\ requests' = MarkActivated(Put(session, f, g, y), id, r)
          /\ UNCHANGED <<grid, reserved, pending, stage>>
      BY <1>5, <1>10
    <2> QED
      BY <1>1, <1>4, <1>7, <1>8, <2>1, AttemptStep
  <1> QED
    BY <1>9, <1>10

\* A shard whose last session is active, or closing for its own membership, or
\* that never had one, is not a source of a scheduled change.
LEMMA FreeShard ==
  ASSUME IInv, TInv, NEW c \in pending, c.request # 0, NEW f \in Filters,
         HasHead(f) =>
           head(f).status = "active" \/ membership_request(requests[head(f).request], f)
  PROVE  f \notin Sources(requests[c.request])
  <1> SUFFICES ASSUME f \in Sources(requests[c.request]) PROVE FALSE
    OBVIOUS
  <1>1. Linked(c) /\ c.request \in DOMAIN requests /\ c.kind \in Kinds
    BY ChangeParts DEF TInv, Links
  <1>2. PICK s \in requests[c.request].sources : s[1] = f
    BY DEF Sources
  <1>3. ASSUME HasHead(f), s = <<f, Len(session[f])>> PROVE membership_request(requests[c.request], f)
    BY <1>1, <1>2, <1>3, SourceHead
  <1>4. CASE c.kind = "split"
    <2>1. /\ HasHead(Parent) /\ requests[c.request].sources = {<<Parent, Len(session[Parent])>>}
          /\ DOMAIN requests[c.request].targets = Kids
      BY <1>1, <1>4 DEF Linked, SplitHolds
    <2>2. f = Parent /\ s = <<f, Len(session[f])>>
      BY <1>2, <2>1
    <2> QED
      BY <1>3, <2>1, <2>2, ParentsAndKids DEF membership_request
  <1>5. CASE c.kind = "merge"
    <2>1. /\ \A k \in Kids \ requests[c.request].vacant : HasHead(k)
          /\ requests[c.request].sources =
               {<<k, Len(session[k])>> : k \in Kids \ requests[c.request].vacant}
          /\ DOMAIN requests[c.request].targets = {Parent}
      BY <1>1, <1>5 DEF Linked, MergeHolds
    <2>2. PICK k \in Kids \ requests[c.request].vacant : s = <<k, Len(session[k])>>
      BY <1>2, <2>1
    <2>3. f = k
      BY <1>2, <2>2
    <2> QED
      BY <1>3, <2>1, <2>2, <2>3, ParentsAndKids DEF membership_request
  <1> QED
    BY <1>1, <1>4, <1>5 DEF Kinds

\* A step on the sessions of one registered shard, of which no scheduled change
\* is waiting for one.
LEMMA OwnShardStep ==
  ASSUME IInv, IInv', TInv, stage # "gate", NEW f \in grid,
         \A h \in Filters : h # f => session'[h] = session[h],
         \A c \in pending : c.request # 0 => f \notin Sources(requests[c.request]),
         DOMAIN requests \subseteq DOMAIN requests',
         \A i \in DOMAIN requests :
           \/ requests'[i] = requests[i]
           \/ /\ membership_request(requests[i], f)
              /\ requests'[i] = [requests[i] EXCEPT !.activated = TRUE],
         \A i \in DOMAIN requests' \ DOMAIN requests : membership_request(requests'[i], f),
         Reservations', UNCHANGED <<grid, pending, stage>>
  PROVE  TInv'
  <1>1. /\ f \in Filters /\ requests \in Seq(RequestRecords) /\ requests' \in Seq(RequestRecords)
        /\ 0 \notin DOMAIN requests
    BY DEF IInv, Registry, Surroundings
  <1>2. ASSUME NEW i \in DOMAIN requests
        PROVE  /\ requests'[i].sources = requests[i].sources
               /\ requests'[i].targets = requests[i].targets
               /\ requests'[i].vacant = requests[i].vacant
               /\ requests[i].activated => requests'[i].activated
               /\ requests'[i] = requests[i] \/ membership_request(requests[i], f)
    <2>1. requests[i] \in RequestRecords
      BY <1>1
    <2> QED
      BY <2>1 DEF RequestRecords
  <1>3. ASSUME NEW c \in pending, c.request # 0
        PROVE  /\ c.request \in DOMAIN requests /\ c.kind \in Kinds /\ Linked(c)
               /\ requests'[c.request] = requests[c.request]
    <2>1. c.request \in DOMAIN requests /\ c.kind \in Kinds /\ Linked(c)
      BY <1>3, ChangeParts DEF TInv, Links
    <2>2. ~membership_request(requests[c.request], f)
      BY <1>3 DEF membership_request
    <2> QED
      BY <1>2, <2>1, <2>2
  <1>4. Gridded' /\ OneEach'
    BY DEF TInv, Gridded, OneEach
  <1>5. ASSUME NEW c \in pending, c.request # 0, c.kind = "split" PROVE SplitHolds(c)'
    <2>1. SplitHolds(c) /\ requests'[c.request] = requests[c.request]
      BY <1>3, <1>5 DEF Linked
    <2>2. <<Parent, Len(session[Parent])>>[1] \in Sources(requests[c.request])
      BY <2>1 DEF SplitHolds, Sources
    <2>3. session'[Parent] = session[Parent]
      BY <1>5, <2>2, ParentsAndKids
    <2> QED
      BY <2>1, <2>3 DEF SplitHolds, HasHead
  <1>6. ASSUME NEW c \in pending, c.request # 0, c.kind = "merge" PROVE MergeHolds(c)'
    <2>1. MergeHolds(c) /\ grid = Kids /\ requests'[c.request] = requests[c.request]
      BY <1>3, <1>6, MergeGrid
    <2>2. ASSUME NEW k \in Kids \ requests[c.request].vacant PROVE session'[k] = session[k]
      <3>1. <<k, Len(session[k])>> \in requests[c.request].sources
        BY <2>1 DEF MergeHolds
      <3>2. <<k, Len(session[k])>>[1] \in Sources(requests[c.request])
        BY <3>1 DEF Sources
      <3> QED
        BY <1>6, <3>2, ParentsAndKids
    <2>3. \A j \in DOMAIN requests' : j > c.request => Parent \notin Sources(requests'[j])
      <3> SUFFICES ASSUME NEW j \in DOMAIN requests', j > c.request
                   PROVE  Parent \notin Sources(requests'[j])
        OBVIOUS
      <3>1. CASE j \in DOMAIN requests
        BY <1>2, <2>1, <3>1 DEF MergeHolds, Sources
      <3>2. CASE j \notin DOMAIN requests
        BY <2>1, <3>2, ParentsAndKids DEF membership_request
      <3> QED
        BY <3>1, <3>2
    <2> QED
      BY <2>1, <2>2, <2>3 DEF MergeHolds, HasHead
  <1>7. Links'
    <2> SUFFICES ASSUME NEW c \in pending, c.request # 0 PROVE Linked(c)'
      BY DEF Links
    <2>1. c.kind \in Kinds /\ c.wait = 0
      BY <1>3 DEF Linked
    <2> QED
      BY <1>5, <1>6, <2>1 DEF Linked, Kinds
  <1>8. Owners'
    <2> SUFFICES ASSUME NEW i \in DOMAIN requests', ~requests'[i].activated PROVE Owned(i)'
      BY DEF Owners
    <2>1. CASE i \in DOMAIN requests
      <3>1. Owned(i)
        BY <1>2, <2>1 DEF TInv, Owners
      <3> QED
        BY <1>2, <2>1, <3>1 DEF Owned, membership_request, Sources
    <2>2. CASE i \notin DOMAIN requests
      BY <1>1, <2>2 DEF Owned, membership_request, Sources
    <2> QED
      BY <2>1, <2>2
  <1>9. Living'
    <2> SUFFICES ASSUME NEW h \in Filters, LiveAt(h)', h \notin grid
                 PROVE  LeftOut(h)' \/ \E c \in pending : h \in New(c.kind) /\ Passed(c)'
      BY DEF Living
    <2>1. LiveAt(h)
      BY DEF LiveAt, HasHead, head
    <2>2. ASSUME NEW c \in pending, Passed(c) PROVE Passed(c)'
      BY <1>3, <2>2 DEF Passed
    <2>3. ASSUME LeftOut(h) PROVE LeftOut(h)'
      <3>1. h \in Kids /\ MergedWithout(h) /\ f \notin Kids
        BY <2>3, ParentsAndKids DEF LeftOut, TInv, Gridded
      <3>2. PICK s \in Kids : HasHead(s) /\ ~LiveAt(s)
        BY <2>3 DEF LeftOut
      <3>3. session'[s] = session[s]
        BY <3>1, <3>2, ParentsAndKids
      <3>4. HasHead(s)' /\ ~LiveAt(s)'
        BY <3>2, <3>3 DEF HasHead, LiveAt, head
      <3>5. ASSUME NEW j \in DOMAIN requests', requests'[j].activated,
                   Parent \in Sources(requests'[j]), Parent \notin DOMAIN requests'[j].targets
            PROVE  j \in DOMAIN requests /\ requests[j].activated
        <4>1. ~membership_request(requests'[j], f)
          BY <3>5 DEF membership_request
        <4>2. j \in DOMAIN requests
          BY <4>1
        <4>3. ~membership_request(requests[j], f)
          BY <1>2, <4>1, <4>2 DEF membership_request, Sources
        <4> QED
          BY <1>2, <3>5, <4>2, <4>3
      <3>6. MergedWithout(h)'
        BY <1>1, <1>2, <3>1, <3>5, MergedKept
      <3> QED
        BY <3>1, <3>4, <3>6 DEF LeftOut
    <2> QED
      BY <2>1, <2>2, <2>3 DEF TInv, Living
  <1> QED
    BY <1>4, <1>7, <1>8, <1>9 DEF TInv

\* The sessions of a shard that is no source and receives no successor.
LEMMA OtherShard ==
  ASSUME NEW ses, NEW id, NEW ids, NEW status, NEW h \in Filters, ses[h] \in Seq(SessionRecords),
         \A g : <<h, g>> \notin ids
  PROVE  set_status(ses, ids, status, id)[h] = ses[h]
  <1>1. set_status(ses, ids, status, id)[h] = [g \in DOMAIN ses[h] |-> ses[h][g]]
    BY DEF set_status
  <1> QED
    BY <1>1

\* A shard's session is fenced before its time.
LEMMA EarlyKeepsRange ==
  ASSUME IInv, IInv', TInv, NEW f \in grid, NEW committee, fence_early(f, committee)
  PROVE  TInv'
  <1> DEFINE id == IF Closing(f) THEN head(f).request ELSE Len(requests) + 1
             r == IF Closing(f) THEN RequestFor(f)
                  ELSE RequestOf({f}, {}, [g \in {f} |-> committee])
             asked == IF Closing(f) THEN session
                      ELSE set_status(session, r.sources, "sealing", id)
             ses == Fenced(asked, f)
             done == [r EXCEPT !.activated = TRUE]
  <1>1. /\ HasHead(f) /\ stage = "early" /\ (Closing(f) \/ head(f).status = "active")
        /\ membership_request(r, f) /\ Activates(ses, id, r)
        /\ session' = activate(ses, id, r, [g \in {f} |-> committee])
        /\ requests' = IF Closing(f) THEN [requests EXCEPT ![id].activated = TRUE]
                       ELSE Append(requests, done)
        /\ reserved' = IF Closing(f) THEN reserved ELSE reserve(id, r.targets)
        /\ UNCHANGED <<grid, pending, stage>>
    BY DEF fence_early
  <1>2. /\ f \in Filters /\ requests \in Seq(RequestRecords) /\ Len(requests) \in Nat
        /\ session \in [Filters -> Seq(SessionRecords)]
        /\ reserved \in [Filters -> 0..Len(requests)]
    BY DEF IInv, Registry, Surroundings
  <1>3. Closing(f) => id \in DOMAIN requests /\ r = requests[id] /\ requests[id] \in RequestRecords
    BY <1>1, <1>2, HeadOf DEF Closing, RequestFor
  <1>4. /\ done.targets = r.targets /\ done.sources = r.sources /\ done.vacant = r.vacant
    <2>1. CASE Closing(f)
      BY <1>3, <2>1 DEF RequestRecords
    <2>2. CASE ~Closing(f)
      BY <2>2 DEF RequestOf
    <2> QED
      BY <2>1, <2>2
  <1>5. Closing(f) => requests' = [requests EXCEPT ![id] = done]
    BY <1>1, <1>3
  <1>6. Closing(f) => done = [requests[id] EXCEPT !.activated = TRUE]
    BY <1>3
  <1>7. HasHead(f) =>
          head(f).status = "active" \/ membership_request(requests[head(f).request], f)
    BY <1>1, <1>3
  <1> HIDE DEF r, id, done
  <1>8. ASSUME NEW h \in Filters, h # f PROVE session'[h] = session[h]
    <2>1. \A g : <<h, g>> \notin r.sources
      <3> SUFFICES ASSUME NEW g, <<h, g>> \in r.sources PROVE FALSE
        OBVIOUS
      <3>1. <<h, g>>[1] \in Sources(r)
        BY DEF Sources
      <3> QED
        BY <1>1, <1>8, <3>1 DEF membership_request
    <2>2. asked[h] = session[h] /\ session[h] \in Seq(SessionRecords)
      BY <1>2, <2>1, OtherShard
    <2> HIDE DEF asked
    <2>3. ses[h] = asked[h]
      BY <1>8 DEF Fenced
    <2> HIDE DEF ses
    <2>4. set_status(ses, r.sources, "closed", id)[h] = ses[h]
      BY <2>1, <2>2, <2>3, OtherShard
    <2>5. session' = activate_with(ses, id, r, [g \in {f} |-> committee])
      BY <1>1 DEF activate
    <2>6. session'[h] = set_status(ses, r.sources, "closed", id)[h]
      BY <1>8, <2>5 DEF activate_with
    <2> QED
      BY <2>2, <2>3, <2>4, <2>6
  <1>9. /\ DOMAIN requests \subseteq DOMAIN requests'
        /\ \A i \in DOMAIN requests :
             \/ requests'[i] = requests[i]
             \/ /\ membership_request(requests[i], f)
                /\ requests'[i] = [requests[i] EXCEPT !.activated = TRUE]
        /\ \A i \in DOMAIN requests' \ DOMAIN requests : membership_request(requests'[i], f)
    <2>1. CASE Closing(f)
      <3>1. DOMAIN requests' = DOMAIN requests
            /\ \A i \in DOMAIN requests : requests'[i] = IF i = id THEN done ELSE requests[i]
        BY <1>3, <1>5, <2>1
      <3> QED
        BY <1>1, <1>6, <1>3, <2>1, <3>1
    <2>2. CASE ~Closing(f)
      <3>1. requests' = Append(requests, done) /\ membership_request(done, f)
        BY <1>1, <1>4, <2>2 DEF membership_request, Sources
      <3>2. /\ DOMAIN requests' = 1..Len(requests) + 1 /\ DOMAIN requests = 1..Len(requests)
            /\ \A i \in DOMAIN requests : requests'[i] = requests[i]
            /\ requests'[Len(requests) + 1] = done
        BY <1>2, <3>1
      <3>3. ASSUME NEW i \in DOMAIN requests', i \notin DOMAIN requests PROVE i = Len(requests) + 1
        <4>1. i \in 1..Len(requests) + 1 /\ i \notin 1..Len(requests) /\ Len(requests) \in Nat
          BY <1>2, <3>2, <3>3
        <4> QED
          BY <4>1
      <3> QED
        BY <1>2, <3>1, <3>2, <3>3
    <2> QED
      BY <2>1, <2>2
  <1>10. ASSUME NEW i \in DOMAIN requests PROVE requests'[i].targets = requests[i].targets
    <2>1. requests[i] \in RequestRecords
      BY <1>2
    <2> QED
      BY <1>9, <2>1 DEF RequestRecords
  <1>11. Reservations'
    <2> SUFFICES ASSUME NEW h \in Filters, reserved'[h] # 0
                 PROVE  h \in DOMAIN requests'[reserved'[h]].targets
      BY DEF Reservations
    <2>1. ASSUME reserved'[h] = reserved[h] PROVE h \in DOMAIN requests'[reserved'[h]].targets
      <3>1. reserved[h] \in DOMAIN requests
        BY <1>2, <2>1
      <3> QED
        BY <1>10, <2>1, <3>1 DEF TInv, Reservations
    <2>2. ASSUME reserved'[h] # reserved[h] PROVE h \in DOMAIN requests'[reserved'[h]].targets
      <3>1. ~Closing(f) /\ reserved'[h] = id /\ h \in DOMAIN r.targets
        BY <1>1, <2>2 DEF reserve
      <3>2. id = Len(requests) + 1 /\ requests' = Append(requests, done)
        BY <1>1, <3>1 DEF id
      <3>3. requests'[id] = done
        BY <1>2, <3>2
      <3> QED
        BY <1>4, <3>1, <3>3
    <2> QED
      BY <2>1, <2>2
  <1>12. \A c \in pending : c.request # 0 => f \notin Sources(requests[c.request])
    BY <1>7, <1>2, FreeShard
  <1> QED
    BY <1>1, <1>8, <1>9, <1>11, <1>12, OwnShardStep

\* A registered shard starts its first session.
LEMMA InitializeKeepsRange ==
  ASSUME IInv, IInv', TInv, NEW f \in grid, initialize(f)
  PROVE  TInv'
  <1>1. /\ f \in Filters /\ ~HasHead(f) /\ stage = "membership"
        /\ session' = [session EXCEPT ![f] = <<NewSession(0, desired_members(f))>>]
        /\ UNCHANGED <<grid, requests, reserved, pending, stage>>
    BY DEF initialize, FirstSessionDue, IInv, Surroundings
  <1>2. \A h \in Filters : h # f => session'[h] = session[h]
    BY <1>1 DEF IInv, Registry
  <1>3. \A c \in pending : c.request # 0 => f \notin Sources(requests[c.request])
    BY <1>1, FreeShard
  <1>4. Reservations'
    BY <1>1 DEF TInv, Reservations
  <1> QED
    BY <1>1, <1>2, <1>3, <1>4, OwnShardStep

\* A new request: it asks active sessions to close and reserves its targets.
LEMMA ScheduledParts ==
  ASSUME IInv, TInv, NEW sources \in SUBSET Filters, NEW vacant \in SUBSET Filters,
         NEW targets, Committee(targets), NEW r, r = RequestOf(sources, vacant, targets),
         \A f \in sources : HasHead(f) /\ head(f).status = "active",
         requests' = Append(requests, r),
         session' = set_status(session, r.sources, "sealing", Len(requests) + 1),
         reserved' = reserve(Len(requests) + 1, targets)
  PROVE  /\ Made(r, sources, vacant, targets) /\ Steady(session', session)
         /\ DOMAIN requests \subseteq DOMAIN requests'
         /\ DOMAIN requests' \ DOMAIN requests = {Len(requests) + 1}
         /\ requests'[Len(requests) + 1] = r
         /\ \A i \in DOMAIN requests : requests'[i] = requests[i]
         /\ \A f \in Filters : HasHead(f) <=> HasHead(f)'
         /\ \A f \in Filters : Len(session'[f]) = Len(session[f])
         /\ Reservations'
  <1>1. /\ session \in [Filters -> Seq(SessionRecords)] /\ requests \in Seq(RequestRecords)
        /\ reserved \in [Filters -> 0..Len(requests)] /\ Len(requests) \in Nat
    BY DEF IInv, Registry
  <1>2. Made(r, sources, vacant, targets)
    BY <1>1, RequestOfParts
  <1>3. /\ DOMAIN requests \subseteq DOMAIN requests'
        /\ DOMAIN requests' \ DOMAIN requests = {Len(requests) + 1}
        /\ requests'[Len(requests) + 1] = r
        /\ \A i \in DOMAIN requests : requests'[i] = requests[i]
    <2>1. DOMAIN requests = 1..Len(requests) /\ DOMAIN requests' = 1..Len(requests) + 1
      BY <1>1
    <2>2. requests'[Len(requests) + 1] = r /\ \A i \in 1..Len(requests) : requests'[i] = requests[i]
      BY <1>1
    <2> QED
      BY <1>1, <2>1, <2>2
  <1>4. \A f \in Filters : \A g \in DOMAIN session[f] :
          <<f, g>> \in r.sources => session[f][g].status = "active"
    BY <1>2 DEF Made, head
  <1>5. /\ Steady(session', session) /\ session' \in [Filters -> Seq(SessionRecords)]
    <2>1. "sealing" \in Statuses /\ Len(requests) + 1 \in Nat
      BY <1>1 DEF Statuses
    <2> QED
      BY <1>1, <1>4, <2>1, StatusSteady
  <1>6. /\ \A f \in Filters : Len(session'[f]) = Len(session[f])
        /\ \A f \in Filters : HasHead(f) <=> HasHead(f)'
    BY <1>1, <1>5, HeadCount DEF Steady, HasHead
  <1>7. Reservations'
    <2> SUFFICES ASSUME NEW f \in Filters, reserved'[f] # 0
                 PROVE  f \in DOMAIN requests'[reserved'[f]].targets
      BY DEF Reservations
    <2>1. CASE f \in DOMAIN targets
      BY <1>2, <1>3, <2>1 DEF reserve, Made
    <2>2. CASE f \notin DOMAIN targets
      <3>1. reserved'[f] = reserved[f] /\ reserved[f] \in DOMAIN requests
        BY <1>1, <2>2 DEF reserve
      <3> QED
        BY <1>3, <3>1 DEF TInv, Reservations
    <2> QED
      BY <2>1, <2>2
  <1> QED
    BY <1>2, <1>3, <1>5, <1>6, <1>7

\* A shard's committee is to follow its provers.
LEMMA ReconcileKeepsRange ==
  ASSUME IInv, IInv', TInv, NEW f \in grid, reconcile_membership(f)
  PROVE  TInv'
  <1> DEFINE seated == [g \in {f} |-> desired_members(f)]
             r == RequestOf({f}, {}, seated)
             id == Len(requests) + 1
  <1>1. f \in Filters /\ {f} \in SUBSET Filters /\ {} \in SUBSET Filters
    BY DEF IInv, Surroundings
  <1>2. Committee(seated) /\ DOMAIN seated = {f}
    BY <1>1, DesiredType DEF Committee
  <1>3. /\ requests' = Append(requests, r)
        /\ session' = set_status(session, r.sources, "sealing", id)
        /\ reserved' = reserve(id, r.targets)
        /\ UNCHANGED <<grid, pending, stage>> /\ stage = "membership"
    BY DEF reconcile_membership
  <1>4. \A g \in {f} : HasHead(g) /\ head(g).status = "active"
    BY DEF reconcile_membership, MembershipDue
  <1>5. r.targets = seated
    BY DEF RequestOf
  <1> HIDE DEF seated, r
  <1>6. /\ Made(r, {f}, {}, seated) /\ Steady(session', session)
        /\ DOMAIN requests \subseteq DOMAIN requests'
        /\ DOMAIN requests' \ DOMAIN requests = {id}
        /\ requests'[id] = r
        /\ \A i \in DOMAIN requests : requests'[i] = requests[i]
        /\ \A h \in Filters : HasHead(h) <=> HasHead(h)'
        /\ Reservations'
    BY <1>1, <1>2, <1>3, <1>4, <1>5, ScheduledParts DEF r
  <1> HIDE DEF id
  <1>7. membership_request(r, f)
    <2>1. r.sources = {<<f, Len(session[f])>>} /\ r.vacant = {} /\ DOMAIN r.targets = {f}
      BY <1>2, <1>6 DEF Made
    <2>2. {s[1] : s \in r.sources} = {f}
      BY <2>1
    <2> QED
      BY <2>1, <2>2 DEF membership_request, Sources
  <1>8. ASSUME NEW h \in Filters, h # f PROVE session'[h] = session[h]
    <2>1. \A g : <<h, g>> \notin r.sources
      <3> SUFFICES ASSUME NEW g, <<h, g>> \in r.sources PROVE FALSE
        OBVIOUS
      <3>1. <<h, g>>[1] \in Sources(r)
        BY DEF Sources
      <3> QED
        BY <1>7, <1>8, <3>1 DEF membership_request
    <2>2. session[h] \in Seq(SessionRecords)
      BY DEF IInv, Registry
    <2> QED
      BY <1>3, <2>1, <2>2, OtherShard
  <1>9. \A c \in pending : c.request # 0 => f \notin Sources(requests[c.request])
    BY <1>1, <1>4, FreeShard
  <1> QED
    BY <1>3, <1>6, <1>7, <1>8, <1>9, OwnShardStep

\* A scheduled split waits for the parent alone.
LEMMA SplitScheduled ==
  ASSUME NEW c \in pending, c.kind = "split", GateSchedules(c), NEW targets \in Committees(c)
  PROVE  /\ Parent \in grid /\ HasHead(Parent) /\ SourcesOf(c) = {Parent}
         /\ head(Parent).status = "active" /\ DOMAIN targets = Kids
  <1>1. Parent \in grid /\ SourcesOf(c) # {} /\ SourcesOf(c) = {f \in {Parent} : HasHead(f)}
    BY DEF GateSchedules, stale_split, Schedulable, SourcesOf, Old
  <1>2. HasHead(Parent) /\ SourcesOf(c) = {Parent}
    BY <1>1
  <1>3. head(Parent).status = "active"
    BY <1>2 DEF GateSchedules, Schedulable, Old
  <1>4. PICK a \in Spread(Movers(c)) : targets = [f \in Kids |-> {p \in Movers(c) : a[p] = f}]
    BY DEF Committees
  <1> QED
    BY <1>1, <1>2, <1>3, <1>4

\* A scheduled merge waits for all the children that have sessions; it is
\* scheduled once the children are registered, or are about to be.
LEMMA MergeScheduled ==
  ASSUME IInv, TInv, NEW c \in pending, c.kind = "merge", GateSchedules(c),
         NEW targets \in Committees(c)
  PROVE  /\ SourcesOf(c) = {k \in Kids : HasHead(k)} /\ SourcesOf(c) # {}
         /\ DOMAIN targets = {Parent}
         /\ grid = Kids \/ \E d \in pending : d.kind = "split" /\ Passed(d)
         /\ \A d \in pending : ~(d.request # 0 /\ d.kind = "merge")
  <1>1. /\ SourcesOf(c) = {k \in Kids : HasHead(k)} /\ SourcesOf(c) # {}
        /\ targets = [f \in {Parent} |-> Movers(c)]
        /\ \A k \in Kids : HasHead(k) => head(k).status = "active"
    BY DEF GateSchedules, Schedulable, SourcesOf, Old, Committees
  <1>2. ASSUME grid # Kids PROVE \E d \in pending : d.kind = "split" /\ Passed(d)
    <2>1. PICK k \in Kids : HasHead(k) /\ head(k).status = "active"
      BY <1>1
    <2>2. k \in Filters /\ k # Parent /\ k \notin grid /\ LiveAt(k)
      BY <1>2, <2>1, ParentsAndKids DEF TInv, Gridded, LiveAt
    <2>3. ~LeftOut(k)
      BY <1>1 DEF LeftOut, LiveAt
    <2>4. PICK d \in pending : k \in New(d.kind) /\ Passed(d)
      BY <2>2, <2>3 DEF TInv, Living
    <2> QED
      BY <2>2, <2>4 DEF New
  <1>3. ASSUME NEW d \in pending, d.request # 0, d.kind = "merge" PROVE FALSE
    <2>1. MergeHolds(d) /\ d.request \in DOMAIN requests
      BY <1>3, ChangeParts DEF TInv, Links, Linked
    <2>2. PICK k \in Kids \ requests[d.request].vacant : TRUE
      BY <2>1 DEF MergeHolds
    <2>3. HasHead(k) /\ <<k, Len(session[k])>> \in requests[d.request].sources /\ k \in Filters
      BY <2>1, <2>2, ParentsAndKids DEF MergeHolds
    <2>4. head(k).status # "active"
      BY <2>1, <2>3, SourceHead
    <2> QED
      BY <1>1, <2>2, <2>3, <2>4
  <1> QED
    BY <1>1, <1>2, <1>3

\* A change is scheduled behind its sources.
LEMMA ScheduleKeepsRange ==
  ASSUME IInv, IInv', TInv, NEW c \in pending, GateSchedule(c)
  PROVE  TInv'
  <1> DEFINE vacant == Old(c.kind) \ SourcesOf(c)
  <1>a. PICK id : id = Len(requests) + 1
    OBVIOUS
  <1>b. PICK n : n = [c EXCEPT !.request = id]
    OBVIOUS
  <1>1. PICK targets \in Committees(c) :
          /\ requests' = Append(requests, RequestOf(SourcesOf(c), vacant, targets))
          /\ session' = set_status(session, RequestOf(SourcesOf(c), vacant, targets).sources,
                                   "sealing", id)
          /\ reserved' = reserve(id, targets)
          /\ pending' = (pending \ {c}) \cup {n}
    BY <1>a, <1>b DEF GateSchedule
  <1> DEFINE r == RequestOf(SourcesOf(c), vacant, targets)
  <1>2. /\ stage = "gate" /\ c.wait = 0 /\ GateSchedules(c) /\ c.request = 0
        /\ UNCHANGED <<grid, stage>>
    BY DEF GateSchedule, Due, GateSchedules, Schedulable
  <1>3. /\ New(c.kind) \subseteq Filters /\ Old(c.kind) \subseteq Filters
        /\ targets \in [New(c.kind) -> SUBSET Provers]
    BY CommitteesType
  <1>4. SourcesOf(c) \in SUBSET Filters /\ vacant \in SUBSET Filters /\ Committee(targets)
    BY <1>3 DEF SourcesOf, Committee
  <1>5. \A f \in SourcesOf(c) : HasHead(f) /\ head(f).status = "active"
    BY <1>2 DEF GateSchedules, Schedulable, SourcesOf
  <1>6. /\ n.kind = c.kind /\ n.wait = 0 /\ n.request = id /\ c.kind \in Kinds
        /\ id \notin DOMAIN requests /\ id # 0
    <2>1. requests \in Seq(RequestRecords)
      BY DEF IInv, Registry
    <2> QED
      BY <1>a, <1>b, <1>2, <2>1, ChangeParts
  <1>7. \A d \in pending : d.request # 0 => d.request \in DOMAIN requests
    BY ChangeParts
  <1> HIDE DEF r, vacant
  <1>8. /\ Made(r, SourcesOf(c), vacant, targets) /\ Steady(session', session)
        /\ DOMAIN requests \subseteq DOMAIN requests'
        /\ DOMAIN requests' \ DOMAIN requests = {id}
        /\ requests'[id] = r
        /\ \A i \in DOMAIN requests : requests'[i] = requests[i]
        /\ \A f \in Filters : HasHead(f) <=> HasHead(f)'
        /\ \A f \in Filters : Len(session'[f]) = Len(session[f])
        /\ Reservations'
    BY <1>a, <1>1, <1>4, <1>5, ScheduledParts DEF r
  <1>9. r.sources = {<<f, Len(session[f])>> : f \in SourcesOf(c)} /\ r.targets = targets
        /\ r.vacant = vacant /\ ~r.activated
    BY <1>8 DEF Made
  <1>10. c.kind = "merge" => \A d \in pending : ~(d.request # 0 /\ d.kind = "merge")
    BY <1>1, <1>2, MergeScheduled
  <1>11. OneEach'
    BY <1>1, <1>6, <1>7, <1>10 DEF TInv, OneEach
  <1>12. ASSUME NEW d \in pending, d.request # 0, d.kind = "merge" PROVE Parent \notin Sources(r)
    <2>1. c.kind = "split"
      BY <1>6, <1>10, <1>12 DEF Kinds
    <2>2. Parent \in grid /\ HasHead(Parent) /\ head(Parent).status = "active"
      BY <1>1, <1>2, <2>1, SplitScheduled
    <2>3. PICK e \in pending : e.kind = "split" /\ Passed(e)
      <3>1. MergeHolds(d)
        BY <1>12 DEF TInv, Links, Linked
      <3> QED
        BY <2>2, <3>1, ParentsAndKids DEF MergeHolds
    <2>4. /\ e.request \in DOMAIN requests
          /\ <<Parent, Len(session[Parent])>> \in requests[e.request].sources
      BY <2>3, ChangeParts DEF Passed, TInv, Links, Linked, SplitHolds
    <2> QED
      BY <2>2, <2>4, ParentsAndKids, SourceHead
  <1>13. SplitHolds(n)' \/ c.kind # "split"
    <2> SUFFICES ASSUME c.kind = "split" PROVE SplitHolds(n)'
      OBVIOUS
    <2>1. /\ Parent \in grid /\ HasHead(Parent) /\ SourcesOf(c) = {Parent}
          /\ DOMAIN targets = Kids
      BY <1>1, <1>2, SplitScheduled
    <2>2. HasHead(Parent)' /\ r.sources = {<<Parent, Len(session'[Parent])>>}
      BY <1>8, <1>9, <2>1, ParentsAndKids
    <2> QED
      BY <1>2, <1>6, <1>8, <1>9, <2>1, <2>2 DEF SplitHolds
  <1>14. MergeHolds(n)' \/ c.kind # "merge"
    <2> SUFFICES ASSUME c.kind = "merge" PROVE MergeHolds(n)'
      OBVIOUS
    <2>1. /\ SourcesOf(c) = {k \in Kids : HasHead(k)} /\ SourcesOf(c) # {}
          /\ DOMAIN targets = {Parent}
          /\ grid = Kids \/ \E d \in pending : d.kind = "split" /\ Passed(d)
      BY <1>1, <1>2, MergeScheduled
    <2>2. Kids \ r.vacant = SourcesOf(c)
      BY <1>9, <2>1 DEF vacant, Old
    <2>3. /\ r.sources = {<<k, Len(session'[k])>> : k \in SourcesOf(c)}
          /\ \A k \in SourcesOf(c) : HasHead(k)'
      BY <1>4, <1>5, <1>8, <1>9
    <2>4. ASSUME NEW d \in pending, d.kind = "split", Passed(d) PROVE d \in pending' /\ Passed(d)'
      BY <1>1, <1>2, <1>7, <1>8, <2>4 DEF Passed
    <2>5. \A j \in DOMAIN requests' : ~(j > id)
      <3>1. requests \in Seq(RequestRecords)
        BY DEF IInv, Registry
      <3>2. \A j \in DOMAIN requests' : j \in 1..Len(requests) \/ j = Len(requests) + 1
        BY <1>a, <1>8, <3>1
      <3> QED
        BY <1>a, <3>1, <3>2
    <2> QED
      BY <1>2, <1>6, <1>8, <1>9, <2>1, <2>2, <2>3, <2>4, <2>5 DEF MergeHolds
  <1>15. Linked(n)'
    BY <1>6, <1>13, <1>14 DEF Linked, Kinds
  <1>16. \A i \in DOMAIN requests' \ DOMAIN requests :
           /\ Owned(i)' /\ ~requests'[i].activated
           /\ (\E d \in pending : d.request # 0 /\ d.kind = "merge") =>
                Parent \notin Sources(requests'[i])
    BY <1>1, <1>6, <1>8, <1>9, <1>12 DEF Owned
  <1>17. \A i \in DOMAIN requests : SameRequest(requests[i], requests'[i])
    BY <1>8 DEF SameRequest
  <1>18. /\ \A d \in pending : d.request # 0 => d \in pending'
         /\ \A d \in pending' : d.request # 0 => d \in pending \/ Linked(d)'
    BY <1>1, <1>2, <1>15
  <1> QED
    BY <1>2, <1>8, <1>11, <1>16, <1>17, <1>18, SteadyStep

\* A child an activated merge recorded as vacant is left out.
LEMMA PassedWithout ==
  ASSUME IInv, NEW c \in pending, MergeHolds(c), Passed(c), c.request \in DOMAIN requests,
         NEW k \in requests[c.request].vacant
  PROVE  MergedWithout(k)
  <1>1. requests \in Seq(RequestRecords)
    BY DEF IInv, Registry
  <1>2. \A j \in c.request + 1 .. Len(requests) : j \in DOMAIN requests /\ j > c.request
    BY <1>1
  <1>3. Parent \in DOMAIN requests[c.request].targets /\ requests[c.request].activated
    BY DEF MergeHolds, Passed
  <1>4. \A j \in c.request + 1 .. Len(requests) : Parent \notin Sources(requests[j])
    BY <1>2 DEF MergeHolds
  <1> QED
    BY <1>3, <1>4 DEF MergedWithout

\* Applying a change leaves the records, and the other changes, as they are.
LEMMA ApplyFrame ==
  ASSUME IInv, TInv, NEW c \in pending, Apply(c)
  PROVE  /\ UNCHANGED <<session, requests, reserved, stage>>
         /\ pending' = pending \ {c} /\ c.wait = 0
         /\ Ungoverned(c) \/ (Passed(c) /\ Linked(c))
         /\ c.kind = "split" => Parent \in grid
         /\ OneEach' /\ Reservations' /\ Owners'
  <1>1. /\ UNCHANGED <<session, requests, reserved, stage>>
        /\ pending' = pending \ {c} /\ c.wait = 0 /\ GateApplies(c)
    BY DEF Apply, Consume, Due, records
  <1>2. Ungoverned(c) \/ (Passed(c) /\ Linked(c))
    BY <1>1 DEF GateApplies, Passed, TInv, Links
  <1>3. c.kind = "split" => Parent \in grid
    BY <1>1 DEF GateApplies, stale_split
  <1>4. OneEach' /\ Reservations'
    BY <1>1 DEF TInv, OneEach, Reservations
  <1>5. Owners'
    <2> SUFFICES ASSUME NEW i \in DOMAIN requests, ~requests[i].activated PROVE Owned(i)'
      BY <1>1 DEF Owners
    <2>1. Owned(i) /\ i # 0
      BY DEF TInv, Owners, IInv, Registry
    <2>2. \A d \in pending : d.request = i => d \in pending'
      BY <1>1, <1>2, <2>1 DEF Ungoverned, Passed
    <2> QED
      BY <1>1, <2>1, <2>2 DEF Owned, membership_request, Sources
  <1> QED
    BY <1>1, <1>2, <1>3, <1>4, <1>5

\* Two changes that wait for a shard's last session are one.
LEMMA SameSource ==
  ASSUME IInv, TInv, NEW c \in pending, NEW d \in pending, c.request # 0, d.request # 0,
         NEW f \in Filters, HasHead(f),
         <<f, Len(session[f])>> \in requests[c.request].sources,
         <<f, Len(session[f])>> \in requests[d.request].sources
  PROVE  c = d
  <1>1. c.request \in DOMAIN requests /\ d.request \in DOMAIN requests
    BY ChangeParts
  <1>2. c.request = d.request
    BY <1>1, SourceHead
  <1> QED
    BY <1>2 DEF TInv, OneEach

\* A split takes effect: the parent's committee has ended, or never was.
LEMMA SplitApplied ==
  ASSUME IInv, IInv', TInv, NEW c \in pending, Apply(c), c.kind = "split"
  PROVE  TInv'
  <1>1. /\ UNCHANGED <<session, requests, reserved, stage>>
        /\ pending' = pending \ {c} /\ c.wait = 0
        /\ Ungoverned(c) \/ (Passed(c) /\ Linked(c))
        /\ Parent \in grid
        /\ OneEach' /\ Reservations' /\ Owners'
    BY ApplyFrame
  <1>2. grid = {Parent} /\ grid' = Kids
    <2>1. grid = {Parent}
      BY <1>1, ParentsAndKids DEF TInv, Gridded
    <2> QED
      BY <2>1 DEF Apply, Old, New
  <1>3. Ungoverned(c) => ~HasHead(Parent)
    BY DEF Ungoverned, Old
  <1>4. Passed(c) => SplitHolds(c) /\ requests[c.request].activated /\ c.request # 0
    BY <1>1, <1>3 DEF Linked, SplitHolds, Passed, Ungoverned
  <1>5. ~LiveAt(Parent)
    <2>1. CASE Ungoverned(c)
      BY <1>3, <2>1 DEF LiveAt
    <2>2. CASE Passed(c)
      <3>1. c.request \in DOMAIN requests /\ HasHead(Parent)
            /\ <<Parent, Len(session[Parent])>> \in requests[c.request].sources
        BY <1>4, <2>2, ChangeParts DEF SplitHolds
      <3> QED
        BY <1>4, <2>2, <3>1, ParentsAndKids, SourceHead DEF LiveAt
    <2> QED
      BY <1>1, <2>1, <2>2
  <1>6. Gridded'
    BY <1>2 DEF Gridded
  <1>7. Living'
    BY <1>1, <1>2, <1>5, ParentsAndKids DEF Living, LiveAt, HasHead, head
  <1>8. Links'
    <2> SUFFICES ASSUME NEW d \in pending, d # c, d.request # 0 PROVE Linked(d)'
      BY <1>1 DEF Links
    <2>1. Linked(d) /\ d.kind \in Kinds /\ d.wait = 0
      BY ChangeParts DEF TInv, Links, Linked
    <2>2. ASSUME NEW e \in pending, e.request # 0, e.kind = "split" PROVE e = c
      <3>1. SplitHolds(e)
        BY <2>2 DEF TInv, Links, Linked
      <3>2. HasHead(Parent) /\ <<Parent, Len(session[Parent])>> \in requests[e.request].sources
        BY <3>1 DEF SplitHolds
      <3>3. Passed(c)
        BY <1>1, <1>3, <3>2
      <3>4. <<Parent, Len(session[Parent])>> \in requests[c.request].sources /\ c.request # 0
        BY <1>4, <3>3 DEF SplitHolds
      <3> QED
        BY <2>2, <3>2, <3>4, ParentsAndKids, SameSource
    <2>3. d.kind = "merge"
      BY <2>1, <2>2 DEF Kinds
    <2>4. MergeHolds(d)
      BY <2>1, <2>3 DEF Linked
    <2>5. MergeHolds(d)'
      BY <1>1, <1>2, <2>4 DEF MergeHolds, HasHead
    <2> QED
      BY <2>1, <2>3, <2>5 DEF Linked
  <1> QED
    BY <1>1, <1>6, <1>7, <1>8 DEF TInv

\* A merge takes effect: the children's committees have ended, or never were,
\* or are those of children it left out.
LEMMA MergeApplied ==
  ASSUME IInv, IInv', TInv, NEW c \in pending, Apply(c), c.kind = "merge"
  PROVE  TInv'
  <1>1. /\ UNCHANGED <<session, requests, reserved, stage>>
        /\ pending' = pending \ {c} /\ c.wait = 0
        /\ Ungoverned(c) \/ (Passed(c) /\ Linked(c))
        /\ OneEach' /\ Reservations' /\ Owners'
    BY ApplyFrame
  <1>2. grid' = {Parent}
    BY ParentsAndKids DEF Apply, Old, New, TInv, Gridded
  <1>3. Ungoverned(c) => \A k \in Kids : ~HasHead(k)
    BY DEF Ungoverned, Old
  <1>4. Passed(c) => /\ MergeHolds(c) /\ requests[c.request].activated /\ c.request # 0
                     /\ grid = Kids /\ c.request \in DOMAIN requests
    <2> SUFFICES ASSUME Passed(c)
                 PROVE  /\ MergeHolds(c) /\ requests[c.request].activated /\ c.request # 0
                        /\ grid = Kids /\ c.request \in DOMAIN requests
      OBVIOUS
    <2>1. MergeHolds(c) /\ requests[c.request].activated /\ c.request # 0
      BY <1>1 DEF Linked, Passed, Ungoverned
    <2> QED
      BY <2>1, ChangeParts DEF MergeHolds
  <1>5. ASSUME Passed(c), NEW k \in Kids \ requests[c.request].vacant PROVE HasHead(k) /\ ~LiveAt(k)
    <2>1. HasHead(k) /\ <<k, Len(session[k])>> \in requests[c.request].sources /\ k \in Filters
      BY <1>4, <1>5, ParentsAndKids DEF MergeHolds
    <2> QED
      BY <1>4, <1>5, <2>1, SourceHead DEF LiveAt
  <1>6. ASSUME NEW k \in Kids, LiveAt(k) PROVE LeftOut(k)
    <2>1. Passed(c)
      BY <1>1, <1>3, <1>6 DEF LiveAt
    <2>2. k \in requests[c.request].vacant
      BY <1>5, <1>6, <2>1
    <2>3. MergedWithout(k)
      BY <1>4, <2>1, <2>2, PassedWithout
    <2>4. PICK s \in Kids \ requests[c.request].vacant : TRUE
      BY <1>4, <2>1 DEF MergeHolds
    <2> QED
      BY <1>5, <2>1, <2>3, <2>4 DEF LeftOut
  <1>7. Gridded'
    BY <1>2 DEF Gridded
  <1>8. Living'
    BY <1>1, <1>2, <1>6, ParentsAndKids
    DEF Living, LiveAt, LeftOut, MergedWithout, HasHead, head
  <1>9. Links'
    <2> SUFFICES ASSUME NEW d \in pending, d # c, d.request # 0 PROVE Linked(d)'
      BY <1>1 DEF Links
    <2>1. Linked(d) /\ d.kind \in Kinds /\ d.wait = 0
      BY ChangeParts DEF TInv, Links, Linked
    <2>2. CASE d.kind = "merge"
      <3>1. \E k \in Kids : HasHead(k)
        BY <2>1, <2>2 DEF Linked, MergeHolds
      <3>2. c.request # 0
        BY <1>1, <1>3, <3>1 DEF Passed
      <3> QED
        BY <2>2, <3>2 DEF TInv, OneEach
    <2>3. CASE d.kind = "split"
      <3>1. SplitHolds(d)
        BY <2>1, <2>3 DEF Linked
      <3>2. SplitHolds(d)'
        BY <1>1, <1>2, <3>1 DEF SplitHolds, HasHead
      <3> QED
        BY <2>1, <2>3, <3>2 DEF Linked
    <2> QED
      BY <2>1, <2>2, <2>3 DEF Kinds
  <1> QED
    BY <1>1, <1>7, <1>8, <1>9 DEF TInv

\* The initial state: one grid, no session and no change.
LEMMA InitInRange ==
  ASSUME Init
  PROVE  TInv
  <1>1. /\ session = [f \in Filters |-> <<>>] /\ requests = <<>> /\ pending = {}
        /\ reserved = [f \in Filters |-> 0] /\ budget \in Budgets /\ grid \in budget.grids
    BY DEF Init
  <1>2. Gridded
    <2>1. budget \in Budget
      BY <1>1, FrameAssumption
    <2> QED
      BY <1>1, <2>1 DEF Budget, Gridded
  <1>3. DOMAIN requests = {} /\ \A f \in Filters : ~HasHead(f)
    BY <1>1 DEF HasHead
  <1> QED
    BY <1>1, <1>2, <1>3 DEF TInv, Links, OneEach, Owners, Living, LiveAt, Reservations

\* Every step, and stuttering.
LEMMA StepInRange ==
  ASSUME IInv, TInv, [Next]_vars
  PROVE  TInv'
  <1>0. IInv'
    BY StepHolds
  <1>1. CASE UNCHANGED vars
    <2>1. Steady(session', session)
      BY <1>1 DEF Steady, vars
    <2>2. UNCHANGED <<grid, requests, reserved, pending, stage>>
      BY <1>1 DEF vars
    <2> QED
      BY <1>0, <2>1, <2>2, QuietStep
  <1>2. CASE Messages
    <2>1. ASSUME NEW f \in Filters, NEW g \in DOMAIN session[f], NEW cp \in Checkpoints,
                 \/ FrameHeader(f, g, cp)
                 \/ \E last \in Checkpoints : PartialDrain(f, g, cp, last)
                 \/ \E drain \in BOOLEAN : apply_submission(f, g, cp, drain)
          PROVE  TInv'
      BY <1>0, <2>1, FrameKeepsRange, SubmissionKeepsRange
    <2>2. "split" \in Kinds /\ "merge" \in Kinds
      BY DEF Kinds
    <2> QED
      BY <1>0, <1>2, <2>1, <2>2, ProposeKeepsRange, PeopleKeepRange
      DEF Messages, Moves, invoke_shard_split, invoke_shard_merge
  <1>3. CASE Pass
    <2>1. ASSUME NEW c \in pending, ConsumeStale(c) \/ GateSchedule(c)
          PROVE  TInv'
      BY <1>0, <2>1, ConsumeKeepsRange, ScheduleKeepsRange
    <2>2. ASSUME NEW c \in pending, Apply(c)
          PROVE  TInv'
      <3>1. c.kind = "split" \/ c.kind = "merge"
        BY ChangeParts DEF Kinds
      <3> QED
        BY <1>0, <2>2, <3>1, SplitApplied, MergeApplied
    <2>3. ASSUME NEW f \in grid,
                 NEW committee \in SUBSET desired_members(f) \ {{}, desired_members(f)},
                 fence_early(f, committee)
          PROVE  TInv'
      BY <1>0, <2>3, EarlyKeepsRange
    <2>4. ASSUME NEW f \in grid,
                 \/ activate_sealed_successors(f) \/ fence_stalled_sources(f)
                 \/ initialize(f) \/ reconcile_membership(f)
          PROVE  TInv'
      BY <1>0, <2>4, SealedKeepsRange, StalledKeepsRange, InitializeKeepsRange, ReconcileKeepsRange
    <2>5. CASE NextStage
      BY <1>0, <2>5, StageKeepsRange
    <2>6. CASE NextFrame
      BY <1>0, <2>6, NextFrameKeepsRange
    <2> QED
      BY <1>3, <2>1, <2>2, <2>3, <2>4, <2>5, <2>6 DEF Pass
  <1> QED
    BY <1>1, <1>2, <1>3 DEF Next

\* A live session is on a registered shard or on a successor's whose sources
\* have closed; in both cases the other side of the split is not live, unless a
\* merge left it out.
LEMMA RangeHolds ==
  ASSUME IInv, TInv, NEW k \in Kids, LiveAt(Parent), LiveAt(k)
  PROVE  MergedWithout(k)
  <1>1. Parent \in Filters /\ k \in Filters /\ k # Parent /\ ~LeftOut(Parent)
    BY ParentsAndKids DEF LeftOut
  <1>2. ASSUME NEW c \in pending, Passed(c), c.kind = "split" PROVE FALSE
    <2>1. /\ c.request \in DOMAIN requests /\ HasHead(Parent)
          /\ <<Parent, Len(session[Parent])>> \in requests[c.request].sources
      BY <1>2, ChangeParts DEF Passed, TInv, Links, Linked, SplitHolds
    <2> QED
      BY <1>1, <1>2, <2>1, SourceHead DEF Passed, LiveAt
  <1>3. ASSUME NEW c \in pending, Passed(c), c.kind = "merge" PROVE MergedWithout(k)
    <2>1. MergeHolds(c) /\ c.request \in DOMAIN requests
      BY <1>3, ChangeParts DEF Passed, TInv, Links, Linked
    <2>2. CASE k \in requests[c.request].vacant
      BY <1>3, <2>1, <2>2, PassedWithout
    <2>3. CASE k \notin requests[c.request].vacant
      <3>1. HasHead(k) /\ <<k, Len(session[k])>> \in requests[c.request].sources
        BY <2>1, <2>3 DEF MergeHolds
      <3> QED
        BY <1>1, <1>3, <2>1, <3>1, SourceHead DEF Passed, LiveAt
    <2> QED
      BY <2>2, <2>3
  <1>4. CASE \E c \in pending : Passed(c)
    BY <1>2, <1>3, <1>4, ChangeParts DEF Kinds
  <1>5. CASE ~ \E c \in pending : Passed(c)
    <2>1. Parent \in grid /\ (k \in grid \/ LeftOut(k))
      BY <1>1, <1>5 DEF TInv, Living
    <2> QED
      BY <2>1, ParentsAndKids DEF TInv, Gridded, LeftOut
  <1> QED
    BY <1>4, <1>5

\* A pending change keeps the sessions it was scheduled with, whoever joins,
\* leaves, or loses or regains a seat; successors start only where it awaits
\* them, and a shard it did not wait for is one it recorded as vacant
\* (schedule_with_vacant, gate_topology_change_sized, activate_with).
THEOREM RangeInvariance == Spec => []TInv
  <1>1. Init => TInv
    BY InitInRange
  <1>2. IInv /\ TInv /\ [Next]_vars => TInv'
    BY StepInRange
  <1> QED
    BY <1>1, <1>2, Invariance, PTL DEF Spec

\* An address range is under two committees only where a merge took effect
\* without a child it had recorded as vacant: one live session per shard, and
\* never one on a parent and one on its child otherwise (activate_with,
\* schedule_with_vacant, gate_topology_change_sized, reconcile_membership).
THEOREM RangeSafe == Spec => []OverlapsOnlyVacant
  <1>1. IInv /\ TInv /\ OneLivePerShard => OverlapsOnlyVacant
    BY RangeHolds DEF OverlapsOnlyVacant
  <1> QED
    BY <1>1, Invariance, RangeInvariance, OneLiveSafe, PTL
============================================================================
