--------------------------- MODULE TransfersProofs ---------------------------
(***************************************************************************)
(* Proofs about Transfers, for every set of products, warehouses and       *)
(* transfers, every payload, every opening stock and any number of         *)
(* requests.                                                               *)
(***************************************************************************)
EXTENDS Transfers, StockLemmas

(* One step of one request, of a client or of another service. *)
LEMMA NextCases ==
    ASSUME Next
    PROVE  \/ \E t \in Transfers : Create(t)
           \/ \E r \in Requests, operation \in Operations, t \in Transfers :
                 Load(r, operation, t) \/ RejectLoad(r, operation, t)
           \/ \E r \in Requests : Commit(r)
           \/ \E r \in Requests : Refuse(r) \/ Fail(r)
           \/ \E c \in OtherChanges : OtherChange(c)
           \/ UNCHANGED vars
  BY DEF Next, Handle, Quiet

(* Both ends of a transfer are warehouses, its items are numbers of products. *)
LEMMA ShapeType ==
    ASSUME NEW s \in Shapes
    PROVE  /\ s.source \in Warehouses /\ s.destination \in Warehouses
           /\ s.source # s.destination
           /\ \A x \in DOMAIN s.items : x \in Products /\ s.items[x] \in Nat
  BY ShapesAssumption DEF ValidShape

(* The lines a leg books are stock changes. *)
LEMMA LineType ==
    ASSUME NEW shape \in Shapes, NEW leg \in Leg, NEW c \in LinesOf(shape, leg)
    PROVE  c \in Change
  <1>1. PICK x \in DOMAIN shape.items :
            c = MovementOf(<<x, leg.warehouse>>, leg.type,
                           IF leg.type = "TRANSFER_OUT" THEN -shape.items[x] ELSE shape.items[x])
    BY DEF LinesOf
  <1>2. <<x, leg.warehouse>> \in Pairs
    BY PairsAssumption, ShapeType DEF Leg
  <1>3. leg.type \in MovementTypes
    BY DEF Leg, MovementTypes, IncreasingTypes, DecreasingTypes
  <1>4. shape.items[x] \in Int
    BY ShapeType
  <1> QED
    BY <1>1, <1>2, <1>3, <1>4 DEF MovementOf, Change

(* The row a change leaves is a row. *)
LEMMA RowAfterType ==
    ASSUME NEW c \in Change, NEW l \in Level, NEW m \in Level
    PROVE  RowAfter(c, l, m) \in Level
  BY DEF RowAfter, NextQuantity, NextReserved, Level, Change

(* Booking stock changes leaves stock rows. *)
LEMMA AfterType ==
    ASSUME levels \in [Pairs -> Level], NEW lines, \A c \in lines : c \in Change
    PROVE  After(lines) \in [Pairs -> Level]
  <1> SUFFICES ASSUME NEW p \in Pairs PROVE After(lines)[p] \in Level
    BY DEF After
  <1>1. CASE \E c \in lines : c.pair = p
    <2> DEFINE c == CHOOSE c \in lines : c.pair = p
    <2>1. c \in Change
      BY <1>1
    <2>2. RowAfter(c, levels[p], levels[p]) \in Level
      BY <2>1, RowAfterType
    <2> QED
      BY <1>1, <2>2 DEF After
  <1>2. CASE ~ \E c \in lines : c.pair = p
    BY <1>2 DEF After
  <1> QED
    BY <1>1, <1>2

(* The legs a loaded request writes. *)
LEMMA LegsType ==
    ASSUME TypeOK, NEW r \in Requests, pc[r] = "loaded"
    PROVE  /\ request[r].transfer \in Transfers
           /\ request[r].operation \in Operations
           /\ request[r].loaded \in Transfer
           /\ transfers[request[r].transfer] \in Transfer
           /\ LegsOf(request[r]) \in Seq(Leg)
           /\ \A c \in RequestLines(r) : c \in Change
  <1>1. /\ request[r] \in [operation : Operations, transfer : Transfers, loaded : Transfer]
        /\ transfers[request[r].transfer] # NoTransfer
    BY DEF TypeOK, RequestOK
  <1> DEFINE shape == request[r].loaded.shape
  <1>2. LegsOf(request[r]) \in Seq(Leg)
    <2>1. shape \in Shapes /\ shape.source \in Warehouses /\ shape.destination \in Warehouses
      BY <1>1, ShapeType DEF Transfer
    <2>2. /\ [type |-> "TRANSFER_OUT", warehouse |-> shape.source] \in Leg
          /\ [type |-> "TRANSFER_IN", warehouse |-> shape.destination] \in Leg
          /\ [type |-> "TRANSFER_IN", warehouse |-> shape.source] \in Leg
      BY <2>1 DEF Leg
    <2> HIDE DEF shape
    <2>3. request[r].operation \in Operations
      BY <1>1
    <2>4. \A leg \in Leg : <<leg>> \in Seq(Leg)
      OBVIOUS
    <2> QED
      BY <2>2, <2>3, <2>4 DEF LegsOf, Operations, shape
  <1>3. \A c \in RequestLines(r) : c \in Change
    BY <1>1, <1>2, LineType DEF RequestLines, Transfer
  <1> QED
    BY <1>1, <1>2, <1>3 DEF TypeOK

(* What a transaction writes into its transfer: the status and the version.  *)
LEMMA CommitWrites ==
    ASSUME TypeOK, NEW r \in Requests, Commit(r)
    PROVE  LET t == request[r].transfer IN
           /\ DOMAIN transfers' = Transfers
           /\ \A s \in Transfers \ {t} : transfers'[s] = transfers[s]
           /\ transfers'[t] = [shape |-> transfers[t].shape,
                               status |-> StatusAfter(request[r].operation),
                               version |-> transfers[t].version + 1]
  BY LegsType DEF Commit, TypeOK

(* Committing a transition writes a transfer that exists and removes none. *)
LEMMA CommitStays ==
    ASSUME TypeOK, NEW r \in Requests, Commit(r)
    PROVE  /\ transfers' \in [Transfers -> Transfer \cup {NoTransfer}]
           /\ transfers'[request[r].transfer] # NoTransfer
           /\ \A s \in Transfers : transfers[s] # NoTransfer => transfers'[s] # NoTransfer
  <1> DEFINE t == request[r].transfer
  <1>1. /\ transfers[t].shape \in Shapes /\ transfers[t].version \in Nat
        /\ request[r].operation \in Operations
    BY LegsType DEF Commit, Transfer
  <1>2. StatusAfter(request[r].operation) \in Statuses
    BY <1>1 DEF StatusAfter, Operations, Statuses
  <1>3. transfers'[t] = [shape |-> transfers[t].shape,
                         status |-> StatusAfter(request[r].operation),
                         version |-> transfers[t].version + 1]
    BY CommitWrites
  <1>4. transfers'[t] \in Transfer
    BY <1>1, <1>2, <1>3 DEF Transfer
  <1>5. /\ DOMAIN transfers' = Transfers
        /\ \A s \in Transfers \ {t} : transfers'[s] = transfers[s]
        /\ transfers' = [s \in Transfers |-> transfers'[s]]
    BY CommitWrites DEF Commit, TypeOK
  <1> QED
    BY <1>4, <1>5, NoTransferAssumption DEF TypeOK

-----------------------------------------------------------------------------

(* The first state has the types it should. *)
LEMMA TypeInit == Init => TypeOK
  BY TransfersOpeningAssumption DEF Init, TypeOK, RequestOK

(* A step leaves a request alone that it does not touch: a transfer never    *)
(* disappears.                                                               *)
LEMMA RequestKept ==
    ASSUME TypeOK, NEW s \in Requests, pc'[s] = pc[s], request'[s] = request[s],
           \A t \in Transfers : transfers[t] # NoTransfer => transfers'[t] # NoTransfer
    PROVE  RequestOK(s)'
  <1>1. RequestOK(s)
    BY DEF TypeOK
  <1> QED
    BY <1>1 DEF RequestOK

(* The answer to a request leaves nothing of it and the others as they were. *)
LEMMA AnswerType ==
    ASSUME TypeOK, NEW r \in Requests, NEW outcome \in {"committed", "refused"},
           Answer(r, outcome),
           \A t \in Transfers : transfers[t] # NoTransfer => transfers'[t] # NoTransfer
    PROVE  /\ pc' \in [Requests -> {"idle", "loaded", "committed", "refused"}]
           /\ DOMAIN request' = Requests
           /\ \A s \in Requests : RequestOK(s)'
  <1>1. /\ pc' \in [Requests -> {"idle", "loaded", "committed", "refused"}]
        /\ DOMAIN request' = Requests
    BY DEF TypeOK, Answer
  <1>2. RequestOK(r)'
    BY DEF TypeOK, Answer, RequestOK
  <1>3. ASSUME NEW s \in Requests \ {r} PROVE RequestOK(s)'
    <2>1. pc'[s] = pc[s] /\ request'[s] = request[s]
      BY DEF TypeOK, Answer
    <2> QED
      BY <2>1, RequestKept
  <1> QED
    BY <1>1, <1>2, <1>3

(* Every step leaves every variable with its type, and every loaded request  *)
(* with a transfer that exists and that its operation accepted.              *)
LEMMA TypeStep == TypeOK /\ [Next]_vars => TypeOK'
  <1> SUFFICES ASSUME TypeOK, [Next]_vars PROVE TypeOK'
    OBVIOUS
  <1>1. ASSUME NEW t \in Transfers, Create(t) PROVE TypeOK'
    <2>1. PICK shape \in Shapes :
             transfers' = [transfers EXCEPT ![t] = [shape |-> shape, status |-> "DRAFT", version |-> 1]]
      BY <1>1 DEF Create
    <2>2. transfers' \in [Transfers -> Transfer \cup {NoTransfer}]
      BY <2>1 DEF TypeOK, Transfer, Statuses
    <2>3. \A s \in Transfers : transfers[s] # NoTransfer => transfers'[s] # NoTransfer
      BY <1>1, <2>1 DEF Create, TypeOK
    <2>4. \A s \in Requests : RequestOK(s)'
      BY <1>1, <2>3, RequestKept DEF Create
    <2> QED
      BY <1>1, <2>2, <2>4 DEF Create, TypeOK
  <1>2. ASSUME NEW r \in Requests, NEW operation \in Operations, NEW t \in Transfers,
               Load(r, operation, t)
        PROVE  TypeOK'
    <2>1. transfers[t] \in Transfer /\ transfers[t] # NoTransfer
      BY <1>2 DEF Load, Accepts, TypeOK
    <2>2. request'[r] = [operation |-> operation, transfer |-> t, loaded |-> transfers[t]]
      BY <1>2 DEF Load, TypeOK
    <2>3. RequestOK(r)'
      BY <1>2, <2>1, <2>2 DEF Load, Accepts, TypeOK, RequestOK
    <2>4. ASSUME NEW s \in Requests \ {r} PROVE RequestOK(s)'
      <3>1. pc'[s] = pc[s] /\ request'[s] = request[s] /\ transfers' = transfers
        BY <1>2 DEF Load, TypeOK
      <3> QED
        BY <3>1, RequestKept
    <2> QED
      BY <1>2, <2>3, <2>4 DEF Load, TypeOK
  <1>3. ASSUME NEW r \in Requests, NEW operation \in Operations, NEW t \in Transfers,
               RejectLoad(r, operation, t)
        PROVE  TypeOK'
    BY <1>3 DEF RejectLoad, TypeOK, RequestOK
  <1>4. ASSUME NEW r \in Requests, Commit(r) PROVE TypeOK'
    <2> DEFINE t == request[r].transfer
    <2>1. pc[r] = "loaded" /\ Answer(r, "committed")
      BY <1>4 DEF Commit
    <2>2. levels' \in [Pairs -> Level]
      BY <1>4, <2>1, AfterType, LegsType DEF Commit, TypeOK
    <2>3. legs' \in [Transfers -> Seq(Leg)]
      BY <1>4, <2>1, LegsType DEF Commit, TypeOK
    <2>7. overtaken' \subseteq Transfers /\ recorded' = recorded
      BY <1>4, <2>1, LegsType DEF Commit, TypeOK
    <2> QED
      BY <1>4, <2>1, <2>2, <2>3, <2>7, AnswerType, CommitStays DEF TypeOK
  <1>5. ASSUME NEW r \in Requests, Refuse(r) \/ Fail(r) PROVE TypeOK'
    <2>1. Answer(r, "refused") /\ UNCHANGED <<levels, transfers, legs, recorded, overtaken>>
      BY <1>5 DEF Refuse, Fail
    <2> QED
      BY <2>1, AnswerType DEF TypeOK
  <1>6. ASSUME NEW c \in OtherChanges, OtherChange(c) PROVE TypeOK'
    <2>1. c \in Change /\ c.pair[1] \in Products /\ c.delta \in Int
      BY OtherChangesAssumption, PairsAssumption DEF Change
    <2>2. levels' \in [Pairs -> Level]
      BY <1>6, <2>1, AfterType DEF OtherChange, TypeOK
    <2>3. \A s \in Requests : RequestOK(s)'
      BY <1>6, RequestKept DEF OtherChange
    <2>4. recorded' \in [Products -> Int]
      BY <1>6, <2>1 DEF OtherChange, TypeOK
    <2> QED
      BY <1>6, <2>2, <2>3, <2>4 DEF OtherChange, TypeOK
  <1>7. CASE UNCHANGED vars
    BY <1>7 DEF vars, TypeOK, RequestOK
  <1> QED
    BY <1>1, <1>2, <1>3, <1>4, <1>5, <1>6, <1>7, NextCases

(* The type invariant, for every instance. *)
THEOREM TypeCorrect == Spec => []TypeOK
  BY TypeInit, TypeStep, PTL DEF Spec

-----------------------------------------------------------------------------
(* A request at work holds the transfer as it was, and the present transfer  *)
(* if its version has not changed.                                           *)
Remembers(r) ==
    LET t == request[r].transfer
        loaded == request[r].loaded
    IN
    /\ loaded.shape = transfers[t].shape
    /\ loaded.version <= transfers[t].version
    /\ loaded.version = transfers[t].version => loaded.status = transfers[t].status

MemoryInv == \A r \in Requests : pc[r] = "loaded" => Remembers(r)

(* What requests remember stays true of a step that writes no transfer and   *)
(* loads none.                                                               *)
LEMMA MemoryKept ==
    ASSUME TypeOK, MemoryInv, NEW s \in Requests,
           pc'[s] = pc[s], request'[s] = request[s],
           pc[s] = "loaded" =>
               transfers'[request[s].transfer] = transfers[request[s].transfer]
    PROVE  pc'[s] = "loaded" => Remembers(s)'
  BY DEF MemoryInv, Remembers

(* A transfer keeps its shape and its versions grow, so a copy with the      *)
(* version of the transfer is the transfer.                                  *)
LEMMA MemoryStep == TypeOK /\ MemoryInv /\ [Next]_vars => MemoryInv'
  <1> SUFFICES ASSUME TypeOK, MemoryInv, [Next]_vars PROVE MemoryInv'
    OBVIOUS
  <1>1. ASSUME NEW t \in Transfers, Create(t) PROVE MemoryInv'
    <2> SUFFICES ASSUME NEW s \in Requests PROVE pc'[s] = "loaded" => Remembers(s)'
      BY DEF MemoryInv
    <2>1. pc[s] = "loaded" => request[s].transfer # t /\ request[s].transfer \in Transfers
      BY <1>1, LegsType, NoTransferAssumption DEF Create
    <2>2. \A u \in Transfers \ {t} : transfers'[u] = transfers[u]
      BY <1>1 DEF Create, TypeOK
    <2> QED
      BY <1>1, <2>1, <2>2, MemoryKept DEF Create
  <1>2. ASSUME NEW r \in Requests, NEW operation \in Operations, NEW t \in Transfers,
               Load(r, operation, t)
        PROVE  MemoryInv'
    <2>1. request'[r] = [operation |-> operation, transfer |-> t, loaded |-> transfers[t]]
      BY <1>2 DEF Load, TypeOK
    <2>2. transfers[t] \in Transfer
      BY <1>2 DEF Load, Accepts, TypeOK
    <2>3. Remembers(r)'
      BY <1>2, <2>1, <2>2 DEF Load, Remembers, Transfer
    <2>4. ASSUME NEW s \in Requests \ {r} PROVE pc'[s] = "loaded" => Remembers(s)'
      <3>1. pc'[s] = pc[s] /\ request'[s] = request[s] /\ transfers' = transfers
        BY <1>2 DEF Load, TypeOK
      <3> QED
        BY <3>1, MemoryKept
    <2> QED
      BY <2>3, <2>4 DEF MemoryInv
  <1>3. ASSUME NEW r \in Requests, NEW outcome \in {"refused", "committed"},
               pc' = [pc EXCEPT ![r] = outcome], \A s \in Requests \ {r} : request'[s] = request[s],
               transfers' = transfers
        PROVE  MemoryInv'
    <2>1. pc'[r] # "loaded"
      BY <1>3 DEF TypeOK
    <2>2. ASSUME NEW s \in Requests \ {r} PROVE pc'[s] = "loaded" => Remembers(s)'
      <3>1. pc'[s] = pc[s] /\ request'[s] = request[s]
        BY <1>3 DEF TypeOK
      <3> QED
        BY <1>3, <3>1, MemoryKept
    <2> QED
      BY <2>1, <2>2 DEF MemoryInv
  <1>4. ASSUME NEW r \in Requests, Commit(r) PROVE MemoryInv'
    <2> DEFINE t == request[r].transfer
    <2>1. /\ t \in Transfers
          /\ transfers'[t].shape = transfers[t].shape
          /\ transfers'[t].version = transfers[t].version + 1
          /\ transfers[t].version \in Nat
          /\ \A u \in Transfers \ {t} : transfers'[u] = transfers[u]
      BY <1>4, CommitWrites, LegsType DEF Commit, Transfer
    <2>2. pc'[r] # "loaded"
      BY <1>4 DEF Commit, Answer, TypeOK
    <2>3. ASSUME NEW s \in Requests \ {r}, pc'[s] = "loaded" PROVE Remembers(s)'
      <3>1. pc'[s] = pc[s] /\ request'[s] = request[s]
        BY <1>4 DEF Commit, Answer, TypeOK
      <3>2. request[s].transfer \in Transfers /\ request[s].loaded \in Transfer
        BY <2>3, <3>1, LegsType
      <3>3. Remembers(s)
        BY <2>3, <3>1 DEF MemoryInv
      <3>4. CASE request[s].transfer = t
        BY <2>1, <3>1, <3>2, <3>3, <3>4 DEF Remembers, Transfer
      <3>5. CASE request[s].transfer # t
        BY <2>1, <3>1, <3>2, <3>3, <3>5 DEF Remembers
      <3> QED
        BY <3>4, <3>5
    <2> QED
      BY <2>2, <2>3 DEF MemoryInv
  <1>5. ASSUME NEW c \in OtherChanges, OtherChange(c) PROVE MemoryInv'
    BY <1>5 DEF OtherChange, MemoryInv, Remembers
  <1>6. CASE UNCHANGED vars
    BY <1>6 DEF vars, MemoryInv, Remembers
  <1>7. ASSUME NEW r \in Requests, Refuse(r) \/ Fail(r) PROVE MemoryInv'
    <2>1. /\ pc' = [pc EXCEPT ![r] = "refused"] /\ transfers' = transfers
          /\ \A s \in Requests \ {r} : request'[s] = request[s]
      BY <1>7 DEF Refuse, Fail, Answer, TypeOK
    <2> QED
      BY <1>3, <2>1
  <1>8. ASSUME NEW r \in Requests, NEW operation \in Operations, NEW t \in Transfers,
               RejectLoad(r, operation, t)
        PROVE  MemoryInv'
    BY <1>3, <1>8 DEF RejectLoad
  <1> QED
    BY <1>1, <1>2, <1>4, <1>5, <1>6, <1>7, <1>8, NextCases

-----------------------------------------------------------------------------
(* The concatenations a commit of no, one or two legs produces. *)
LEMMA Concatenations ==
    ASSUME NEW x \in Leg, NEW y \in Leg
    PROVE  /\ <<>> \o <<>> = <<>>
           /\ <<>> \o <<x>> = <<x>>
           /\ <<x>> \o <<y>> = <<x, y>>
  <1>1. <<>> \in Seq(Leg) /\ <<x>> \in Seq(Leg) /\ <<x, y>> \in Seq(Leg)
    OBVIOUS
  <1>2. <<>> \o <<>> = <<>>
    OBVIOUS
  <1>3. <<>> \o <<x>> = <<x>>
    BY <1>1
  <1>4. <<x>> \o <<y>> = <<x, y>>
    <2> DEFINE both == <<x>> \o <<y>>
    <2>1. both \in Seq(Leg) /\ Len(both) = 2 /\ both[1] = x /\ both[2] = y
      BY <1>1
    <2> HIDE DEF both
    <2>2. both = <<x, y>>
      BY <2>1
    <2> QED
      BY <2>2 DEF both
  <1> QED
    BY <1>2, <1>3, <1>4

(* A request that has loaded the present version finds the legs its          *)
(* operation expects and leaves those of the status it writes.               *)
LEMMA LegsFollowStatus ==
    ASSUME TypeOK, MemoryInv, NEW r \in Requests, Commit(r),
           transfers[request[r].transfer].version = request[r].loaded.version,
           legs[request[r].transfer] \in LegsOfStatus(transfers[request[r].transfer])
    PROVE  legs'[request[r].transfer] \in LegsOfStatus(transfers'[request[r].transfer])
  <1> DEFINE t == request[r].transfer
             loaded == request[r].loaded
             out == [type |-> "TRANSFER_OUT", warehouse |-> transfers[t].shape.source]
             in == [type |-> "TRANSFER_IN", warehouse |-> transfers[t].shape.destination]
             back == [type |-> "TRANSFER_IN", warehouse |-> transfers[t].shape.source]
  <1>1. /\ pc[r] = "loaded" /\ t \in Transfers
        /\ request[r].operation \in Operations
        /\ loaded.status \in AllowedStatuses(request[r].operation)
    BY LegsType DEF Commit, TypeOK, RequestOK
  <1>2. loaded.shape = transfers[t].shape /\ loaded.status = transfers[t].status
    BY <1>1 DEF MemoryInv, Remembers
  <1>0. out \in Leg /\ in \in Leg /\ back \in Leg
    BY <1>1, LegsType, ShapeType DEF Leg, Transfer
  <1>3. legs'[t] = legs[t] \o LegsOf(request[r])
    BY <1>1 DEF Commit, TypeOK
  <1>4. /\ transfers'[t].shape = transfers[t].shape
        /\ transfers'[t].status = StatusAfter(request[r].operation)
    <2>1. transfers'[t] = [shape |-> transfers[t].shape,
                           status |-> StatusAfter(request[r].operation),
                           version |-> transfers[t].version + 1]
      BY CommitWrites
    <2> QED
      BY <2>1
  <1>5. CASE request[r].operation = "dispatch"
    <2>1. legs[t] = <<>> /\ LegsOf(request[r]) = <<out>>
      BY <1>1, <1>2, <1>5 DEF LegsOfStatus, LegsOf, AllowedStatuses
    <2>2. legs'[t] = <<out>>
      BY <1>0, <1>3, <2>1, Concatenations
    <2> QED
      BY <1>4, <1>5, <2>2 DEF LegsOfStatus, StatusAfter
  <1>6. CASE request[r].operation = "receive"
    <2>1. legs[t] = <<out>> /\ LegsOf(request[r]) = <<in>>
      BY <1>1, <1>2, <1>6 DEF LegsOfStatus, LegsOf, AllowedStatuses
    <2>2. legs'[t] = <<out, in>>
      BY <1>0, <1>3, <2>1, Concatenations
    <2> QED
      BY <1>4, <1>6, <2>2 DEF LegsOfStatus, StatusAfter
  <1>7. CASE request[r].operation = "cancel" /\ loaded.status = "DRAFT"
    <2>1. legs[t] = <<>> /\ LegsOf(request[r]) = <<>>
      BY <1>1, <1>2, <1>7 DEF LegsOfStatus, LegsOf, AllowedStatuses
    <2>2. legs'[t] = <<>>
      BY <1>0, <1>3, <2>1, Concatenations
    <2> QED
      BY <1>4, <1>7, <2>2 DEF LegsOfStatus, StatusAfter
  <1>8. CASE request[r].operation = "cancel" /\ loaded.status = "IN_TRANSIT"
    <2>1. legs[t] = <<out>> /\ LegsOf(request[r]) = <<back>>
      BY <1>1, <1>2, <1>8 DEF LegsOfStatus, LegsOf, AllowedStatuses
    <2>2. legs'[t] = <<out, back>>
      BY <1>0, <1>3, <2>1, Concatenations
    <2> QED
      BY <1>4, <1>8, <2>2 DEF LegsOfStatus, StatusAfter
  <1> QED
    BY <1>1, <1>5, <1>6, <1>7, <1>8 DEF Operations, AllowedStatuses

(* A transfer that has not been created has moved nothing. *)
NoDraftLegs == \A t \in Transfers : transfers[t] = NoTransfer => legs[t] = <<>>

(* No step gives legs to a transfer that does not exist. *)
LEMMA DraftStep == TypeOK /\ NoDraftLegs /\ [Next]_vars => NoDraftLegs'
  <1> SUFFICES ASSUME TypeOK, NoDraftLegs, [Next]_vars PROVE NoDraftLegs'
    OBVIOUS
  <1>1. ASSUME NEW t \in Transfers, Create(t) PROVE NoDraftLegs'
    <2>1. \A u \in Transfers \ {t} : transfers'[u] = transfers[u]
      BY <1>1 DEF Create, TypeOK
    <2> QED
      BY <1>1, <2>1 DEF Create, NoDraftLegs
  <1>2. ASSUME NEW r \in Requests, Commit(r) PROVE NoDraftLegs'
    <2> DEFINE t == request[r].transfer
    <2>1. \A u \in Transfers \ {t} : transfers'[u] = transfers[u] /\ legs'[u] = legs[u]
      BY <1>2, CommitWrites DEF Commit, TypeOK
    <2>2. transfers'[t] # NoTransfer
      BY <1>2, TypeStep, CommitStays
    <2> QED
      BY <2>1, <2>2 DEF NoDraftLegs
  <1>3. CASE UNCHANGED <<transfers, legs>>
    BY <1>3 DEF NoDraftLegs
  <1> QED
    BY <1>1, <1>2, <1>3, NextCases DEF Load, RejectLoad, Refuse, Fail, OtherChange, vars

(* Every transition of a transfer that requests know starts from the legs    *)
(* of its status and ends with them.                                         *)
LEMMA LegsStep ==
    TypeOK /\ MemoryInv /\ LegsMatchStatus /\ NoDraftLegs /\ [Next]_vars => LegsMatchStatus'
  <1> SUFFICES ASSUME TypeOK, MemoryInv, LegsMatchStatus, NoDraftLegs, [Next]_vars
               PROVE  LegsMatchStatus'
    OBVIOUS
  <1>1. ASSUME NEW t \in Transfers, Create(t) PROVE LegsMatchStatus'
    <2>1. transfers'[t].status = "DRAFT" /\ \A u \in Transfers \ {t} : transfers'[u] = transfers[u]
      BY <1>1 DEF Create, TypeOK
    <2>2. legs'[t] \in LegsOfStatus(transfers'[t])
      BY <1>1, <2>1 DEF Create, NoDraftLegs, LegsOfStatus
    <2> QED
      BY <1>1, <2>1, <2>2 DEF Create, LegsMatchStatus
  <1>2. ASSUME NEW r \in Requests, Commit(r) PROVE LegsMatchStatus'
    <2> DEFINE t == request[r].transfer
    <2>1. t \in Transfers /\ transfers[t] # NoTransfer
      BY <1>2, LegsType, NoTransferAssumption DEF Commit
    <2>2. \A u \in Transfers \ {t} : transfers'[u] = transfers[u] /\ legs'[u] = legs[u]
      BY <1>2, CommitWrites DEF Commit, TypeOK
    <2>3. CASE transfers[t].version = request[r].loaded.version
      <3>1. overtaken' = overtaken
        BY <1>2, <2>3 DEF Commit
      <3>2. t \notin overtaken => legs'[t] \in LegsOfStatus(transfers'[t])
        BY <1>2, <2>1, <2>3, LegsFollowStatus DEF LegsMatchStatus
      <3> QED
        BY <2>2, <3>1, <3>2 DEF LegsMatchStatus
    <2>4. CASE transfers[t].version # request[r].loaded.version
      <3>1. overtaken' = overtaken \cup {t}
        BY <1>2, <2>4 DEF Commit
      <3> QED
        BY <2>2, <3>1 DEF LegsMatchStatus
    <2> QED
      BY <2>3, <2>4
  <1>3. CASE UNCHANGED <<transfers, legs, overtaken>>
    BY <1>3 DEF LegsMatchStatus
  <1> QED
    BY <1>1, <1>2, <1>3, NextCases DEF Load, RejectLoad, Refuse, Fail, OtherChange, vars

(* The status of a transfer says what has been moved for it. *)
THEOREM LegsCorrect == Spec => []LegsMatchStatus
  <1>1. Init => MemoryInv /\ NoDraftLegs /\ LegsMatchStatus
    BY DEF Init, MemoryInv, NoDraftLegs, LegsMatchStatus
  <1> QED
    BY <1>1, TypeCorrect, MemoryStep, DraftStep, LegsStep, PTL DEF Spec

-----------------------------------------------------------------------------
(* A transfer that is on the road, or was when a request loaded it, has put  *)
(* its first leg in the ledger.                                              *)
RoadInv ==
    /\ \A t \in Transfers : transfers[t] # NoTransfer =>
          (transfers[t].status = "IN_TRANSIT" => legs[t] # <<>>)
    /\ \A r \in Requests : pc[r] = "loaded" =>
          (request[r].loaded.status = "IN_TRANSIT" => legs[request[r].transfer] # <<>>)

(* Appending to a history of legs leaves its first leg in place. *)
LEMMA ExtendedLegs ==
    ASSUME NEW a \in Seq(Leg), NEW b \in Seq(Leg)
    PROVE  /\ a # <<>> => a \o b # <<>> /\ (a \o b)[1] = a[1]
           /\ a = <<>> => a \o b = b
  OBVIOUS

(* Legs are only added, and those of a request that has loaded a transfer on *)
(* the road come after the first.                                            *)
LEMMA CommittedLegs ==
    ASSUME TypeOK, RoadInv, ArrivalsWereSent, NEW r \in Requests, Commit(r)
    PROVE  LET t == request[r].transfer IN
           /\ \A u \in Transfers \ {t} : legs'[u] = legs[u]
           /\ legs[t] # <<>> => legs'[t] # <<>>
           /\ transfers'[t].status = "IN_TRANSIT" => legs'[t] # <<>>
           /\ legs'[t] # <<>> => legs'[t][1].type = "TRANSFER_OUT"
  <1> DEFINE t == request[r].transfer
             written == LegsOf(request[r])
  <1>1. /\ pc[r] = "loaded" /\ t \in Transfers
        /\ request[r].operation \in Operations
        /\ request[r].loaded.status \in AllowedStatuses(request[r].operation)
        /\ legs[t] \in Seq(Leg) /\ written \in Seq(Leg)
    BY LegsType DEF Commit, TypeOK, RequestOK
  <1>2. legs'[t] = legs[t] \o written /\ \A u \in Transfers \ {t} : legs'[u] = legs[u]
    BY <1>1 DEF Commit, TypeOK
  <1>3. transfers'[t].status = StatusAfter(request[r].operation)
    <2>1. transfers'[t] = [shape |-> transfers[t].shape,
                           status |-> StatusAfter(request[r].operation),
                           version |-> transfers[t].version + 1]
      BY CommitWrites
    <2> QED
      BY <2>1
  <1>4. CASE legs[t] # <<>>
    <2>1. legs'[t] # <<>> /\ legs'[t][1] = legs[t][1]
      BY <1>1, <1>2, <1>4, ExtendedLegs
    <2> QED
      BY <1>1, <1>2, <1>4, <2>1 DEF ArrivalsWereSent
  <1>5. CASE legs[t] = <<>>
    <2>1. request[r].loaded.status # "IN_TRANSIT"
      BY <1>1, <1>5 DEF RoadInv
    <2>2. legs'[t] = written
      BY <1>1, <1>2, <1>5, ExtendedLegs
    <2>3. CASE request[r].operation = "dispatch"
      <3>1. /\ written # <<>>
            /\ written[1] = [type |-> "TRANSFER_OUT", warehouse |-> request[r].loaded.shape.source]
        BY <2>3 DEF LegsOf
      <3> HIDE DEF written
      <3> QED
        BY <1>2, <1>5, <2>2, <3>1
    <2>4. CASE request[r].operation = "cancel"
      <3>1. written = <<>>
        BY <2>1, <2>4 DEF LegsOf
      <3> QED
        BY <1>2, <1>3, <1>5, <2>2, <2>4, <3>1 DEF StatusAfter
    <2> QED
      BY <1>1, <2>1, <2>3, <2>4 DEF Operations, AllowedStatuses
  <1> QED
    BY <1>4, <1>5

(* Nothing arrives that has not been sent, in whatever order the requests    *)
(* that loaded a transfer go through.                                        *)
LEMMA ArrivalsStep ==
    TypeOK /\ RoadInv /\ ArrivalsWereSent /\ [Next]_vars => RoadInv' /\ ArrivalsWereSent'
  <1> SUFFICES ASSUME TypeOK, RoadInv, ArrivalsWereSent, [Next]_vars
               PROVE  RoadInv' /\ ArrivalsWereSent'
    OBVIOUS
  <1>1. ASSUME NEW t \in Transfers, Create(t) PROVE RoadInv' /\ ArrivalsWereSent'
    <2>1. /\ transfers'[t].status = "DRAFT" /\ UNCHANGED <<legs, pc, request>>
          /\ \A u \in Transfers \ {t} : transfers'[u] = transfers[u]
      BY <1>1 DEF Create, TypeOK
    <2> QED
      BY <2>1 DEF RoadInv, ArrivalsWereSent
  <1>2. ASSUME NEW r \in Requests, NEW operation \in Operations, NEW t \in Transfers,
               Load(r, operation, t)
        PROVE  RoadInv' /\ ArrivalsWereSent'
    <2>1. /\ request'[r] = [operation |-> operation, transfer |-> t, loaded |-> transfers[t]]
          /\ UNCHANGED <<legs, transfers>> /\ transfers[t] # NoTransfer
          /\ \A s \in Requests \ {r} : pc'[s] = pc[s] /\ request'[s] = request[s]
      BY <1>2 DEF Load, Accepts, TypeOK
    <2> QED
      BY <2>1 DEF RoadInv, ArrivalsWereSent
  <1>3. ASSUME NEW r \in Requests, Commit(r) PROVE RoadInv' /\ ArrivalsWereSent'
    <2> DEFINE t == request[r].transfer
    <2>1. \A u \in Transfers \ {t} : transfers'[u] = transfers[u] /\ legs'[u] = legs[u]
      BY <1>3, CommitWrites DEF Commit, TypeOK
    <2>2. /\ legs[t] # <<>> => legs'[t] # <<>>
          /\ transfers'[t].status = "IN_TRANSIT" => legs'[t] # <<>>
          /\ legs'[t] # <<>> => legs'[t][1].type = "TRANSFER_OUT"
      BY <1>3, CommittedLegs
    <2>3. /\ pc'[r] = "committed"
          /\ \A s \in Requests \ {r} : pc'[s] = pc[s] /\ request'[s] = request[s]
      BY <1>3 DEF Commit, Answer, TypeOK
    <2>4. ArrivalsWereSent'
      BY <2>1, <2>2 DEF ArrivalsWereSent
    <2>5. \A u \in Transfers : transfers'[u] # NoTransfer =>
             (transfers'[u].status = "IN_TRANSIT" => legs'[u] # <<>>)
      BY <2>1, <2>2 DEF RoadInv
    <2>6. ASSUME NEW s \in Requests, pc'[s] = "loaded", request'[s].loaded.status = "IN_TRANSIT"
          PROVE  legs'[request'[s].transfer] # <<>>
      <3>1. pc[s] = "loaded" /\ request'[s] = request[s]
        BY <2>3, <2>6
      <3>2. request[s].transfer \in Transfers /\ legs[request[s].transfer] # <<>>
        BY <2>6, <3>1, LegsType DEF RoadInv
      <3> QED
        BY <2>1, <2>2, <3>1, <3>2
    <2> QED
      BY <2>4, <2>5, <2>6 DEF RoadInv
  <1>4. ASSUME NEW r \in Requests, Refuse(r) \/ Fail(r) PROVE RoadInv' /\ ArrivalsWereSent'
    BY <1>4 DEF Refuse, Fail, Answer, TypeOK, RoadInv, ArrivalsWereSent
  <1>5. ASSUME NEW r \in Requests, NEW operation \in Operations, NEW t \in Transfers,
               RejectLoad(r, operation, t)
        PROVE  RoadInv' /\ ArrivalsWereSent'
    BY <1>5 DEF RejectLoad, TypeOK, RoadInv, ArrivalsWereSent
  <1>6. CASE UNCHANGED <<transfers, legs, pc, request>>
    BY <1>6 DEF RoadInv, ArrivalsWereSent
  <1> QED
    BY <1>1, <1>2, <1>3, <1>4, <1>5, <1>6, NextCases DEF OtherChange, vars

(* The first leg of every transfer takes goods out of its source. *)
THEOREM ArrivalsCorrect == Spec => []ArrivalsWereSent
  <1>1. Init => RoadInv /\ ArrivalsWereSent
    BY DEF Init, RoadInv, ArrivalsWereSent
  <1> QED
    BY <1>1, TypeCorrect, ArrivalsStep, PTL DEF Spec

-----------------------------------------------------------------------------
(* The units of a product a shape carries, and the change a leg makes to the *)
(* units of a product on the shelves.                                        *)
UnitsIn(shape, x) == IF x \in DOMAIN shape.items THEN shape.items[x] ELSE 0
LegEffect(shape, leg, x) ==
    IF leg.type = "TRANSFER_OUT" THEN 0 - UnitsIn(shape, x) ELSE UnitsIn(shape, x)

(* A shape carries a natural number of each product. *)
LEMMA UnitsType ==
    ASSUME NEW shape \in Shapes, NEW x
    PROVE  UnitsIn(shape, x) \in Nat
  BY ShapeType DEF UnitsIn

(* A leg's lines change one warehouse, by what the shape carries.            *)
LEMMA RowAfterLeg ==
    ASSUME levels \in [Pairs -> Level], NEW shape \in Shapes, NEW leg \in Leg,
           NEW x \in Products, NEW w \in Warehouses
    PROVE  After(LinesOf(shape, leg))[<<x, w>>].quantity
              = levels[<<x, w>>].quantity
                + IF w = leg.warehouse THEN LegEffect(shape, leg, x) ELSE 0
  <1> DEFINE p == <<x, w>>
             lines == LinesOf(shape, leg)
             signed(y) == IF leg.type = "TRANSFER_OUT" THEN -shape.items[y] ELSE shape.items[y]
  <1>1. p \in Pairs /\ levels[p] \in Level /\ levels[p].quantity \in Int
    BY PairsAssumption DEF Level
  <1>2. ASSUME NEW c \in lines, c.pair = p
        PROVE  /\ x \in DOMAIN shape.items /\ w = leg.warehouse
               /\ c.kind = "movement" /\ c.delta = signed(x)
    BY <1>2 DEF LinesOf, MovementOf
  <1>3. CASE \E c \in lines : c.pair = p
    <2> DEFINE c == CHOOSE c \in lines : c.pair = p
    <2>1. c \in lines /\ c.pair = p
      BY <1>3
    <2>2. After(lines)[p] = RowAfter(c, levels[p], levels[p])
      BY <1>1, <1>3 DEF After
    <2>3. /\ x \in DOMAIN shape.items /\ w = leg.warehouse
          /\ c.kind = "movement" /\ c.delta = signed(x)
      BY <1>2, <2>1
    <2> HIDE DEF c, lines
    <2>4. After(lines)[p].quantity = levels[p].quantity + signed(x)
      BY <2>2, <2>3 DEF RowAfter, NextQuantity
    <2>5. LegEffect(shape, leg, x) = signed(x)
      <3>1. shape.items[x] \in Nat
        BY <2>3, ShapeType
      <3> QED
        BY <2>3, <3>1 DEF LegEffect, UnitsIn
    <2> QED
      BY <2>3, <2>4, <2>5 DEF lines
  <1>4. CASE ~ \E c \in lines : c.pair = p
    <2>1. After(lines)[p] = levels[p]
      BY <1>1, <1>4 DEF After
    <2>2. ASSUME x \in DOMAIN shape.items, w = leg.warehouse PROVE FALSE
      <3>1. MovementOf(<<x, leg.warehouse>>, leg.type, signed(x)) \in lines
        BY <2>2 DEF LinesOf
      <3>2. MovementOf(<<x, leg.warehouse>>, leg.type, signed(x)).pair = p
        BY <2>2 DEF MovementOf
      <3> QED
        BY <1>4, <3>1, <3>2
    <2>3. ASSUME w = leg.warehouse PROVE LegEffect(shape, leg, x) = 0
      <3>1. UnitsIn(shape, x) = 0
        BY <2>2, <2>3 DEF UnitsIn
      <3> QED
        BY <3>1 DEF LegEffect
    <2> QED
      BY <1>1, <2>1, <2>3
  <1> QED
    BY <1>3, <1>4

(* What a leg does to the units of a product on all the shelves.             *)
LEMMA OnHandAfterLeg ==
    ASSUME TypeOK, NEW shape \in Shapes, NEW leg \in Leg, NEW x \in Products,
           levels' = After(LinesOf(shape, leg))
    PROVE  OnHand(x)' = OnHand(x) + LegEffect(shape, leg, x) /\ OnHand(x) \in Int
  <1> DEFINE f == [w \in Warehouses |-> levels[<<x, w>>].quantity]
             g == [w \in Warehouses |-> levels'[<<x, w>>].quantity]
             home == leg.warehouse
  <1>1. \A w \in Warehouses : f[w] \in Int
    BY PairsAssumption DEF TypeOK, Level
  <1>2. LegEffect(shape, leg, x) \in Int
    BY UnitsType DEF LegEffect
  <1>3. \A w \in Warehouses :
           g[w] = f[w] + IF w = home THEN LegEffect(shape, leg, x) ELSE 0
    BY RowAfterLeg DEF TypeOK
  <1>4. home \in Warehouses
    BY DEF Leg
  <1>5. OnHand(x) = SumFunctionOnSet(f, Warehouses) /\ OnHand(x)' = SumFunctionOnSet(g, Warehouses)
    BY DEF OnHand, SumFunction
  <1> HIDE DEF f, g, home
  <1>6. SumFunctionOnSet(g, Warehouses) = SumFunctionOnSet(f, Warehouses) - f[home] + g[home]
    <2>1. \A w \in Warehouses : g[w] \in Int
      BY <1>1, <1>2, <1>3
    <2>2. \A w \in Warehouses \ {home} : f[w] = g[w]
      BY <1>1, <1>3
    <2> QED
      BY <1>1, <1>4, <2>1, <2>2, SumUpdate, FiniteAssumption
  <1>7. SumFunctionOnSet(f, Warehouses) \in Int
    BY <1>1, SumInt, FiniteAssumption
  <1> QED
    BY <1>1, <1>2, <1>3, <1>4, <1>5, <1>6, <1>7

(* The units on the shelves are a number. *)
LEMMA OnHandInt ==
    ASSUME TypeOK, NEW x \in Products
    PROVE  OnHand(x) \in Int
  <1> DEFINE f == [w \in Warehouses |-> levels[<<x, w>>].quantity]
  <1>1. \A w \in Warehouses : f[w] \in Int
    BY PairsAssumption DEF TypeOK, Level
  <1>2. OnHand(x) = SumFunctionOnSet(f, Warehouses)
    BY DEF OnHand, SumFunction
  <1> HIDE DEF f
  <1> QED
    BY <1>1, <1>2, SumInt, FiniteAssumption

(* A transfer has a natural number of units on the road. *)
LEMMA SentType ==
    ASSUME NEW transfer \in Transfer \cup {NoTransfer}, NEW x
    PROVE  UnitsSent(transfer, x) \in Nat
  BY ShapeType DEF UnitsSent, Transfer

(* What writing one transfer does to the units of a product on the road.     *)
LEMMA OnTheRoadAfter ==
    ASSUME TypeOK, TypeOK', NEW t \in Transfers, NEW x \in Products,
           \A u \in Transfers \ {t} : transfers'[u] = transfers[u]
    PROVE  /\ OnTheRoad(x)'
                 = OnTheRoad(x) - UnitsSent(transfers[t], x) + UnitsSent(transfers'[t], x)
           /\ OnTheRoad(x) \in Int
  <1> DEFINE f == [u \in Transfers |-> UnitsSent(transfers[u], x)]
             g == [u \in Transfers |-> UnitsSent(transfers'[u], x)]
  <1>0. \A u \in Transfers : /\ transfers[u] \in Transfer \cup {NoTransfer}
                            /\ transfers'[u] \in Transfer \cup {NoTransfer}
    BY DEF TypeOK
  <1>1. \A u \in Transfers : f[u] \in Int /\ g[u] \in Int
    BY <1>0, SentType
  <1>2. \A u \in Transfers \ {t} : f[u] = g[u]
    OBVIOUS
  <1>3. OnTheRoad(x) = SumFunctionOnSet(f, Transfers) /\ OnTheRoad(x)' = SumFunctionOnSet(g, Transfers)
    BY DEF OnTheRoad, SumFunction, UnitsSent
  <1>4. f[t] = UnitsSent(transfers[t], x) /\ g[t] = UnitsSent(transfers'[t], x)
    OBVIOUS
  <1> HIDE DEF f, g
  <1>5. SumFunctionOnSet(g, Transfers) = SumFunctionOnSet(f, Transfers) - f[t] + g[t]
    BY <1>1, <1>2, SumUpdate, FiniteAssumption
  <1>6. SumFunctionOnSet(f, Transfers) \in Int
    BY <1>1, SumInt, FiniteAssumption
  <1> QED
    BY <1>3, <1>4, <1>5, <1>6

-----------------------------------------------------------------------------
(* One leg's lines, or none. *)
LEMMA RequestLegs ==
    ASSUME TypeOK, NEW r \in Requests, pc[r] = "loaded"
    PROVE  /\ \A leg : LegsOf(request[r]) = <<leg>> =>
                  RequestLines(r) = LinesOf(request[r].loaded.shape, leg)
           /\ LegsOf(request[r]) = <<>> => RequestLines(r) = {}
  <1>1. ASSUME NEW leg, LegsOf(request[r]) = <<leg>>
        PROVE  RequestLines(r) = LinesOf(request[r].loaded.shape, leg)
    <2>1. DOMAIN LegsOf(request[r]) = {1} /\ LegsOf(request[r])[1] = leg
      BY <1>1
    <2> QED
      BY <2>1 DEF RequestLines
  <1>2. ASSUME LegsOf(request[r]) = <<>> PROVE RequestLines(r) = {}
    <2>1. DOMAIN LegsOf(request[r]) = {}
      BY <1>2
    <2> QED
      BY <2>1 DEF RequestLines
  <1> QED
    BY <1>1, <1>2

(* Booking no lines changes no row. *)
LEMMA AfterNothing == levels \in [Pairs -> Level] => After({}) = levels
  BY DEF After

(* What a request that has loaded the present version takes off the shelves  *)
(* is what it puts on the road, and the other way round.                     *)
LEMMA CommitConserves ==
    ASSUME TypeOK, MemoryInv, NEW r \in Requests, Commit(r), NEW x \in Products,
           transfers[request[r].transfer].version = request[r].loaded.version
    PROVE  /\ OnHand(x)' - OnHand(x)
                 = UnitsSent(transfers[request[r].transfer], x)
                   - UnitsSent(transfers'[request[r].transfer], x)
           /\ OnHand(x) \in Int /\ OnHand(x)' \in Int
  <1> DEFINE t == request[r].transfer
             loaded == request[r].loaded
             shape == transfers[t].shape
             units == UnitsIn(shape, x)
             out == [type |-> "TRANSFER_OUT", warehouse |-> shape.source]
             in == [type |-> "TRANSFER_IN", warehouse |-> shape.destination]
             back == [type |-> "TRANSFER_IN", warehouse |-> shape.source]
  <1>1. /\ pc[r] = "loaded" /\ t \in Transfers
        /\ transfers[t] \in Transfer /\ transfers[t] # NoTransfer
        /\ request[r].operation \in Operations
        /\ loaded.status \in AllowedStatuses(request[r].operation)
    BY LegsType, NoTransferAssumption DEF Commit, TypeOK, RequestOK
  <1>2. loaded.shape = shape /\ loaded.status = transfers[t].status
    BY <1>1 DEF MemoryInv, Remembers
  <1>3. shape \in Shapes /\ units \in Nat /\ out \in Leg /\ in \in Leg /\ back \in Leg
    BY <1>1, ShapeType, UnitsType DEF Leg, Transfer
  <1>4. UnitsSent(transfers[t], x) = IF loaded.status = "IN_TRANSIT" THEN units ELSE 0
    BY <1>1, <1>2 DEF UnitsSent, UnitsIn
  <1>5. UnitsSent(transfers'[t], x) = IF request[r].operation = "dispatch" THEN units ELSE 0
    <2>1. /\ transfers'[t].shape = shape /\ transfers'[t] # NoTransfer
          /\ transfers'[t].status = StatusAfter(request[r].operation)
      <3>1. transfers'[t] = [shape |-> shape, status |-> StatusAfter(request[r].operation),
                             version |-> transfers[t].version + 1]
        BY CommitWrites
      <3> QED
        BY <3>1, CommitStays
    <2>2. StatusAfter(request[r].operation) = "IN_TRANSIT" <=> request[r].operation = "dispatch"
      BY <1>1 DEF StatusAfter, Operations
    <2> QED
      BY <2>1, <2>2 DEF UnitsSent, UnitsIn
  <1>6. levels' = After(RequestLines(r))
    BY DEF Commit
  <1> HIDE DEF shape, units
  <1>7. CASE request[r].operation = "dispatch"
    <2>1. LegsOf(request[r]) = <<out>> /\ loaded.status = "DRAFT"
      BY <1>1, <1>2, <1>7 DEF LegsOf, AllowedStatuses
    <2>2. levels' = After(LinesOf(shape, out))
      BY <1>1, <1>2, <1>6, <2>1, RequestLegs
    <2>3. OnHand(x)' = OnHand(x) + LegEffect(shape, out, x) /\ OnHand(x) \in Int
      BY <1>3, <2>2, OnHandAfterLeg
    <2>4. LegEffect(shape, out, x) = 0 - units
      BY DEF LegEffect, units
    <2> QED
      BY <1>3, <1>4, <1>5, <1>7, <2>1, <2>3, <2>4
  <1>8. CASE request[r].operation = "receive"
    <2>1. LegsOf(request[r]) = <<in>> /\ loaded.status = "IN_TRANSIT"
      BY <1>1, <1>2, <1>8 DEF LegsOf, AllowedStatuses
    <2>2. levels' = After(LinesOf(shape, in))
      BY <1>1, <1>2, <1>6, <2>1, RequestLegs
    <2>3. OnHand(x)' = OnHand(x) + LegEffect(shape, in, x) /\ OnHand(x) \in Int
      BY <1>3, <2>2, OnHandAfterLeg
    <2>4. LegEffect(shape, in, x) = units
      BY DEF LegEffect, units
    <2> QED
      BY <1>3, <1>4, <1>5, <1>8, <2>1, <2>3, <2>4
  <1>9. CASE request[r].operation = "cancel" /\ loaded.status = "IN_TRANSIT"
    <2>1. LegsOf(request[r]) = <<back>>
      BY <1>1, <1>2, <1>9 DEF LegsOf, AllowedStatuses
    <2>2. levels' = After(LinesOf(shape, back))
      BY <1>1, <1>2, <1>6, <2>1, RequestLegs
    <2>3. OnHand(x)' = OnHand(x) + LegEffect(shape, back, x) /\ OnHand(x) \in Int
      BY <1>3, <2>2, OnHandAfterLeg
    <2>4. LegEffect(shape, back, x) = units
      BY DEF LegEffect, units
    <2> QED
      BY <1>3, <1>4, <1>5, <1>9, <2>1, <2>3, <2>4
  <1>10. CASE request[r].operation = "cancel" /\ loaded.status = "DRAFT"
    <2>1. LegsOf(request[r]) = <<>>
      BY <1>10 DEF LegsOf
    <2>2. levels' = levels
      BY <1>1, <1>6, <2>1, RequestLegs, AfterNothing DEF TypeOK
    <2>3. OnHand(x)' = OnHand(x)
      BY <2>2 DEF OnHand
    <2>4. OnHand(x) \in Int
      BY OnHandInt
    <2> QED
      BY <1>4, <1>5, <1>10, <2>3, <2>4
  <1> QED
    BY <1>1, <1>7, <1>8, <1>9, <1>10 DEF Operations, AllowedStatuses

-----------------------------------------------------------------------------
(* The change another service makes, and what history records of it.        *)
LEMMA OtherChangeConserves ==
    ASSUME TypeOK, NEW c \in OtherChanges, OtherChange(c), NEW x \in Products
    PROVE  OnHand(x)' = OnHand(x) + (recorded'[x] - recorded[x])
  <1> DEFINE y == c.pair[1]
             home == c.pair[2]
             f == [w \in Warehouses |-> levels[<<x, w>>].quantity]
             g == [w \in Warehouses |-> levels'[<<x, w>>].quantity]
             moved == IF x = y THEN c.delta ELSE 0
  <1>1. /\ c.pair = <<y, home>> /\ c.pair \in Pairs
        /\ y \in Products /\ home \in Warehouses /\ c.delta \in Int
        /\ c.kind = "movement" \/ (c.kind = "reservation" /\ c.delta = 0)
    BY OtherChangesAssumption, PairsAssumption DEF Change
  <1>2. \A p \in Pairs : levels[p] \in Level /\ levels[p].quantity \in Int
    BY DEF TypeOK, Level
  <1>3. \A p \in Pairs : levels'[p] = IF p = c.pair THEN RowAfter(c, levels[p], levels[p])
                                      ELSE levels[p]
    BY DEF OtherChange, After
  <1>4. levels'[c.pair].quantity = levels[c.pair].quantity + c.delta
    <2>1. levels'[c.pair] = RowAfter(c, levels[c.pair], levels[c.pair])
      BY <1>1, <1>3
    <2> QED
      BY <1>1, <1>2, <2>1 DEF RowAfter, NextQuantity, Level
  <1>5. \A w \in Warehouses :
           /\ f[w] \in Int
           /\ g[w] = f[w] + IF w = home THEN moved ELSE 0
    <2> SUFFICES ASSUME NEW w \in Warehouses
                 PROVE  f[w] \in Int /\ g[w] = f[w] + IF w = home THEN moved ELSE 0
      OBVIOUS
    <2>1. <<x, w>> \in Pairs
      BY PairsAssumption
    <2>2. CASE x = y /\ w = home
      BY <1>1, <1>2, <1>4, <2>1, <2>2
    <2>3. CASE ~(x = y /\ w = home)
      <3>1. levels'[<<x, w>>] = levels[<<x, w>>]
        BY <1>1, <1>3, <2>1, <2>3
      <3> QED
        BY <1>2, <2>1, <2>3, <3>1
    <2> QED
      BY <2>2, <2>3
  <1>6. OnHand(x) = SumFunctionOnSet(f, Warehouses) /\ OnHand(x)' = SumFunctionOnSet(g, Warehouses)
    BY DEF OnHand, SumFunction
  <1>7. moved \in Int /\ recorded'[x] = recorded[x] + moved /\ recorded[x] \in Int
    BY <1>1 DEF OtherChange, TypeOK
  <1> HIDE DEF f, g, y, home, moved
  <1>8. SumFunctionOnSet(g, Warehouses) = SumFunctionOnSet(f, Warehouses) - f[home] + g[home]
    <2>1. /\ \A w \in Warehouses : f[w] \in Int /\ g[w] \in Int
          /\ \A w \in Warehouses \ {home} : f[w] = g[w]
      BY <1>5, <1>7
    <2> QED
      BY <1>1, <2>1, SumUpdate, FiniteAssumption
  <1>9. SumFunctionOnSet(f, Warehouses) \in Int
    BY <1>5, SumInt, FiniteAssumption
  <1> QED
    BY <1>1, <1>5, <1>6, <1>7, <1>8, <1>9

(* A transfer that has not been created, like a draft, has nothing on the    *)
(* road.                                                                     *)
LEMMA CreateConserves ==
    ASSUME TypeOK, TypeOK', NEW t \in Transfers, Create(t), NEW x \in Products
    PROVE  OnTheRoad(x)' = OnTheRoad(x)
  <1>1. /\ transfers'[t].status = "DRAFT"
        /\ \A u \in Transfers \ {t} : transfers'[u] = transfers[u]
    BY DEF Create, TypeOK
  <1>2. UnitsSent(transfers[t], x) = 0 /\ UnitsSent(transfers'[t], x) = 0
    BY <1>1 DEF UnitsSent, Create
  <1>3. /\ OnTheRoad(x)'
              = OnTheRoad(x) - UnitsSent(transfers[t], x) + UnitsSent(transfers'[t], x)
        /\ OnTheRoad(x) \in Int
    BY <1>1, OnTheRoadAfter
  <1> QED
    BY <1>2, <1>3

(* Every step keeps the balance of what has come in, what lies on a shelf    *)
(* and what is on the road, while no transfer is overtaken.                  *)
LEMMA ConservationStep ==
    TypeOK /\ TypeOK' /\ MemoryInv /\ UnitsConserved /\ [Next]_vars => UnitsConserved'
  <1> SUFFICES ASSUME TypeOK, TypeOK', MemoryInv, UnitsConserved, [Next]_vars,
                      overtaken' = {}, NEW x \in Products
               PROVE  OnHand(x)' + OnTheRoad(x)'
                         = SumFunction([w \in Warehouses |-> Opening[<<x, w>>].quantity])
                           + recorded'[x]
    BY DEF UnitsConserved
  <1> DEFINE opening == SumFunction([w \in Warehouses |-> Opening[<<x, w>>].quantity])
  <1>0. opening \in Int
    <2> DEFINE f == [w \in Warehouses |-> Opening[<<x, w>>].quantity]
    <2>1. \A w \in Warehouses : f[w] \in Int
      BY TransfersOpeningAssumption, PairsAssumption DEF Level
    <2>2. opening = SumFunctionOnSet(f, Warehouses)
      BY DEF SumFunction
    <2> HIDE DEF f
    <2> QED
      BY <2>1, <2>2, SumInt, FiniteAssumption
  <1> HIDE DEF opening
  <1>1. overtaken = {}
    BY NextCases DEF Create, Load, RejectLoad, Commit, Refuse, Fail, OtherChange, vars
  <1>2. OnHand(x) + OnTheRoad(x) = opening + recorded[x]
    BY <1>1 DEF UnitsConserved, opening
  <1>3. OnHand(x) \in Int /\ OnTheRoad(x) \in Int /\ recorded[x] \in Int
    <2>1. OnTheRoad(x) \in Int
      <3> DEFINE f == [u \in Transfers |-> UnitsSent(transfers[u], x)]
      <3>0. \A u \in Transfers : transfers[u] \in Transfer \cup {NoTransfer}
        BY DEF TypeOK
      <3>1. \A u \in Transfers : f[u] \in Int
        BY <3>0, SentType
      <3>2. OnTheRoad(x) = SumFunctionOnSet(f, Transfers)
        BY DEF OnTheRoad, SumFunction
      <3> HIDE DEF f
      <3> QED
        BY <3>1, <3>2, SumInt, FiniteAssumption
    <2> QED
      BY <2>1, OnHandInt DEF TypeOK
  <1>4. ASSUME NEW t \in Transfers, Create(t)
        PROVE  OnHand(x)' + OnTheRoad(x)' = opening + recorded'[x]
    <2>1. OnHand(x)' = OnHand(x) /\ recorded' = recorded
      BY <1>4 DEF Create, OnHand
    <2> QED
      BY <1>2, <1>4, <2>1, CreateConserves
  <1>5. ASSUME NEW r \in Requests, Commit(r)
        PROVE  OnHand(x)' + OnTheRoad(x)' = opening + recorded'[x]
    <2> DEFINE t == request[r].transfer
               before == UnitsSent(transfers[t], x)
               after == UnitsSent(transfers'[t], x)
    <2>1. transfers[t].version = request[r].loaded.version /\ recorded' = recorded
      BY <1>1, <1>5 DEF Commit
    <2>2. t \in Transfers /\ \A u \in Transfers \ {t} : transfers'[u] = transfers[u]
      BY <1>5, CommitWrites, LegsType DEF Commit
    <2>3. before \in Int /\ after \in Int
      <3>1. /\ transfers[t] \in Transfer \cup {NoTransfer}
            /\ transfers'[t] \in Transfer \cup {NoTransfer}
        BY <2>2 DEF TypeOK
      <3> QED
        BY <3>1, SentType
    <2>4. OnHand(x)' - OnHand(x) = before - after /\ OnHand(x)' \in Int
      BY <1>5, <2>1, CommitConserves
    <2>5. OnTheRoad(x)' = OnTheRoad(x) - before + after
      BY <2>2, OnTheRoadAfter
    <2> HIDE DEF t, before, after
    <2> QED
      BY <1>2, <1>3, <2>1, <2>3, <2>4, <2>5
  <1>6. ASSUME NEW c \in OtherChanges, OtherChange(c)
        PROVE  OnHand(x)' + OnTheRoad(x)' = opening + recorded'[x]
    <2>1. OnTheRoad(x)' = OnTheRoad(x)
      BY <1>6 DEF OtherChange, OnTheRoad
    <2>2. OnHand(x)' = OnHand(x) + (recorded'[x] - recorded[x]) /\ recorded'[x] \in Int
      BY <1>6, OtherChangeConserves DEF TypeOK
    <2> QED
      BY <1>0, <1>2, <1>3, <2>1, <2>2
  <1>7. ASSUME UNCHANGED <<levels, transfers, recorded>>
        PROVE  OnHand(x)' + OnTheRoad(x)' = opening + recorded'[x]
    BY <1>2, <1>7 DEF OnHand, OnTheRoad
  <1> QED
    BY <1>4, <1>5, <1>6, <1>7, NextCases DEF Load, RejectLoad, Refuse, Fail, vars, opening

(* At the start all the goods lie where they were found. *)
LEMMA ConservationInit == Init => UnitsConserved
  <1> SUFFICES ASSUME Init, NEW x \in Products
               PROVE  OnHand(x) + OnTheRoad(x)
                         = SumFunction([w \in Warehouses |-> Opening[<<x, w>>].quantity])
                           + recorded[x]
    BY DEF UnitsConserved
  <1> DEFINE f == [t \in Transfers |-> UnitsSent(transfers[t], x)]
  <1>1. \A t \in Transfers : f[t] = 0
    BY DEF Init, UnitsSent
  <1>2. OnTheRoad(x) = SumFunctionOnSet(f, Transfers)
    BY DEF OnTheRoad, SumFunction
  <1> HIDE DEF f
  <1>3. OnTheRoad(x) = 0
    BY <1>1, <1>2, SumZero, FiniteAssumption
  <1>4. OnHand(x) = SumFunction([w \in Warehouses |-> Opening[<<x, w>>].quantity])
    BY DEF Init, OnHand
  <1>5. OnHand(x) \in Int
    BY TypeInit, OnHandInt
  <1>6. recorded[x] = 0
    BY DEF Init
  <1> QED
    BY <1>3, <1>4, <1>5, <1>6

(* Transfers neither make nor lose goods. *)
THEOREM UnitsAreConserved == Spec => []UnitsConserved
  <1>1. Init => MemoryInv
    BY DEF Init, MemoryInv
  <1> QED
    BY <1>1, TypeCorrect, MemoryStep, ConservationInit, ConservationStep, PTL DEF Spec
=============================================================================
