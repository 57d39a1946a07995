------------------------- MODULE TicketLockRCUProofs -------------------------
(***************************************************************************)
(* Proofs about TicketLock, for every set of threads, every width of the   *)
(* counters and every number of requests that the width accommodates; and, *)
(* in its second half, about RCU, for every set of threads, all arguments  *)
(* of write() and any number of calls.                                     *)
(***************************************************************************)
EXTENDS TicketLock, RCU, C11MemoryProofs, FiniteSetTheorems

(* The assumption of the comment at the head of lock.c, for the requests   *)
(* of the whole run: the counters do not wrap before the last ticket is    *)
(* drawn.                                                                  *)
NoWrap == MaxRequests <= UintRange

Drawn == Newest("ticket") - 1
Served == Newest("turn") - 1

(* What a counter shows after k increments.                                *)
Shown(k) == IF k = UintRange THEN 0 ELSE k

(* The inductive invariant.  TicketTypes: of the memory and of the locals.       *)
TicketTypes ==
  /\ MemType(TicketLoc, Nat)
  /\ pc \in [Thread -> {"idle", "spin", "cs", "unlock", "publish"}]
  /\ ticket \in [Thread -> 0..(UintRange - 1)]
  /\ turn \in [Thread -> 0..(UintRange - 1)]

(* Counters: each counter was incremented by one each time, in the order   *)
(* of its history.                                                         *)
Counters ==
  /\ \A x \in TicketLoc : Linear(x)
  /\ \A k \in 1..Newest("ticket") :
       hist["ticket"][k].val = Shown(k - 1) /\ (k > 1 => hist["ticket"][k].kind = "rmw")
  /\ \A k \in 1..Newest("turn") : hist["turn"][k].val = Shown(k - 1)
  /\ Served <= Drawn
  /\ Drawn <= MaxRequests

(* Tickets: the tickets not yet served belong to different threads.        *)
Tickets ==
  /\ \A t \in Thread : pc[t] # "idle" => ticket[t] \in Served..(Drawn - 1)
  /\ \A t, u \in Thread :
       pc[t] # "idle" /\ pc[u] # "idle" /\ ticket[t] = ticket[u] => t = u

(* Holding: the holder has the ticket being served, and knows it.          *)
Holding ==
  \A t \in Holders :
    /\ ticket[t] = Served
    /\ <<"turn", Newest("turn")>> \in cur[t]
    /\ pc[t] = "publish" => turn[t] = ticket[t]

(* Handoff: the holder has seen every write of the shared datum; between   *)
(* two holders the newest turn carries them.                               *)
Handoff ==
  /\ \A t \in Thread, x \in TicketLoc : <<x, 1>> \in cur[t]
  /\ \A t \in Holders : \A k \in 1..Newest("shareddata") : <<"shareddata", k>> \in cur[t]
  /\ Holders = {} =>
       \A k \in 2..Newest("shareddata") :
         <<"shareddata", k>> \in hist["turn"][Newest("turn")].view

TicketInv == TicketTypes /\ Counters /\ Tickets /\ Holding /\ Handoff

-----------------------------------------------------------------------------
(* The counters count modulo UintRange.                                    *)
LEMMA IncrementShown ==
  ASSUME NEW k \in Nat, k < UintRange
  PROVE  Increment(Shown(k)) = Shown(k + 1) /\ Shown(k) = k
<1>1. UintRange \in Nat \ {0}
  BY TicketAssumption
<1>2. CASE k + 1 = UintRange
  <2>1. UintRange % UintRange = 0
    BY <1>1
  <2> QED
    BY <1>1, <1>2, <2>1 DEF Increment, Shown
<1>3. CASE k + 1 < UintRange
  <2>1. (k + 1) % UintRange = k + 1
    BY <1>1, <1>3
  <2> QED
    BY <1>1, <1>3, <2>1 DEF Increment, Shown
<1> QED
  BY <1>1, <1>2, <1>3

LEMMA IncrementType ==
  ASSUME NEW k \in Nat
  PROVE  Increment(k) \in 0..(UintRange - 1)
BY TicketAssumption DEF Increment

(* TicketLengths of the histories are positive numbers.                          *)
LEMMA TicketLengths ==
  ASSUME TicketTypes, NEW x \in TicketLoc
  PROVE  Newest(x) \in Nat /\ Newest(x) >= 1 /\ hist[x] \in Seq(Messages(TicketLoc, Nat))
BY LenProperties DEF TicketTypes, MemType, Newest

(* A turn equal to the ticket of a thread that waits is the newest turn.   *)
LEMMA OwnTurnIsNewest ==
  ASSUME TicketInv, NoWrap, NEW t \in Thread, pc[t] # "idle",
         NEW i \in 1..Newest("turn"), Val("turn", i) = ticket[t]
  PROVE  i = Newest("turn") /\ ticket[t] = Served
<1>1. Newest("turn") \in Nat /\ Newest("ticket") \in Nat
  BY TicketLengths DEF TicketInv, TicketLoc
<1>2. ticket[t] \in Served..(Drawn - 1) /\ Drawn <= UintRange
  BY TicketAssumption, <1>1 DEF TicketInv, Tickets, Counters, NoWrap, Drawn
<1>3. Shown(i - 1) = ticket[t]
  BY DEF TicketInv, Counters, Val
<1>4. i - 1 <= Served /\ Served \in Nat
  BY <1>1, TicketLengths DEF Served, TicketInv, TicketLoc
<1> QED
  BY <1>1, <1>2, <1>3, <1>4, TicketAssumption DEF Shown, Served, Drawn

(* The holder is unique, by its ticket.                                    *)
LEMMA HolderIsUnique ==
  ASSUME TicketInv, NEW t \in Holders, NEW u \in Holders
  PROVE  t = u
BY DEF TicketInv, Holding, Tickets, Holders

THEOREM TicketInitInvariant ==
  ASSUME TicketInit
  PROVE  TicketInv
<1> DEFINE m == Message(1, 0, {}, "store")
<1>1. /\ hist = [x \in TicketLoc |-> <<m>>]
      /\ cur = [t \in Thread |-> {<<x, 1>> : x \in TicketLoc}]
      /\ acq = [t \in Thread |-> {}]
      /\ rel = [t \in Thread |-> {}]
      /\ sc = {}
  BY DEF TicketInit, MemInit
<1>2. m \in Messages(TicketLoc, Nat) /\ m.id = 1 /\ m.val = 0
  BY DEF Message, Messages
<1> HIDE DEF m
<1>3. \A x \in TicketLoc : /\ hist[x] \in Seq(Messages(TicketLoc, Nat))
                     /\ Len(hist[x]) = 1
                     /\ hist[x][1] = m
  BY <1>1, <1>2
<1>4. TicketTypes
  BY <1>1, <1>3, TicketAssumption DEF TicketTypes, MemType, TicketInit, Events
<1>5. Newest("ticket") = 1 /\ Newest("turn") = 1 /\ Newest("shareddata") = 1
  BY <1>3 DEF Newest, TicketLoc
<1>6. Counters
  BY <1>2, <1>3, <1>5, TicketAssumption DEF Counters, Linear, Shown, Drawn, Served, Newest, TicketLoc
<1>7. Tickets /\ Holding
  BY DEF TicketInit, Tickets, Holding, Holders
<1>8. Handoff
  BY <1>1, <1>5 DEF TicketInit, Handoff, Holders
<1> QED
  BY <1>4, <1>6, <1>7, <1>8 DEF TicketInv

-----------------------------------------------------------------------------
(* What the actions of a thread do to the invariant.                       *)

LEMMA FetchAddStep ==
  ASSUME TicketInv, NoWrap, NEW t \in Thread, Lock_FetchAddTicket(t)
  PROVE  TicketInv'
<1>1. PICK i \in Extendable(t, "ticket", relaxed) :
        /\ ReadModifyWrite(t, "ticket", i, Increment(Val("ticket", i)), relaxed)
        /\ ticket' = [ticket EXCEPT ![t] = Val("ticket", i)]
  BY DEF Lock_FetchAddTicket
<1> DEFINE T == Newest("ticket")
<1>2. /\ T \in Nat /\ T >= 1
      /\ Newest("turn") \in Nat /\ Newest("turn") >= 1
      /\ Newest("shareddata") \in Nat
      /\ hist["ticket"] \in Seq(Messages(TicketLoc, Nat))
  BY TicketLengths DEF TicketInv, TicketLoc
<1>3. i = T
  <2>1. i \in 1..T /\ (i < T => hist["ticket"][i + 1].kind # "rmw")
    BY <1>1 DEF Extendable, Readable
  <2> QED
    BY <1>2, <2>1 DEF TicketInv, Counters
<1>4. /\ Drawn \in Nat
      /\ Drawn < UintRange
      /\ Val("ticket", T) = Drawn
      /\ Increment(Drawn) = Shown(Drawn + 1)
  <2>1. Drawn \in Nat /\ T <= MaxRequests
    BY <1>2 DEF Drawn, Lock_FetchAddTicket
  <2>2. Drawn < UintRange
    BY <1>2, <2>1, TicketAssumption DEF NoWrap, Drawn
  <2>3. Val("ticket", T) = Shown(Drawn)
    BY <1>2 DEF TicketInv, Counters, Val, Drawn
  <2> QED
    BY <2>1, <2>2, <2>3, IncrementShown
<1>5. /\ Appended(TicketLoc, "ticket")
      /\ hist'["ticket"][T + 1].id = T + 1
      /\ hist'["ticket"][T + 1].val = Shown(Drawn + 1)
      /\ hist'["ticket"][T + 1].kind = "rmw"
  <2>1. Shown(Drawn + 1) \in Nat /\ MemType(TicketLoc, Nat) /\ "ticket" \in TicketLoc
    BY <1>4 DEF Shown, TicketInv, TicketTypes, TicketLoc
  <2>2. ReadModifyWrite(t, "ticket", Newest("ticket"), Shown(Drawn + 1), relaxed)
    BY <1>1, <1>3, <1>4
  <2> QED
    BY <2>1, <2>2, ReadModifyWriteAtEnd
<1>6. /\ pc[t] = "idle"
      /\ pc' = [pc EXCEPT ![t] = "spin"]
      /\ ticket' = [ticket EXCEPT ![t] = Drawn]
      /\ UNCHANGED turn
      /\ T <= MaxRequests
  BY <1>1, <1>3, <1>4 DEF Lock_FetchAddTicket, Goto
<1>7. cur' = [cur EXCEPT ![t] = Observe(t, "ticket", i, relaxed) \cup {NextEvent("ticket")}]
  BY <1>1 DEF ReadModifyWrite
<1>8. /\ Newest("ticket")' = T + 1
      /\ \A k \in 1..T : hist'["ticket"][k] = hist["ticket"][k]
      /\ hist'["turn"] = hist["turn"]
      /\ hist'["shareddata"] = hist["shareddata"]
  BY <1>5 DEF Appended, Newest, TicketLoc
<1>9. TicketTypes'
  <2>1. MemType(TicketLoc, Nat)'
    <3>1. Shown(Drawn + 1) \in Nat /\ MemType(TicketLoc, Nat) /\ "ticket" \in TicketLoc
      BY <1>4 DEF Shown, TicketInv, TicketTypes, TicketLoc
    <3> QED
      BY <1>1, <1>3, <1>4, <3>1, ReadModifyWriteType
  <2> QED
    BY <2>1, <1>4, <1>6, TicketAssumption DEF TicketInv, TicketTypes
<1>10. Counters'
  <2>1. \A x \in TicketLoc : Linear(x)'
    BY <1>5, AppendedLinear DEF TicketInv, TicketTypes, Counters, Message, TicketLoc
  <2>2. \A k \in 1..(T + 1) :
          hist'["ticket"][k].val = Shown(k - 1) /\ (k > 1 => hist'["ticket"][k].kind = "rmw")
    <3>1. \A k \in 1..T :
            hist["ticket"][k].val = Shown(k - 1) /\ (k > 1 => hist["ticket"][k].kind = "rmw")
      BY <1>2 DEF TicketInv, Counters
    <3>2. Drawn + 1 = T /\ (T + 1) - 1 = T
      BY <1>2 DEF Drawn
    <3>3. /\ hist'["ticket"][T + 1].val = Shown((T + 1) - 1)
          /\ hist'["ticket"][T + 1].kind = "rmw"
      BY <1>5, <3>2
    <3>4. \A k \in 1..(T + 1) : k \in 1..T \/ k = T + 1
      BY <1>2
    <3> QED
      BY <1>8, <3>1, <3>3, <3>4
  <2>3. Served' = Served /\ Drawn' = T /\ Served <= T
    BY <1>2, <1>8 DEF Served, Drawn, Newest, TicketInv, Counters
  <2> QED
    BY <2>1, <2>2, <2>3, <1>6, <1>8 DEF TicketInv, Counters, Newest
<1>11. Tickets'
  <2>1. Served' = Served /\ Drawn' = Drawn + 1 /\ Served <= Drawn /\ Served \in Nat
    BY <1>2, <1>8 DEF Served, Drawn, Newest, TicketInv, Counters
  <2> QED
    BY <2>1, <1>4, <1>6 DEF TicketInv, TicketTypes, Tickets
<1>12. Holders' = Holders
  BY <1>6 DEF Holders, TicketInv, TicketTypes
<1>13. \A u \in Thread : cur[u] \subseteq cur'[u]
  BY <1>7 DEF Observe, TicketInv, TicketTypes, MemType
<1>14. Holding' /\ Handoff'
  <2>1. \A u \in Holders : pc'[u] = pc[u] /\ ticket'[u] = ticket[u] /\ turn'[u] = turn[u]
    BY <1>6 DEF Holders, TicketInv, TicketTypes
  <2>2. Newest("turn")' = Newest("turn") /\ Newest("shareddata")' = Newest("shareddata")
    BY <1>8 DEF Newest
  <2>3. Holding'
    BY <1>12, <1>13, <2>1, <2>2 DEF TicketInv, Holding, Served, Holders
  <2>4. Handoff'
    BY <1>8, <1>12, <1>13, <2>2 DEF TicketInv, Handoff, Holders
  <2> QED
    BY <2>3, <2>4
<1> QED
  BY <1>9, <1>10, <1>11, <1>14 DEF TicketInv

(* The loads: the memory keeps its histories, the thread sees more.        *)
LEMMA LoadFrame ==
  ASSUME TicketInv, NEW t \in Thread, NEW x \in TicketLoc, NEW i, NEW ord, Load(t, x, i, ord)
  PROVE  /\ MemType(TicketLoc, Nat)'
         /\ i \in 1..Newest(x)
         /\ hist' = hist
         /\ cur' = [cur EXCEPT ![t] = Observe(t, x, i, ord)]
         /\ \A u \in Thread : cur[u] \subseteq cur'[u]
         /\ Counters'
<1>1. MemType(TicketLoc, Nat)' /\ i \in 1..Newest(x)
  BY LoadType DEF TicketInv, TicketTypes
<1>2. hist' = hist /\ cur' = [cur EXCEPT ![t] = Observe(t, x, i, ord)]
  BY DEF Load
<1>3. \A u \in Thread : cur[u] \subseteq cur'[u]
  BY <1>2 DEF Observe, TicketInv, TicketTypes, MemType
<1>4. Counters'
  BY <1>2 DEF TicketInv, Counters, Linear, Newest, Served, Drawn
<1> QED
  BY <1>1, <1>2, <1>3, <1>4

LEMMA LoadTurnStep ==
  ASSUME TicketInv, NoWrap, NEW t \in Thread, Lock_LoadTurn(t)
  PROVE  TicketInv'
<1>1. PICK i \in Readable(t, "turn", OrderSpin) :
        /\ Load(t, "turn", i, OrderSpin)
        /\ Goto(t, "spin", IF Val("turn", i) = ticket[t] THEN "cs" ELSE "spin")
  BY DEF Lock_LoadTurn
<1>2. /\ MemType(TicketLoc, Nat)'
      /\ i \in 1..Newest("turn")
      /\ hist' = hist
      /\ cur' = [cur EXCEPT ![t] = Observe(t, "turn", i, OrderSpin)]
      /\ \A u \in Thread : cur[u] \subseteq cur'[u]
      /\ Counters'
  <2>1. "turn" \in TicketLoc
    BY DEF TicketLoc
  <2> QED
    BY <1>1, <2>1, LoadFrame
<1>3. /\ pc[t] = "spin"
      /\ pc' = [pc EXCEPT ![t] = IF Val("turn", i) = ticket[t] THEN "cs" ELSE "spin"]
      /\ UNCHANGED <<ticket, turn>>
  BY <1>1 DEF Lock_LoadTurn, Goto
<1>4. TicketTypes'
  BY <1>2, <1>3 DEF TicketInv, TicketTypes
<1>5. Tickets'
  BY <1>2, <1>3 DEF TicketInv, TicketTypes, Tickets, Served, Drawn, Newest
<1>6. CASE Val("turn", i) # ticket[t]
  <2>1. pc' = pc
    BY <1>3, <1>6 DEF TicketInv, TicketTypes
  <2>2. Holders' = Holders
    BY <2>1 DEF Holders
  <2>3. Holding'
    BY <1>2, <1>3, <2>1, <2>2 DEF TicketInv, Holding, Served, Newest, Holders
  <2>4. Handoff'
    BY <1>2, <2>2 DEF TicketInv, Handoff, Newest, Holders
  <2> QED
    BY <1>2, <1>4, <1>5, <2>3, <2>4 DEF TicketInv
<1>7. CASE Val("turn", i) = ticket[t]
  <2>1. i = Newest("turn") /\ ticket[t] = Served
    BY <1>2, <1>3, <1>7, OwnTurnIsNewest
  <2>2. Holders = {}
    BY <1>3, <2>1 DEF TicketInv, Holding, Tickets, Holders
  <2>3. Holders' = {t}
    BY <1>3, <1>7, <2>2 DEF Holders, TicketInv, TicketTypes
  <2>4. <<"turn", Newest("turn")>> \in cur'[t]
    <3>1. hist["turn"][i].id = i
      BY <1>2 DEF TicketInv, Counters, Linear, TicketLoc, Newest
    <3>2. <<"turn", i>> \in Upto("turn", i)
      BY <1>2, <3>1 DEF Upto, Event
    <3> QED
      BY <1>2, <2>1, <3>2 DEF Observe, TicketInv, TicketTypes, MemType
  <2>5. Holding'
    BY <1>2, <1>3, <1>7, <2>1, <2>3, <2>4 DEF Holding, Served, Newest, TicketInv, TicketTypes
  <2>6. hist["turn"][i].view \subseteq cur'[t]
    BY <1>2 DEF Observe, OrderSpin, Acquiring, TicketInv, TicketTypes, MemType
  <2>7. \A k \in 1..Newest("shareddata") : <<"shareddata", k>> \in cur'[t]
    <3>1. <<"shareddata", 1>> \in cur'[t]
      BY <1>2 DEF TicketInv, Handoff, TicketLoc
    <3>2. \A k \in 2..Newest("shareddata") : <<"shareddata", k>> \in cur'[t]
      BY <2>1, <2>2, <2>6 DEF TicketInv, Handoff
    <3>3. \A k \in 1..Newest("shareddata") : k = 1 \/ k \in 2..Newest("shareddata")
      BY TicketLengths DEF TicketLoc, TicketInv
    <3> QED
      BY <3>1, <3>2, <3>3
  <2>8. Handoff'
    BY <1>2, <2>3, <2>7 DEF TicketInv, Handoff, Newest
  <2> QED
    BY <1>2, <1>4, <1>5, <2>5, <2>8 DEF TicketInv
<1> QED
  BY <1>6, <1>7

(* A step that neither changes a history nor who holds the lock.           *)
LEMMA SeesMoreStep ==
  ASSUME TicketInv, hist' = hist, Holders' = Holders, UNCHANGED ticket, TicketTypes', Counters',
         \A u \in Thread : pc'[u] = "idle" <=> pc[u] = "idle",
         \A u \in Thread : pc'[u] = "publish" => turn'[u] = ticket[u],
         \A u \in Thread : cur[u] \subseteq cur'[u]
  PROVE  TicketInv'
<1>1. Tickets'
  BY DEF TicketInv, Tickets, Served, Drawn, Newest
<1>2. Holding'
  BY DEF TicketInv, Holding, Served, Newest, Holders
<1>3. Handoff'
  BY DEF TicketInv, Handoff, Newest, Holders
<1> QED
  BY <1>1, <1>2, <1>3 DEF TicketInv

LEMMA ReadSharedStep ==
  ASSUME TicketInv, NEW t \in Thread, ReadShared(t)
  PROVE  TicketInv'
<1>1. PICK i \in Readable(t, "shareddata", relaxed) : Load(t, "shareddata", i, relaxed)
  BY DEF ReadShared
<1>2. /\ MemType(TicketLoc, Nat)'
      /\ hist' = hist
      /\ \A u \in Thread : cur[u] \subseteq cur'[u]
      /\ Counters'
  <2>1. "shareddata" \in TicketLoc
    BY DEF TicketLoc
  <2> QED
    BY <1>1, <2>1, LoadFrame
<1>3. pc[t] = "cs" /\ pc' = [pc EXCEPT ![t] = "unlock"] /\ UNCHANGED <<ticket, turn>>
  BY DEF ReadShared, Goto
<1>4. TicketTypes'
  BY <1>2, <1>3 DEF TicketInv, TicketTypes
<1>5. Holders' = Holders
  BY <1>3 DEF Holders, TicketInv, TicketTypes
<1>6. /\ \A u \in Thread : pc'[u] = "idle" <=> pc[u] = "idle"
      /\ \A u \in Thread : pc'[u] = "publish" => turn'[u] = ticket[u]
  BY <1>3 DEF TicketInv, TicketTypes, Holding, Holders
<1> QED
  BY <1>2, <1>3, <1>4, <1>5, <1>6, SeesMoreStep

LEMMA UnlockLoadStep ==
  ASSUME TicketInv, NoWrap, NEW t \in Thread, Unlock_LoadTurn(t)
  PROVE  TicketInv'
<1>1. PICK i \in Readable(t, "turn", OrderUnlockLoad) :
        /\ Load(t, "turn", i, OrderUnlockLoad)
        /\ turn' = [turn EXCEPT ![t] = Val("turn", i)]
  BY DEF Unlock_LoadTurn
<1>2. /\ MemType(TicketLoc, Nat)'
      /\ hist' = hist
      /\ i \in 1..Newest("turn")
      /\ \A u \in Thread : cur[u] \subseteq cur'[u]
      /\ Counters'
  <2>1. "turn" \in TicketLoc
    BY DEF TicketLoc
  <2> QED
    BY <1>1, <2>1, LoadFrame
<1>3. pc[t] = "unlock" /\ pc' = [pc EXCEPT ![t] = "publish"] /\ UNCHANGED ticket
  BY DEF Unlock_LoadTurn, Goto
<1>4. t \in Holders
  BY <1>3 DEF Holders
<1>5. i = Newest("turn")
  <2>1. Event("turn", Newest("turn")) \in cur[t]
    <3>1. hist["turn"][Newest("turn")].id = Newest("turn")
      BY TicketLengths DEF TicketInv, Counters, Linear, TicketLoc, Newest
    <3> QED
      BY <1>4, <3>1 DEF TicketInv, Holding, Event
  <2>2. "turn" \in TicketLoc
    BY DEF TicketLoc
  <2> QED
    BY <1>1, <2>1, <2>2, NewestSeen DEF TicketInv, TicketTypes
<1>6. Val("turn", i) = ticket[t]
  <2>1. Val("turn", i) = Shown(Served)
    BY <1>2, <1>5 DEF TicketInv, Counters, Val, Served
  <2>2. Served \in Nat /\ Drawn \in Int
    BY TicketLengths DEF TicketInv, TicketLoc, Served, Drawn
  <2>3. Served \in Served..(Drawn - 1)
    BY <1>4 DEF TicketInv, Tickets, Holding, Holders
  <2>4. Drawn <= UintRange
    BY <2>2, TicketAssumption DEF TicketInv, Counters, NoWrap
  <2>5. Shown(Served) = Served
    BY <2>2, <2>3, <2>4, TicketAssumption DEF Shown
  <2> QED
    BY <1>4, <2>1, <2>5 DEF TicketInv, Holding
<1>7. TicketTypes'
  BY <1>1, <1>2, <1>3, <1>6 DEF TicketInv, TicketTypes
<1>8. Holders' = Holders
  BY <1>3 DEF Holders, TicketInv, TicketTypes
<1>9. /\ \A u \in Thread : pc'[u] = "idle" <=> pc[u] = "idle"
      /\ \A u \in Thread : pc'[u] = "publish" => turn'[u] = ticket[u]
  BY <1>1, <1>3, <1>6 DEF TicketInv, TicketTypes, Holding, Holders
<1> QED
  BY <1>2, <1>3, <1>7, <1>8, <1>9, SeesMoreStep

LEMMA WriteSharedStep ==
  ASSUME TicketInv, NEW t \in Thread, WriteShared(t)
  PROVE  TicketInv'
<1> DEFINE N == Newest("shareddata")
<1>1. pc[t] = "cs" /\ pc' = [pc EXCEPT ![t] = "unlock"] /\ UNCHANGED <<ticket, turn>>
  BY DEF WriteShared, Goto
<1>0. PICK v \in Nat : Store(t, "shareddata", v, relaxed)
  BY DEF WriteShared
<1>2. t \in Holders /\ Holders = {t}
  BY <1>1, HolderIsUnique DEF Holders
<1>3. N \in Nat /\ N >= 1 /\ MemType(TicketLoc, Nat) /\ "shareddata" \in TicketLoc
  BY TicketLengths DEF TicketLoc, TicketInv, TicketTypes
<1>4. Event("shareddata", N) \in cur[t]
  <2>1. hist["shareddata"][N].id = N
    BY <1>3 DEF TicketInv, Counters, Linear, Newest
  <2> QED
    BY <1>2, <1>3, <2>1 DEF TicketInv, Handoff, Event
<1>5. /\ Appended(TicketLoc, "shareddata")
      /\ hist'["shareddata"][N + 1].id = N + 1
      /\ cur'[t] = cur[t] \cup Upto("shareddata", N) \cup {NextEvent("shareddata")}
      /\ \A u \in Thread \ {t} : cur'[u] = cur[u]
  BY <1>0, <1>3, <1>4, StoreAtEnd
<1>6. MemType(TicketLoc, Nat)'
  BY <1>0, <1>3, StoreType
<1>7. /\ hist'["ticket"] = hist["ticket"]
      /\ hist'["turn"] = hist["turn"]
      /\ Newest("shareddata")' = N + 1
  BY <1>5 DEF Appended, TicketLoc, Newest
<1>8. \A u \in Thread : cur[u] \subseteq cur'[u]
  BY <1>5 DEF TicketInv, TicketTypes, MemType
<1>9. TicketTypes'
  BY <1>1, <1>6 DEF TicketInv, TicketTypes
<1>10. Counters'
  <2>1. \A x \in TicketLoc : Linear(x)'
    BY <1>3, <1>5, AppendedLinear DEF TicketInv, Counters
  <2> QED
    BY <2>1, <1>7 DEF TicketInv, Counters, Served, Drawn, Newest
<1>11. Tickets'
  BY <1>1, <1>7 DEF TicketInv, TicketTypes, Tickets, Served, Drawn, Newest
<1>12. Holders' = {t}
  BY <1>1, <1>2 DEF Holders, TicketInv, TicketTypes
<1>13. Holding'
  BY <1>1, <1>2, <1>7, <1>8, <1>12 DEF TicketInv, TicketTypes, Holding, Served, Newest
<1>14. Handoff'
  <2>1. <<"shareddata", N + 1>> \in cur'[t]
    BY <1>5 DEF NextEvent, TicketInv, TicketTypes, MemType
  <2>2. \A k \in 1..N : <<"shareddata", k>> \in cur'[t]
    BY <1>2, <1>8 DEF TicketInv, Handoff
  <2>3. \A k \in 1..(N + 1) : <<"shareddata", k>> \in cur'[t]
    <3>1. \A k \in 1..(N + 1) : k \in 1..N \/ k = N + 1
      BY <1>3
    <3> QED
      BY <2>1, <2>2, <3>1
  <2> QED
    BY <1>7, <1>8, <1>12, <2>3 DEF TicketInv, Handoff
<1> QED
  BY <1>9, <1>10, <1>11, <1>13, <1>14 DEF TicketInv

LEMMA UnlockStoreStep ==
  ASSUME TicketInv, NoWrap, NEW t \in Thread, Unlock_StoreTurn(t)
  PROVE  TicketInv'
<1> DEFINE N == Newest("turn")
<1>1. /\ pc[t] = "publish" /\ pc' = [pc EXCEPT ![t] = "idle"] /\ UNCHANGED <<ticket, turn>>
      /\ Store(t, "turn", Increment(turn[t]), release)
  BY DEF Unlock_StoreTurn, Goto, OrderUnlockStore
<1>2. t \in Holders /\ Holders = {t}
  BY <1>1, HolderIsUnique DEF Holders
<1>3. /\ N \in Nat /\ N >= 1 /\ Newest("ticket") \in Nat
      /\ MemType(TicketLoc, Nat) /\ "turn" \in TicketLoc
  BY TicketLengths DEF TicketLoc, TicketInv, TicketTypes
<1>4. turn[t] = Served /\ ticket[t] = Served /\ Served \in Nat /\ Served < Drawn
  BY <1>1, <1>2, <1>3 DEF TicketInv, Holding, Tickets, Holders, Served, Drawn
<1>5. Increment(turn[t]) = Shown(N) /\ Shown(N) \in Nat
  <2>1. Served < UintRange
    BY <1>3, <1>4, TicketAssumption DEF TicketInv, Counters, NoWrap, Drawn
  <2>2. Increment(Shown(Served)) = Shown(Served + 1) /\ Shown(Served) = Served
    BY <1>4, <2>1, IncrementShown
  <2> QED
    BY <1>3, <1>4, <2>2 DEF Served, Shown
<1>6. Event("turn", N) \in cur[t]
  <2>1. hist["turn"][N].id = N
    BY <1>3 DEF TicketInv, Counters, Linear, Newest
  <2> QED
    BY <1>2, <2>1 DEF TicketInv, Holding, Event
<1>7. /\ Appended(TicketLoc, "turn")
      /\ hist'["turn"][N + 1].id = N + 1
      /\ hist'["turn"][N + 1].val = Shown(N)
      /\ hist'["turn"][N + 1].view = cur[t]
      /\ cur'[t] = cur[t] \cup Upto("turn", N) \cup {NextEvent("turn")}
      /\ \A u \in Thread \ {t} : cur'[u] = cur[u]
  <2>1. Store(t, "turn", Shown(N), release)
    BY <1>1, <1>5
  <2>2. Released(t, release) = cur[t]
    BY DEF Released, release, Releasing
  <2>3. Event("turn", Newest("turn")) \in cur[t]
    BY <1>6
  <2>4. /\ MemType(TicketLoc, Nat) /\ "turn" \in TicketLoc /\ Shown(N) \in Nat
    BY <1>3, <1>5
  <2> HIDE DEF N
  <2>5. /\ Appended(TicketLoc, "turn")
        /\ hist'["turn"][Newest("turn") + 1].id = Newest("turn") + 1
        /\ hist'["turn"][Newest("turn") + 1].val = Shown(N)
        /\ hist'["turn"][Newest("turn") + 1].view = Released(t, release)
        /\ cur'[t] = cur[t] \cup Upto("turn", Newest("turn")) \cup {NextEvent("turn")}
        /\ \A u \in Thread \ {t} : cur'[u] = cur[u]
    BY <2>1, <2>3, <2>4, StoreAtEnd
  <2> QED
    BY <2>2, <2>5 DEF N
<1>8. MemType(TicketLoc, Nat)'
  BY <1>1, <1>3, <1>5, StoreType
<1>9. /\ hist'["ticket"] = hist["ticket"]
      /\ hist'["shareddata"] = hist["shareddata"]
      /\ Newest("turn")' = N + 1
      /\ Newest("shareddata")' = Newest("shareddata")
      /\ Newest("ticket")' = Newest("ticket")
      /\ \A k \in 1..N : hist'["turn"][k] = hist["turn"][k]
      /\ hist'["turn"][N + 1].id = N + 1
      /\ hist'["turn"][N + 1].val = Shown(N)
      /\ hist'["turn"][N + 1].view = cur[t]
  BY <1>7 DEF Appended, TicketLoc, Newest
<1>10. \A u \in Thread : cur[u] \subseteq cur'[u]
  BY <1>7 DEF TicketInv, TicketTypes, MemType
<1>11. TicketTypes'
  BY <1>1, <1>8 DEF TicketInv, TicketTypes
<1>12. Served' = Served + 1 /\ Drawn' = Drawn
  BY <1>3, <1>9 DEF Served, Drawn
<1>13. Counters'
  <2>1. \A x \in TicketLoc : Linear(x)'
    BY <1>3, <1>7, AppendedLinear DEF TicketInv, Counters
  <2>2. \A k \in 1..(N + 1) : hist'["turn"][k].val = Shown(k - 1)
    BY <1>3, <1>9 DEF TicketInv, Counters
  <2>3. Served' <= Drawn' /\ Drawn' <= MaxRequests
    BY <1>3, <1>4, <1>12 DEF TicketInv, Counters, Drawn
  <2> QED
    BY <2>1, <2>2, <2>3, <1>9 DEF TicketInv, Counters
<1>14. Tickets'
  <2>1. \A u \in Thread : pc'[u] # "idle" => u # t /\ pc[u] # "idle" /\ ticket'[u] = ticket[u]
    BY <1>1 DEF TicketInv, TicketTypes
  <2>2. \A u \in Thread : pc[u] # "idle" /\ u # t => ticket[u] # Served
    BY <1>1, <1>4 DEF TicketInv, Tickets
  <2>3. \A u \in Thread : pc[u] # "idle" => ticket[u] \in Served..(Drawn - 1)
    BY DEF TicketInv, Tickets
  <2>4. \A u \in Thread : pc'[u] # "idle" => ticket'[u] \in Served'..(Drawn' - 1)
    BY <1>3, <1>4, <1>12, <2>1, <2>2, <2>3
  <2> QED
    BY <2>1, <2>4 DEF TicketInv, Tickets
<1>15. Holders' = {}
  BY <1>1, <1>2 DEF Holders, TicketInv, TicketTypes
<1>16. Holding'
  BY <1>15 DEF Holding
<1>17. Handoff'
  <2>1. \A k \in 2..Newest("shareddata") : <<"shareddata", k>> \in cur[t]
    <3>1. \A k \in 2..Newest("shareddata") : k \in 1..Newest("shareddata")
      OBVIOUS
    <3> QED
      BY <1>2, <3>1 DEF TicketInv, Handoff
  <2>2. hist'["turn"][N + 1].view = cur[t]
    BY <1>9 DEF Message
  <2> QED
    BY <1>9, <1>10, <1>15, <2>1, <2>2 DEF TicketInv, Handoff
<1> QED
  BY <1>11, <1>13, <1>14, <1>16, <1>17 DEF TicketInv

(* Every step of the program keeps the invariant.                          *)
THEOREM TicketNextInvariant ==
  ASSUME TicketInv, NoWrap, [TicketNext]_ticketVars
  PROVE  TicketInv'
<1>1. ASSUME NEW t \in Thread, ThreadStep(t)
      PROVE  TicketInv'
  BY <1>1, FetchAddStep, LoadTurnStep, ReadSharedStep, WriteSharedStep, UnlockLoadStep,
     UnlockStoreStep DEF ThreadStep
<1>2. CASE UNCHANGED ticketVars
  BY <1>2 DEF ticketVars, TicketInv, TicketTypes, MemType, Counters, Tickets, Holding, Handoff,
              Holders, Served, Drawn, Newest, Linear
<1> QED
  BY <1>1, <1>2 DEF TicketNext, TicketTerminated

-----------------------------------------------------------------------------
(* The invariant holds in every reachable state.                           *)
THEOREM TicketInvariance ==
  ASSUME NoWrap
  PROVE  TicketSpec => []TicketInv
<1>1. TicketInit => TicketInv
  BY TicketInitInvariant
<1>2. TicketInv /\ [TicketNext]_ticketVars => TicketInv'
  BY TicketNextInvariant
<1> QED
  BY <1>1, <1>2, PTL DEF TicketSpec

(* TicketTypeOK: the counters and the locals keep their types.                   *)
THEOREM TicketTypeCorrectness ==
  ASSUME NoWrap
  PROVE  TicketSpec => []TicketTypeOK
<1>1. ASSUME TicketInv
      PROVE  TicketTypeOK
  <2>1. ASSUME NEW k \in 0..UintRange
        PROVE  Shown(k) \in 0..(UintRange - 1)
    BY TicketAssumption DEF Shown
  <2>2. /\ Newest("ticket") \in Nat
        /\ Newest("turn") \in Nat
        /\ Newest("ticket") - 1 <= UintRange
        /\ Newest("turn") - 1 <= UintRange
    BY <1>1, TicketLengths, TicketAssumption DEF TicketInv, Counters, NoWrap, Served, Drawn, TicketLoc
  <2>3. \A i \in 1..Newest("ticket") : Val("ticket", i) \in 0..(UintRange - 1)
    BY <1>1, <2>1, <2>2, TicketAssumption DEF TicketInv, Counters, Val
  <2>4. \A i \in 1..Newest("turn") : Val("turn", i) \in 0..(UintRange - 1)
    BY <1>1, <2>1, <2>2, TicketAssumption DEF TicketInv, Counters, Val
  <2> QED
    BY <1>1, <2>3, <2>4 DEF TicketTypeOK, TicketInv, TicketTypes
<1> QED
  BY <1>1, TicketInvariance, PTL

(* MutualExclusion: at most one thread holds the lock.                     *)
THEOREM TicketSafety ==
  ASSUME NoWrap
  PROVE  TicketSpec => []MutualExclusion
<1>1. ASSUME TicketInv
      PROVE  MutualExclusion
  BY <1>1, HolderIsUnique DEF MutualExclusion
<1> QED
  BY <1>1, TicketInvariance, PTL

(* HandoffHappensBefore: lock() synchronizes with the unlock() before it,  *)
(* and through it with every earlier access of the shared datum.           *)
THEOREM Synchronization ==
  ASSUME NoWrap
  PROVE  TicketSpec => []HandoffHappensBefore
<1>1. ASSUME TicketInv, NEW t \in Thread, pc[t] = "cs"
      PROVE  Synchronized(t, "shareddata")
  <2>1. t \in Holders
    BY <1>1 DEF Holders
  <2>2. \A j \in 1..Newest("shareddata") : Event("shareddata", j) = <<"shareddata", j>>
    BY <1>1 DEF TicketInv, Counters, Linear, Event, Newest, TicketLoc
  <2> QED
    BY <1>1, <2>1, <2>2 DEF TicketInv, Handoff, Synchronized, Upto
<1>2. TicketInv => HandoffHappensBefore
  BY <1>1 DEF HandoffHappensBefore
<1> QED
  BY <1>2, TicketInvariance, PTL

(* FirstComeFirstServed: nobody who waits holds an earlier ticket.         *)
THEOREM Order ==
  ASSUME NoWrap
  PROVE  TicketSpec => []FirstComeFirstServed
<1>1. ASSUME TicketInv, NEW t \in Holders, NEW u \in Thread, pc[u] = "spin"
      PROVE  ticket[t] < ticket[u]
  <2>1. t \in Thread /\ pc[t] # "idle" /\ pc[t] # "spin" /\ ticket[t] = Served
    BY <1>1 DEF Holders, TicketInv, Holding
  <2>2. ticket[u] \in Served..(Drawn - 1) /\ ticket[u] # Served
    BY <1>1, <2>1 DEF TicketInv, Tickets
  <2>3. Served \in Nat /\ Drawn \in Int
    BY <1>1, TicketLengths DEF TicketInv, TicketLoc, Served, Drawn
  <2> QED
    BY <2>1, <2>2, <2>3
<1>2. TicketInv => FirstComeFirstServed
  BY <1>1 DEF FirstComeFirstServed
<1> QED
  BY <1>2, TicketInvariance, PTL

(* UnlockReadsOwnTurn: the relaxed load of unlock() is never stale.        *)
THEOREM UnlockIsExact ==
  ASSUME NoWrap
  PROVE  TicketSpec => []UnlockReadsOwnTurn
<1>1. TicketInv => UnlockReadsOwnTurn
  BY DEF TicketInv, Holding, Holders, UnlockReadsOwnTurn
<1> QED
  BY <1>1, TicketInvariance, PTL

-----------------------------------------------------------------------------
(* ImplementsLock: the ticket lock implements the abstract lock.           *)
THEOREM TicketRefinement ==
  ASSUME NoWrap
  PROVE  TicketSpec => ImplementsLock
<1>1. TicketInit => Lock!Init
  BY DEF TicketInit, Lock!Init, Holders
<1>2. ASSUME TicketInv, TicketInv', [TicketNext]_ticketVars
      PROVE  [Lock!Next]_Holders
  <2>1. ASSUME NEW t \in Thread, Lock_FetchAddTicket(t)
        PROVE  Holders' = Holders
    BY <1>2, <2>1 DEF Lock_FetchAddTicket, Goto, Holders, TicketInv, TicketTypes
  <2>2. ASSUME NEW t \in Thread, Lock_LoadTurn(t)
        PROVE  Holders' = Holders \/ Lock!Acquire(t)
    <3>1. PICK to \in {"cs", "spin"} : Goto(t, "spin", to)
      BY <2>2 DEF Lock_LoadTurn
    <3>2. CASE to = "spin"
      BY <1>2, <3>1, <3>2 DEF Goto, Holders, TicketInv, TicketTypes
    <3>3. CASE to = "cs"
      <4>1. t \in Holders' /\ Holders' = Holders \cup {t} /\ t \notin Holders
        BY <1>2, <3>1, <3>3 DEF Goto, Holders, TicketInv, TicketTypes
      <4>2. \A u \in Holders' : u = t
        BY <1>2, <4>1 DEF TicketInv, Holding, Tickets, Holders
      <4> QED
        BY <4>1, <4>2 DEF Lock!Acquire
    <3> QED
      BY <3>1, <3>2, <3>3
  <2>3. ASSUME NEW t \in Thread, ReadShared(t) \/ WriteShared(t) \/ Unlock_LoadTurn(t)
        PROVE  Holders' = Holders
    BY <1>2, <2>3 DEF ReadShared, WriteShared, Unlock_LoadTurn, Goto, Holders, TicketInv, TicketTypes
  <2>4. ASSUME NEW t \in Thread, Unlock_StoreTurn(t)
        PROVE  Lock!Release(t)
    <3>1. Goto(t, "publish", "idle")
      BY <2>4 DEF Unlock_StoreTurn
    <3>2. t \in Holders /\ Holders' = Holders \ {t}
      BY <1>2, <3>1 DEF Goto, Holders, TicketInv, TicketTypes
    <3>3. Holders = {t}
      BY <1>2, <3>2, HolderIsUnique
    <3> QED
      BY <3>2, <3>3 DEF Lock!Release
  <2>5. CASE UNCHANGED ticketVars
    BY <2>5 DEF ticketVars, Holders
  <2> QED
    BY <1>2, <2>1, <2>2, <2>3, <2>4, <2>5 DEF TicketNext, ThreadStep, TicketTerminated, Lock!Next
<1> QED
  BY <1>1, <1>2, TicketInvariance, PTL DEF TicketSpec, ImplementsLock, Lock!Spec

-----------------------------------------------------------------------------
(***************************************************************************)
(* Proofs about RCU.                                                       *)
(***************************************************************************)
Value == Nat \cup {Uninit}

ReadLabel == {"idle", "returned", "readData1", "readData2"}
WriteLabel == {"load", "incLoad1", "incStore1", "incLoad2", "incStore2", "cas"}

(* Where ptr points to a version that the thread works on.                 *)
PtrLabel == {"returned", "readData1", "readData2"} \cup (WriteLabel \ {"load"})

Cell(x) == Val(x, Newest(x))
Knows(t, x) == \A j \in 1..Newest(x) : <<x, j>> \in cur[t]
Carries(k, x) == \A j \in 2..Newest(x) : <<x, j>> \in hist[DataPtr][k].view

(* The inductive invariant.  Types: of the memory and of the locals.       *)
Types ==
  /\ MemType(Loc, Value)
  /\ pc \in [Thread -> ReadLabel \cup WriteLabel]
  /\ ptr \in [Thread -> Node] /\ tmp \in [Thread -> Node]
  /\ data1 \in [Thread -> Value] /\ data2 \in [Thread -> Value]
  /\ args \in Seq(Argument) /\ Len(args) <= MaxWrites

(* Chain: every publication replaced the newest version; all locations are *)
(* written in the order of their histories.                                *)
Chain ==
  /\ \A x \in Loc : Linear(x)
  /\ \A k \in 2..Newest(DataPtr) : hist[DataPtr][k].kind = "rmw"

(* Ownership: the Data of a writer is its own, and the writer has seen all *)
(* that is in it; what is not allocated has not been written.              *)
OwnedBy(t) ==
  /\ tmp[t] \in 1..Len(args) /\ tmp[t] \notin Published
  /\ \A u \in Writing \ {t} : tmp[t] # tmp[u]
  /\ Knows(t, Data1(tmp[t])) /\ Knows(t, Data2(tmp[t]))
Ownership ==
  /\ \A t \in Thread, x \in Loc : <<x, 1>> \in cur[t]
  /\ \A n \in (Len(args) + 1)..MaxWrites : Newest(Data1(n)) = 1 /\ Newest(Data2(n)) = 1
  /\ \A t \in Writing : OwnedBy(t)

(* Publication: a published version is initialised, and the message that   *)
(* publishes it carries its contents.                                      *)
PublishedAt(k) ==
  LET n == Val(DataPtr, k)
  IN  /\ n \in 0..Len(args)
      /\ Cell(Data1(n)) \in Nat /\ Cell(Data2(n)) \in Nat
      /\ Carries(k, Data1(n)) /\ Carries(k, Data2(n))
Publication == \A k \in 1..Newest(DataPtr) : PublishedAt(k)

(* Pointing: the version ptr points to is published, and seen.             *)
PointsWell(t) ==
  pc[t] \in PtrLabel =>
    ptr[t] \in Published /\ Knows(t, Data1(ptr[t])) /\ Knows(t, Data2(ptr[t]))

(* Computing: what has been loaded is in that version, what has been       *)
(* stored is the sum.                                                      *)
ComputesWell(t) ==
  /\ pc[t] \in {"readData2", "returned", "incStore1"} => data1[t] = Cell(Data1(ptr[t]))
  /\ pc[t] \in {"returned", "incStore2"} => data2[t] = Cell(Data2(ptr[t]))
  /\ pc[t] \in {"incLoad2", "incStore2", "cas"} =>
       Cell(Data1(tmp[t])) = Cell(Data1(ptr[t])) + args[tmp[t]][1]
  /\ pc[t] = "cas" => Cell(Data2(tmp[t])) = Cell(Data2(ptr[t])) + args[tmp[t]][2]

IInv ==
  /\ Types /\ Chain /\ Ownership /\ Publication
  /\ \A t \in Thread : PointsWell(t) /\ ComputesWell(t)

-----------------------------------------------------------------------------
(* The locations are different.                                            *)
LEMMA Locations ==
  /\ DataPtr \in Loc
  /\ \A n \in Node : Data1(n) \in Loc \ {DataPtr} /\ Data2(n) \in Loc \ {DataPtr}
  /\ \A m, n : Data1(m) # Data2(n)
  /\ \A m, n : Data1(m) = Data1(n) => m = n
  /\ \A m, n : Data2(m) = Data2(n) => m = n
<1>1. Len(DataPtr) = 1
  BY DEF DataPtr
<1>2. \A n : Len(Data1(n)) = 2 /\ Data1(n)[1] = "data1" /\ Data1(n)[2] = n
  BY DEF Data1
<1>3. \A n : Len(Data2(n)) = 2 /\ Data2(n)[1] = "data2" /\ Data2(n)[2] = n
  BY DEF Data2
<1> QED
  BY <1>1, <1>2, <1>3 DEF Loc

(* Lengths of the histories are positive numbers.                          *)
LEMMA Lengths ==
  ASSUME Types, NEW x \in Loc
  PROVE  Newest(x) \in Nat /\ Newest(x) >= 1 /\ hist[x] \in Seq(Messages(Loc, Value))
BY LenProperties DEF Types, MemType, Newest

(* A thread that knows a location reads its newest message.                *)
LEMMA Known ==
  ASSUME IInv, NEW t \in Thread, NEW x \in Loc, Knows(t, x)
  PROVE  Event(x, Newest(x)) \in cur[t] /\ \A ord : Readable(t, x, ord) \subseteq {Newest(x)}
<1>1. MemType(Loc, Value) /\ Newest(x) \in Nat /\ Newest(x) >= 1
  BY Lengths DEF IInv, Types
<1>2. Event(x, Newest(x)) \in cur[t]
  BY <1>1 DEF Knows, Event, IInv, Chain, Linear, Newest
<1> QED
  BY <1>1, <1>2, NewestSeen

(* Published versions are allocated, and no writer's.                      *)
LEMMA PublishedNodes ==
  ASSUME IInv, NEW n \in Published
  PROVE  /\ n \in Node /\ n \in 0..Len(args)
         /\ Cell(Data1(n)) \in Nat /\ Cell(Data2(n)) \in Nat
         /\ \A t \in Writing : tmp[t] # n
<1>1. Len(args) \in Nat /\ MaxWrites \in Nat /\ Len(args) <= MaxWrites
  BY RCUAssumption, LenProperties DEF IInv, Types
<1>2. PICK k \in 1..Newest(DataPtr) : n = Val(DataPtr, k)
  BY DEF Published
<1>3. PublishedAt(k)
  BY DEF IInv, Publication
<1> QED
  BY <1>1, <1>2, <1>3 DEF PublishedAt, IInv, Ownership, OwnedBy, Node

THEOREM InitInvariant ==
  ASSUME Init
  PROVE  IInv
<1> DEFINE first(x) == IF x \in {DataPtr, Data1(0), Data2(0)} THEN 0 ELSE Uninit
           m(v) == Message(1, v, {}, "store")
<1>1. /\ hist = [x \in Loc |-> <<m(first(x))>>]
      /\ cur = [t \in Thread |-> {<<x, 1>> : x \in Loc}]
      /\ acq = [t \in Thread |-> {}]
      /\ rel = [t \in Thread |-> {}]
      /\ sc = {}
  BY DEF Init, MemInit
<1>2. /\ pc = [t \in Thread |-> "idle"]
      /\ ptr = [t \in Thread |-> 0] /\ tmp = [t \in Thread |-> 0]
      /\ data1 = [t \in Thread |-> 0] /\ data2 = [t \in Thread |-> 0]
      /\ args = <<>>
  BY DEF Init
<1>3. \A v \in Value : m(v) \in Messages(Loc, Value) /\ m(v).id = 1 /\ m(v).val = v
  BY DEF Message, Messages
<1>4. \A x : first(x) \in Value
  BY DEF Value
<1>5. first(DataPtr) = 0 /\ first(Data1(0)) = 0 /\ first(Data2(0)) = 0
  OBVIOUS
<1> HIDE DEF m, first
<1>6. \A x \in Loc : /\ hist[x] = <<m(first(x))>>
                     /\ hist[x] \in Seq(Messages(Loc, Value))
                     /\ Newest(x) = 1
                     /\ hist[x][1].id = 1
                     /\ Val(x, 1) = first(x)
  BY <1>1, <1>3, <1>4 DEF Newest, Val
<1>7. MaxWrites \in Nat /\ 0 \in Node /\ 0 \in Value
  BY RCUAssumption DEF Node, Value
<1>8. Types
  <2>1. MemType(Loc, Value)
    BY <1>1, <1>6 DEF MemType, Events, Newest
  <2> QED
    BY <1>2, <1>7, <2>1 DEF Types, ReadLabel
<1>9. Chain
  BY <1>6, Locations DEF Chain, Linear, Newest
<1>10. Writing = {}
  BY <1>2 DEF Writing, Idle
<1>11. Ownership
  BY <1>1, <1>2, <1>6, <1>7, <1>10, Locations DEF Ownership, Node
<1>12. Publication
  <2> SUFFICES ASSUME NEW k \in 1..Newest(DataPtr)
               PROVE  PublishedAt(k)
    BY DEF Publication
  <2>1. k = 1 /\ Val(DataPtr, 1) = 0
    BY <1>5, <1>6, Locations
  <2>2. Newest(Data1(0)) = 1 /\ Newest(Data2(0)) = 1 /\ Cell(Data1(0)) = 0 /\ Cell(Data2(0)) = 0
    BY <1>5, <1>6, <1>7, Locations DEF Cell
  <2> QED
    BY <1>2, <2>1, <2>2 DEF PublishedAt, Carries
<1>13. \A t \in Thread : PointsWell(t) /\ ComputesWell(t)
  BY <1>2 DEF PointsWell, ComputesWell, PtrLabel, WriteLabel
<1> QED
  BY <1>8, <1>9, <1>11, <1>12, <1>13 DEF IInv

-----------------------------------------------------------------------------
(* The newest version of the pair.                                         *)
Pair == Content(Cell(DataPtr))

(* A thread that is writing is at a label of write().                      *)
LEMMA Writers ==
  /\ Types => Writing = {t \in Thread : pc[t] \in WriteLabel}
  /\ pc' \in [Thread -> ReadLabel \cup WriteLabel] =>
       Writing' = {t \in Thread : pc'[t] \in WriteLabel}
BY DEF Types, Writing, Idle, ReadLabel, WriteLabel

(* A step that writes no location and starts no write: every thread but t  *)
(* is as before, and of t it has to be shown that its locals are right.    *)
LEMMA Quiet ==
  ASSUME IInv, NEW t \in Thread, NEW to \in ReadLabel \cup WriteLabel,
         pc' = [pc EXCEPT ![t] = to], to \in WriteLabel => pc[t] \in WriteLabel,
         NEW p \in Node, NEW d1 \in Value, NEW d2 \in Value,
         ptr' = [ptr EXCEPT ![t] = p],
         data1' = [data1 EXCEPT ![t] = d1], data2' = [data2 EXCEPT ![t] = d2],
         tmp' = tmp, args' = args, hist' = hist, MemType(Loc, Value)',
         \A u \in Thread : cur[u] \subseteq cur'[u],
         PointsWell(t)', ComputesWell(t)'
  PROVE  IInv' /\ Pair' = Pair
<1>1. \A x : Newest(x)' = Newest(x) /\ Cell(x)' = Cell(x)
  BY DEF Newest, Cell, Val
<1>2. Published' = Published /\ Pair' = Pair
  BY DEF Published, Newest, Val, Pair, Content, Cell
<1>3. Types'
  BY DEF IInv, Types
<1>4. Chain'
  BY DEF IInv, Chain, Linear, Newest
<1>5. \A u \in Thread : \A x : Knows(u, x) => Knows(u, x)'
  BY <1>1 DEF Knows
<1>6. Writing' \subseteq Writing
  BY <1>3, Writers DEF IInv, Types
<1>7. Ownership'
  <2>1. \A u \in Writing' : OwnedBy(u)'
    BY <1>2, <1>5, <1>6 DEF IInv, Ownership, OwnedBy, Writing
  <2> QED
    BY <1>1, <2>1 DEF IInv, Ownership
<1>8. Publication'
  BY <1>1 DEF IInv, Publication, PublishedAt, Carries, Val
<1>9. ASSUME NEW u \in Thread \ {t}
      PROVE  PointsWell(u)' /\ ComputesWell(u)'
  <2>1. /\ pc'[u] = pc[u] /\ ptr'[u] = ptr[u] /\ data1'[u] = data1[u]
        /\ data2'[u] = data2[u] /\ tmp'[u] = tmp[u]
    BY DEF IInv, Types
  <2>2. PointsWell(u)'
    BY <1>2, <1>5, <2>1 DEF IInv, PointsWell
  <2>3. ComputesWell(u)'
    BY <1>1, <2>1 DEF IInv, ComputesWell
  <2> QED
    BY <2>2, <2>3
<1> QED
  BY <1>2, <1>3, <1>4, <1>7, <1>8, <1>9 DEF IInv

(* Knowing, and content, after the step of a location named before it.     *)
KnowsNext(t, x) == \A j \in 1..Len(hist'[x]) : <<x, j>> \in cur'[t]
CellNext(x) == hist'[x][Len(hist'[x])].val

(* What every load leaves alone, and that views only grow.                 *)
LEMMA Loading ==
  ASSUME IInv, NEW t \in Thread, NEW x \in Loc, NEW i, NEW ord, Load(t, x, i, ord)
  PROVE  /\ i \in 1..Newest(x) /\ hist' = hist /\ MemType(Loc, Value)'
         /\ cur'[t] = Observe(t, x, i, ord)
         /\ \A u \in Thread : cur[u] \subseteq cur'[u]
<1>1. MemType(Loc, Value)
  BY DEF IInv, Types
<1>2. MemType(Loc, Value)' /\ i \in 1..Newest(x)
  BY <1>1, LoadType
<1>3. hist' = hist /\ cur' = [cur EXCEPT ![t] = Observe(t, x, i, ord)]
  BY DEF Load
<1> QED
  BY <1>1, <1>2, <1>3 DEF MemType, Observe

(* An acquiring load of dataPtr brings the contents of the version along.  *)
LEMMA LoadingPtr ==
  ASSUME IInv, NEW t \in Thread, NEW i, Load(t, DataPtr, i, acquire)
  PROVE  LET p == Val(DataPtr, i)
         IN  /\ p \in Published /\ p \in Node
             /\ KnowsNext(t, Data1(p)) /\ KnowsNext(t, Data2(p))
<1> DEFINE p == Val(DataPtr, i)
<1>1. i \in 1..Newest(DataPtr) /\ hist' = hist /\ cur'[t] = Observe(t, DataPtr, i, acquire)
  BY Loading, Locations
<1>2. p \in Published
  BY <1>1 DEF Published
<1>3. p \in Node
  BY <1>2, PublishedNodes
<1> HIDE DEF p
<1>4. Carries(i, Data1(p)) /\ Carries(i, Data2(p))
  BY <1>1 DEF IInv, Publication, PublishedAt, p
<1>5. hist[DataPtr][i].view \subseteq cur'[t] /\ cur[t] \subseteq cur'[t]
  BY <1>1 DEF Observe, Acquiring
<1>6. ASSUME NEW x \in Loc, Carries(i, x)
      PROVE  KnowsNext(t, x)
  <2>1. \A j \in 1..Newest(x) : j = 1 \/ j \in 2..Newest(x)
    BY Lengths DEF IInv
  <2>2. <<x, 1>> \in cur[t]
    BY DEF IInv, Ownership
  <2>3. \A j \in 1..Newest(x) : <<x, j>> \in cur'[t]
    BY <1>5, <1>6, <2>1, <2>2 DEF Carries
  <2> QED
    BY <1>1, <2>3 DEF KnowsNext, Newest
<1> QED
  BY <1>2, <1>3, <1>4, <1>6, Locations DEF p

(* A load of the counters of *ptr finds what they contain.                 *)
LEMMA LoadingData ==
  ASSUME IInv, NEW t \in Thread, pc[t] \in PtrLabel,
         NEW x \in {Data1(ptr[t]), Data2(ptr[t])}, NEW i, Load(t, x, i, relaxed)
  PROVE  /\ x \in Loc /\ Val(x, i) = Cell(x) /\ Val(x, i) \in Value
         /\ hist' = hist /\ MemType(Loc, Value)' /\ \A u \in Thread : cur[u] \subseteq cur'[u]
         /\ KnowsNext(t, Data1(ptr[t])) /\ KnowsNext(t, Data2(ptr[t]))
<1>1. /\ ptr[t] \in Published /\ ptr[t] \in Node
      /\ Knows(t, Data1(ptr[t])) /\ Knows(t, Data2(ptr[t])) 
      /\ Cell(Data1(ptr[t])) \in Nat /\ Cell(Data2(ptr[t])) \in Nat
  BY PublishedNodes DEF IInv, PointsWell
<1>2. x \in Loc /\ Knows(t, x) /\ Cell(x) \in Value
  BY <1>1, Locations DEF Value
<1>3. i = Newest(x)
  BY <1>2, Known DEF Load
<1>4. hist' = hist /\ MemType(Loc, Value)' /\ \A u \in Thread : cur[u] \subseteq cur'[u]
  BY <1>2, Loading
<1>5. \A y : Knows(t, y) => KnowsNext(t, y)
  BY <1>4 DEF Knows, KnowsNext, Newest
<1> QED
  BY <1>1, <1>2, <1>3, <1>4, <1>5 DEF Cell

(* The loads of dataPtr, at the start of read() and in the loop of write().*)
LEMMA PtrSteps ==
  ASSUME IInv, NEW t \in Thread, Read_LoadPtr(t) \/ Write_LoadPtr(t)
  PROVE  IInv' /\ Pair' = Pair
<1>1. PICK i \in Readable(t, DataPtr, acquire) :
        Load(t, DataPtr, i, acquire) /\ ptr' = [ptr EXCEPT ![t] = Val(DataPtr, i)]
  BY DEF Read_LoadPtr, Write_LoadPtr, LoadPtr, OrderRead, OrderWriteLoad
<1> DEFINE p == Val(DataPtr, i)
<1>2. /\ p \in Published /\ p \in Node /\ KnowsNext(t, Data1(p)) /\ KnowsNext(t, Data2(p))
      /\ hist' = hist /\ MemType(Loc, Value)' /\ \A u \in Thread : cur[u] \subseteq cur'[u]
  BY <1>1, Loading, LoadingPtr, Locations
<1>3. UNCHANGED <<tmp, data1, data2, args>>
  BY DEF Read_LoadPtr, Write_LoadPtr
<1>4. ptr'[t] = p /\ Published' = Published
  BY <1>1, <1>2 DEF IInv, Types, Published, Newest, Val
<1> HIDE DEF p
<1>5. PICK to \in {"readData1", "incLoad1"} :
        pc' = [pc EXCEPT ![t] = to] /\ (to = "incLoad1" => pc[t] = "load")
  BY DEF Read_LoadPtr, Write_LoadPtr, Goto
<1>6. PointsWell(t)'
  BY <1>2, <1>4 DEF PointsWell, Knows, KnowsNext, Newest
<1>7. ComputesWell(t)'
  BY <1>5 DEF ComputesWell, IInv, Types
<1>8. data1' = [data1 EXCEPT ![t] = data1[t]] /\ data2' = [data2 EXCEPT ![t] = data2[t]]
      /\ data1[t] \in Value /\ data2[t] \in Value
  BY <1>3 DEF IInv, Types
<1>9. to \in ReadLabel \cup WriteLabel /\ (to \in WriteLabel => pc[t] \in WriteLabel)
  BY <1>5 DEF ReadLabel, WriteLabel
<1> QED
  BY <1>1, <1>2, <1>3, <1>5, <1>6, <1>7, <1>8, <1>9, Quiet DEF p

(* The loads of data1 and data2, in read() and in inc().                   *)
LEMMA DataSteps ==
  ASSUME IInv, NEW t \in Thread,
         \/ Read_LoadData1(t) \/ Read_LoadData2(t) \/ Inc_LoadData1(t) \/ Inc_LoadData2(t)
  PROVE  IInv' /\ Pair' = Pair
<1>1. pc[t] \in PtrLabel
  BY DEF Read_LoadData1, Read_LoadData2, Inc_LoadData1, Inc_LoadData2, Goto, PtrLabel, WriteLabel
<1>2. ptr[t] \in Published /\ ptr[t] \in Node
  BY <1>1, PublishedNodes DEF IInv, PointsWell
<1>3. ASSUME hist' = hist, MemType(Loc, Value)', \A u \in Thread : cur[u] \subseteq cur'[u],
             KnowsNext(t, Data1(ptr[t])), KnowsNext(t, Data2(ptr[t])),
             ptr' = ptr, tmp' = tmp, args' = args,
             NEW d1 \in Value, NEW d2 \in Value,
             data1' = [data1 EXCEPT ![t] = d1], data2' = [data2 EXCEPT ![t] = d2],
             NEW to \in ReadLabel \cup WriteLabel, pc' = [pc EXCEPT ![t] = to],
             to \in WriteLabel => pc[t] \in WriteLabel, ComputesWell(t)'
      PROVE  IInv' /\ Pair' = Pair
  <2>1. PointsWell(t)'
    BY <1>2, <1>3 DEF PointsWell, Published, Newest, Val, Knows, KnowsNext
  <2>2. ptr' = [ptr EXCEPT ![t] = ptr[t]]
    BY <1>3 DEF IInv, Types
  <2> QED
    BY <1>2, <1>3, <2>1, <2>2, Quiet
<1>4. CASE Read_LoadData1(t) \/ Inc_LoadData1(t)
  <2>1. PICK i \in Readable(t, Data1(ptr[t]), relaxed) :
          /\ Load(t, Data1(ptr[t]), i, relaxed)
          /\ data1' = [data1 EXCEPT ![t] = Val(Data1(ptr[t]), i)]
    BY <1>4 DEF Read_LoadData1, Inc_LoadData1, LoadData1
  <2>2. UNCHANGED <<ptr, tmp, data2, args>>
    BY <1>4 DEF Read_LoadData1, Inc_LoadData1, LoadData1
  <2>3. /\ Val(Data1(ptr[t]), i) = Cell(Data1(ptr[t])) /\ Val(Data1(ptr[t]), i) \in Value
        /\ hist' = hist /\ MemType(Loc, Value)' /\ \A u \in Thread : cur[u] \subseteq cur'[u]
        /\ KnowsNext(t, Data1(ptr[t])) /\ KnowsNext(t, Data2(ptr[t]))
    BY <1>1, <2>1, LoadingData
  <2>4. PICK to \in {"readData2", "incStore1"} :
          pc' = [pc EXCEPT ![t] = to] /\ (to = "incStore1" => pc[t] = "incLoad1")
    BY <1>4 DEF Read_LoadData1, Inc_LoadData1, Goto
  <2>5. data2' = [data2 EXCEPT ![t] = data2[t]] /\ data2[t] \in Value
    BY <2>2 DEF IInv, Types
  <2>6. pc'[t] = to /\ data1'[t] = Cell(Data1(ptr[t])) /\ \A x : Cell(x)' = Cell(x)
    BY <2>1, <2>3, <2>4 DEF IInv, Types, Cell, Val, Newest
  <2>7. ComputesWell(t)'
    BY <2>2, <2>6 DEF ComputesWell
  <2>8. to \in ReadLabel \cup WriteLabel /\ (to \in WriteLabel => pc[t] \in WriteLabel)
    BY <2>4 DEF ReadLabel, WriteLabel
  <2> QED
    BY <1>3, <2>1, <2>2, <2>3, <2>4, <2>5, <2>7, <2>8
<1>5. CASE Read_LoadData2(t) \/ Inc_LoadData2(t)
  <2>1. PICK i \in Readable(t, Data2(ptr[t]), relaxed) :
          /\ Load(t, Data2(ptr[t]), i, relaxed)
          /\ data2' = [data2 EXCEPT ![t] = Val(Data2(ptr[t]), i)]
    BY <1>5 DEF Read_LoadData2, Inc_LoadData2, LoadData2
  <2>2. UNCHANGED <<ptr, tmp, data1, args>>
    BY <1>5 DEF Read_LoadData2, Inc_LoadData2, LoadData2
  <2>3. /\ Val(Data2(ptr[t]), i) = Cell(Data2(ptr[t])) /\ Val(Data2(ptr[t]), i) \in Value
        /\ hist' = hist /\ MemType(Loc, Value)' /\ \A u \in Thread : cur[u] \subseteq cur'[u]
        /\ KnowsNext(t, Data1(ptr[t])) /\ KnowsNext(t, Data2(ptr[t]))
    BY <1>1, <2>1, LoadingData
  <2>4. PICK to \in {"returned", "incStore2"} :
          /\ pc' = [pc EXCEPT ![t] = to]
          /\ pc[t] = (IF to = "returned" THEN "readData2" ELSE "incLoad2")
    BY <1>5 DEF Read_LoadData2, Inc_LoadData2, Goto
  <2>5. data1' = [data1 EXCEPT ![t] = data1[t]] /\ data1[t] \in Value
    BY <2>2 DEF IInv, Types
  <2>6. pc'[t] = to /\ data2'[t] = Cell(Data2(ptr[t])) /\ \A x : Cell(x)' = Cell(x)
    BY <2>1, <2>3, <2>4 DEF IInv, Types, Cell, Val, Newest
  <2>7. /\ to = "returned" => data1[t] = Cell(Data1(ptr[t]))
        /\ to = "incStore2" => Cell(Data1(tmp[t])) = Cell(Data1(ptr[t])) + args[tmp[t]][1]
    BY <2>4 DEF IInv, ComputesWell
  <2>8. ComputesWell(t)'
    BY <2>2, <2>6, <2>7 DEF ComputesWell
  <2>9. to \in ReadLabel \cup WriteLabel /\ (to \in WriteLabel => pc[t] \in WriteLabel)
    BY <2>4 DEF ReadLabel, WriteLabel
  <2> QED
    BY <1>3, <2>1, <2>2, <2>3, <2>4, <2>5, <2>8, <2>9
<1> QED
  BY <1>4, <1>5

(* The CAS of write() that fails.                                          *)
LEMMA LoseStep ==
  ASSUME IInv, NEW t \in Thread, Write_LoseCAS(t)
  PROVE  IInv' /\ Pair' = Pair
<1>1. PICK i : Load(t, DataPtr, i, relaxed)
  BY DEF Write_LoseCAS
<1>2. hist' = hist /\ MemType(Loc, Value)' /\ \A u \in Thread : cur[u] \subseteq cur'[u]
  BY <1>1, Loading, Locations
<1>3. pc[t] = "cas" /\ pc' = [pc EXCEPT ![t] = "load"] /\ UNCHANGED locals
  BY DEF Write_LoseCAS, Goto
<1>4. /\ ptr' = [ptr EXCEPT ![t] = ptr[t]] /\ ptr[t] \in Node
      /\ data1' = [data1 EXCEPT ![t] = data1[t]] /\ data1[t] \in Value
      /\ data2' = [data2 EXCEPT ![t] = data2[t]] /\ data2[t] \in Value
      /\ pc'[t] = "load" /\ tmp' = tmp /\ args' = args
  BY <1>3 DEF IInv, Types, locals
<1>5. PointsWell(t)' /\ ComputesWell(t)'
  BY <1>4 DEF PointsWell, ComputesWell, PtrLabel, WriteLabel
<1>6. "load" \in WriteLabel /\ "cas" \in WriteLabel
  BY DEF WriteLabel
<1> QED
  BY <1>2, <1>3, <1>4, <1>5, <1>6, Quiet

(* What a writer stores in its own Data.                                   *)
LEMMA Storing ==
  ASSUME IInv, NEW t \in Writing, NEW x \in {Data1(tmp[t]), Data2(tmp[t])}, NEW v \in Nat,
         Store(t, x, v, relaxed)
  PROVE  /\ x \in Loc /\ \A n \in Published : x # Data1(n) /\ x # Data2(n)
         /\ MemType(Loc, Value)' /\ Chain'
         /\ CellNext(x) = v /\ KnowsNext(t, x)
         /\ \A y \in Loc \ {x} : hist'[y] = hist[y]
         /\ \A u \in Thread : cur[u] \subseteq cur'[u]
<1> DEFINE N == Newest(x)
<1>1. /\ t \in Thread /\ tmp[t] \in Node /\ tmp[t] \notin Published
      /\ Knows(t, Data1(tmp[t])) /\ Knows(t, Data2(tmp[t]))
  BY DEF IInv, Types, Ownership, OwnedBy, Writing
<1>2. x \in Loc /\ Knows(t, x) /\ x # DataPtr
  BY <1>1, Locations
<1>3. \A n \in Published : x # Data1(n) /\ x # Data2(n)
  BY <1>1, Locations
<1>4. MemType(Loc, Value) /\ N \in Nat /\ N >= 1 /\ v \in Value
  BY <1>2, Lengths DEF IInv, Types, Value
<1>5. Event(x, N) \in cur[t]
  BY <1>1, <1>2, Known
<1>6. /\ Appended(Loc, x)
      /\ hist'[x][N + 1].id = N + 1
      /\ hist'[x][N + 1].val = v
      /\ cur'[t] = cur[t] \cup Upto(x, N) \cup {NextEvent(x)}
      /\ \A u \in Thread \ {t} : cur'[u] = cur[u]
  BY <1>1, <1>2, <1>4, <1>5, StoreAtEnd
<1>7. MemType(Loc, Value)'
  BY <1>1, <1>2, <1>4, StoreType
<1>8. Newest(x)' = N + 1 /\ \A y \in Loc \ {x} : hist'[y] = hist[y]
  BY <1>6 DEF Appended, Newest
<1>9. Chain'
  <2>1. \A y \in Loc : Linear(y)'
    BY <1>2, <1>4, <1>6, AppendedLinear DEF IInv, Chain
  <2>2. hist'[DataPtr] = hist[DataPtr]
    BY <1>2, <1>8, Locations
  <2> QED
    BY <2>1, <2>2 DEF IInv, Chain, Newest
<1>10. CellNext(x) = v
  BY <1>6, <1>8 DEF CellNext, Newest
<1>11. KnowsNext(t, x)
  <2>1. \A j \in 1..(N + 1) : j \in 1..N \/ j = N + 1
    BY <1>4
  <2>2. \A j \in 1..(N + 1) : <<x, j>> \in cur'[t]
    BY <1>2, <1>6, <2>1 DEF Knows, NextEvent
  <2> QED
    BY <1>8, <2>2 DEF KnowsNext, Newest
<1> QED
  BY <1>1, <1>2, <1>3, <1>6, <1>7, <1>8, <1>9, <1>10, <1>11

(* The stores of inc().                                                    *)
LEMMA StoreSteps ==
  ASSUME IInv, NEW t \in Thread, Inc_StoreData1(t) \/ Inc_StoreData2(t)
  PROVE  IInv' /\ Pair' = Pair
<1> DEFINE a == args[tmp[t]]
<1>1. /\ t \in Writing /\ pc[t] \in {"incStore1", "incStore2"} /\ pc[t] \in PtrLabel
      /\ UNCHANGED locals
  BY DEF Inc_StoreData1, Inc_StoreData2, Goto, Writing, Idle, PtrLabel, WriteLabel
<1>2. /\ tmp[t] \in 1..Len(args) /\ tmp[t] \in Node /\ tmp[t] \notin Published
      /\ Knows(t, Data1(tmp[t])) /\ Knows(t, Data2(tmp[t]))
      /\ \A u \in Writing \ {t} : tmp[t] # tmp[u]
  BY <1>1 DEF IInv, Types, Ownership, OwnedBy
<1>3. a[1] \in Nat /\ a[2] \in Nat
  <2>1. a \in Argument
    BY <1>2, ElementOfSeq DEF IInv, Types
  <2> QED
    BY <2>1, RCUAssumption
<1>4. /\ ptr[t] \in Published /\ ptr[t] \in Node
      /\ Knows(t, Data1(ptr[t])) /\ Knows(t, Data2(ptr[t]))
      /\ Cell(Data1(ptr[t])) \in Nat /\ Cell(Data2(ptr[t])) \in Nat
  BY <1>1, PublishedNodes DEF IInv, PointsWell
<1> HIDE DEF a
<1>5. ASSUME NEW x \in {Data1(tmp[t]), Data2(tmp[t])}, NEW v \in Nat, Store(t, x, v, relaxed),
             NEW to \in {"incLoad2", "cas"}, pc' = [pc EXCEPT ![t] = to], ComputesWell(t)'
      PROVE  IInv' /\ Pair' = Pair
  <2>1. /\ x \in Loc /\ \A n \in Published : x # Data1(n) /\ x # Data2(n)
        /\ MemType(Loc, Value)' /\ Chain'
        /\ KnowsNext(t, x)
        /\ \A y \in Loc \ {x} : hist'[y] = hist[y]
        /\ \A u \in Thread : cur[u] \subseteq cur'[u]
    BY <1>1, <1>5, Storing
  <2>2. hist'[DataPtr] = hist[DataPtr] /\ x # DataPtr
    BY <1>2, <2>1, Locations
  <2>3. Published' = Published
    BY <2>2 DEF Published, Newest, Val
  <2>4. \A y \in Loc \ {x} : Newest(y)' = Newest(y) /\ Cell(y)' = Cell(y) /\ CellNext(y) = Cell(y)
    BY <2>1 DEF Newest, Cell, Val, CellNext
  <2>5. \A u \in Thread, y \in Loc \ {x} : Knows(u, y) => KnowsNext(u, y)
    BY <2>1 DEF Knows, KnowsNext, Newest
  <2>6. \A n \in Published : Data1(n) \in Loc \ {x} /\ Data2(n) \in Loc \ {x}
    BY <2>1, PublishedNodes, Locations
  <2>7. Types'
    <3>1. pc' \in [Thread -> ReadLabel \cup WriteLabel]
      BY <1>5 DEF IInv, Types, WriteLabel
    <3> QED
      BY <1>1, <2>1, <3>1 DEF IInv, Types, locals
  <2>8. Writing' = Writing
    BY <1>1, <1>5, <2>7, Writers DEF IInv, Types, WriteLabel
  <2>9. \A u \in Writing \ {t} :
          tmp[u] \in Node /\ Data1(tmp[u]) \in Loc \ {x} /\ Data2(tmp[u]) \in Loc \ {x}
    BY <1>2, Locations DEF IInv, Types, Writing
  <2>10. Ownership'
    <3>1. \A u \in Thread, y \in Loc : <<y, 1>> \in cur'[u]
      BY <2>1 DEF IInv, Ownership
    <3>2. ASSUME NEW n \in (Len(args) + 1)..MaxWrites
          PROVE  Newest(Data1(n))' = 1 /\ Newest(Data2(n))' = 1
      <4>1. Newest(Data1(n)) = 1 /\ Newest(Data2(n)) = 1
        BY DEF IInv, Ownership
      <4>2. n \in Node /\ n # tmp[t]
        BY <1>2, RCUAssumption, LenProperties DEF IInv, Types, Node
      <4>3. Data1(n) \in Loc \ {x} /\ Data2(n) \in Loc \ {x}
        BY <4>2, Locations
      <4> QED
        BY <2>4, <4>1, <4>3
    <3>3. ASSUME NEW u \in Writing
          PROVE  OwnedBy(u)'
      <4>1. KnowsNext(u, Data1(tmp[u])) /\ KnowsNext(u, Data2(tmp[u]))
        <5>1. CASE u = t
          <6>1. \A y \in {Data1(tmp[t]), Data2(tmp[t])} : y \in Loc /\ Knows(t, y)
            BY <1>2, Locations
          <6>2. \A y \in {Data1(tmp[t]), Data2(tmp[t])} : KnowsNext(t, y)
            BY <2>1, <2>5, <6>1
          <6> QED
            BY <5>1, <6>2
        <5>2. CASE u # t
          <6>1. u \in Thread /\ Knows(u, Data1(tmp[u])) /\ Knows(u, Data2(tmp[u]))
            BY DEF IInv, Ownership, OwnedBy, Writing
          <6> QED
            BY <2>5, <2>9, <5>2, <6>1
        <5> QED
          BY <5>1, <5>2
      <4>2. tmp'[u] = tmp[u] /\ args' = args /\ tmp' = tmp
        BY <1>1 DEF locals
      <4> QED
        BY <2>3, <2>8, <4>1, <4>2 DEF IInv, Ownership, OwnedBy, Knows, KnowsNext, Newest
    <3> QED
      BY <1>1, <2>8, <3>1, <3>2, <3>3 DEF Ownership, locals
  <2>11. Publication'
    <3> SUFFICES ASSUME NEW k \in 1..Newest(DataPtr)
                 PROVE  PublishedAt(k)'
      BY <2>2 DEF Publication, Newest
    <3>1. PublishedAt(k) /\ Val(DataPtr, k) \in Published
      BY DEF IInv, Publication, Published
    <3>2. Val(DataPtr, k)' = Val(DataPtr, k) /\ hist'[DataPtr][k] = hist[DataPtr][k]
      BY <2>2 DEF Val
    <3> QED
      BY <1>1, <2>4, <2>6, <3>1, <3>2 DEF PublishedAt, Carries, locals
  <2>12. ASSUME NEW u \in Thread
         PROVE  PointsWell(u)'
    <3>2. pc[u] \in PtrLabel =>
            ptr[u] \in Published /\ KnowsNext(u, Data1(ptr[u])) /\ KnowsNext(u, Data2(ptr[u]))
      BY <2>5, <2>6 DEF IInv, PointsWell
    <3>3. ptr' = ptr
      BY <1>1 DEF locals
    <3>4. pc'[u] \in PtrLabel => pc[u] \in PtrLabel
      BY <1>1, <1>5 DEF IInv, Types
    <3> QED
      BY <2>3, <3>2, <3>3, <3>4 DEF PointsWell, Knows, KnowsNext, Newest
  <2>13. ASSUME NEW u \in Thread \ {t}
         PROVE  ComputesWell(u)'
    <3>1. pc'[u] = pc[u] /\ UNCHANGED <<ptr, tmp, data1, data2, args>>
      BY <1>1, <1>5 DEF IInv, Types, locals
    <3>2. pc[u] \in PtrLabel =>
            /\ CellNext(Data1(ptr[u])) = Cell(Data1(ptr[u]))
            /\ CellNext(Data2(ptr[u])) = Cell(Data2(ptr[u]))
      BY <2>4, <2>6, <3>1 DEF IInv, PointsWell
    <3>3. u \in Writing =>
            /\ CellNext(Data1(tmp[u])) = Cell(Data1(tmp[u]))
            /\ CellNext(Data2(tmp[u])) = Cell(Data2(tmp[u]))
      BY <2>4, <2>9, <3>1
    <3>4. pc[u] \in {"incLoad2", "incStore2", "cas"} => u \in Writing
      BY DEF Writing, Idle
    <3>5. ComputesWell(u)
      BY DEF IInv
    <3> QED
      BY <3>1, <3>2, <3>3, <3>4, <3>5 DEF ComputesWell, PtrLabel, WriteLabel, Cell, CellNext, Val, Newest
  <2>14. Pair' = Pair
    <3>1. Newest(DataPtr) \in Nat /\ Newest(DataPtr) >= 1
      BY Lengths, Locations DEF IInv
    <3>2. Cell(DataPtr) \in Published
      BY <3>1 DEF Cell, Published
    <3>3. Cell(DataPtr)' = Cell(DataPtr)
      BY <2>2 DEF Cell, Val, Newest
    <3>4. \A n \in Published : Cell(Data1(n))' = Cell(Data1(n)) /\ Cell(Data2(n))' = Cell(Data2(n))
      BY <2>4, <2>6
    <3> QED
      BY <3>2, <3>3, <3>4 DEF Pair, Content, Cell
  <2> QED
    BY <1>5, <2>1, <2>7, <2>10, <2>11, <2>12, <2>13, <2>14 DEF IInv
<1>6. ASSUME NEW x \in {Data1(tmp[t]), Data2(tmp[t])}, NEW v \in Nat, Store(t, x, v, relaxed)
      PROVE  /\ CellNext(x) = v
             /\ CellNext(Data1(ptr[t])) = Cell(Data1(ptr[t]))
             /\ CellNext(Data2(ptr[t])) = Cell(Data2(ptr[t]))
             /\ x # Data1(tmp[t]) => CellNext(Data1(tmp[t])) = Cell(Data1(tmp[t]))
  <2>1. CellNext(x) = v /\ \A y \in Loc \ {x} : hist'[y] = hist[y]
    BY <1>1, <1>6, Storing
  <2>2. \A y \in Loc \ {x} : CellNext(y) = Cell(y)
    BY <2>1 DEF CellNext, Cell, Val, Newest
  <2>3. x # Data1(ptr[t]) /\ x # Data2(ptr[t])
    BY <1>1, <1>4, <1>6, Storing
  <2> QED
    BY <1>2, <1>4, <2>1, <2>2, <2>3, Locations
<1>7. CASE Inc_StoreData1(t)
  <2> DEFINE v == Cell(Data1(ptr[t])) + a[1]
  <2>1. /\ pc[t] = "incStore1" /\ pc' = [pc EXCEPT ![t] = "incLoad2"]
        /\ Store(t, Data1(tmp[t]), Plus(data1[t], a[1]), relaxed)
    BY <1>7 DEF Inc_StoreData1, Goto, a
  <2>2. Plus(data1[t], a[1]) = v /\ v \in Nat
    BY <1>3, <1>4, <2>1, RCUAssumption DEF Plus, IInv, ComputesWell
  <2> HIDE DEF v
  <2>3. /\ CellNext(Data1(tmp[t])) = v
        /\ CellNext(Data1(ptr[t])) = Cell(Data1(ptr[t]))
    BY <1>6, <2>1, <2>2
  <2>4. ComputesWell(t)'
    <3>1. pc'[t] = "incLoad2" /\ UNCHANGED <<ptr, tmp, args>>
      BY <1>1, <2>1 DEF IInv, Types, locals
    <3> QED
      BY <2>3, <3>1 DEF ComputesWell, Cell, CellNext, Val, Newest, v, a
  <2> QED
    BY <1>5, <2>1, <2>2, <2>4
<1>8. CASE Inc_StoreData2(t)
  <2> DEFINE v == Cell(Data2(ptr[t])) + a[2]
  <2>1. /\ pc[t] = "incStore2" /\ pc' = [pc EXCEPT ![t] = "cas"]
        /\ Store(t, Data2(tmp[t]), Plus(data2[t], a[2]), relaxed)
    BY <1>8 DEF Inc_StoreData2, Goto, a
  <2>2. Plus(data2[t], a[2]) = v /\ v \in Nat
    BY <1>3, <1>4, <2>1, RCUAssumption DEF Plus, IInv, ComputesWell
  <2> HIDE DEF v
  <2>3. /\ CellNext(Data2(tmp[t])) = v
        /\ CellNext(Data1(ptr[t])) = Cell(Data1(ptr[t]))
        /\ CellNext(Data2(ptr[t])) = Cell(Data2(ptr[t]))
        /\ CellNext(Data1(tmp[t])) = Cell(Data1(tmp[t]))
    BY <1>6, <2>1, <2>2, Locations
  <2>4. Cell(Data1(tmp[t])) = Cell(Data1(ptr[t])) + a[1]
    BY <2>1 DEF IInv, ComputesWell, a
  <2>5. ComputesWell(t)'
    <3>1. pc'[t] = "cas" /\ UNCHANGED <<ptr, tmp, args>>
      BY <1>1, <2>1 DEF IInv, Types, locals
    <3> QED
      BY <2>3, <2>4, <3>1 DEF ComputesWell, Cell, CellNext, Val, Newest, v, a
  <2> QED
    BY <1>5, <2>1, <2>2, <2>5
<1> QED
  BY <1>7, <1>8

(* A write() starts: it gets a Data that nobody has and no location of     *)
(* which has been written.                                                 *)
LEMMA NewStep ==
  ASSUME IInv, NEW t \in Thread, Write_New(t)
  PROVE  IInv' /\ Pair' = Pair
<1> DEFINE n == Len(args) + 1
<1>1. PICK a \in Argument : args' = Append(args, a)
  BY DEF Write_New
<1>2. /\ Idle(t) /\ pc' = [pc EXCEPT ![t] = "load"] /\ tmp' = [tmp EXCEPT ![t] = n]
      /\ Len(args) < MaxWrites
      /\ UNCHANGED <<hist, cur, acq, rel, sc, ptr, data1, data2>>
  BY DEF Write_New
<1>3. Len(args) \in Nat /\ MaxWrites \in Nat /\ args \in Seq(Argument)
  BY RCUAssumption, LenProperties DEF IInv, Types
<1>4. /\ args' \in Seq(Argument) /\ Len(args') = n
      /\ \A k \in 1..Len(args) : args'[k] = args[k]
  BY <1>1, <1>3, AppendProperties
<1>5. n \in Node /\ n \in 1..MaxWrites /\ n \notin Published
  BY <1>2, <1>3, PublishedNodes DEF Node
<1>6. \A x : Newest(x)' = Newest(x) /\ Cell(x)' = Cell(x)
  BY <1>2 DEF Newest, Cell, Val
<1>7. Published' = Published /\ Pair' = Pair
  BY <1>2 DEF Published, Newest, Val, Pair, Content, Cell
<1>8. Types'
  <2>1. MemType(Loc, Value)'
    BY <1>2 DEF IInv, Types, MemType
  <2>2. pc' \in [Thread -> ReadLabel \cup WriteLabel]
    BY <1>2 DEF IInv, Types, WriteLabel
  <2>3. Len(args') <= MaxWrites
    BY <1>2, <1>3, <1>4
  <2> QED
    BY <1>2, <1>4, <1>5, <2>1, <2>2, <2>3 DEF IInv, Types
<1>9. Chain'
  BY <1>2 DEF IInv, Chain, Linear, Newest
<1>10. Writing' = Writing \cup {t} /\ t \notin Writing
  BY <1>2, <1>8, Writers DEF IInv, Types, Idle, WriteLabel
<1>11. \A u \in Writing : /\ u \in Thread /\ tmp'[u] = tmp[u] /\ OwnedBy(u)
                          /\ tmp[u] \in 1..Len(args) /\ tmp[u] # n
  BY <1>2, <1>3, <1>10 DEF IInv, Types, Ownership, OwnedBy, Writing
<1>12. tmp'[t] = n
  BY <1>2 DEF IInv, Types
<1> HIDE DEF n
<1>13. Ownership'
  <2>1. Newest(Data1(n)) = 1 /\ Newest(Data2(n)) = 1
    BY <1>3, <1>5 DEF IInv, Ownership, n
  <2>2. Knows(t, Data1(n)) /\ Knows(t, Data2(n))
    BY <1>5, <2>1, Locations DEF IInv, Ownership, Knows
  <2>3. \A u \in Thread : \A x : Knows(u, x) <=> KnowsNext(u, x)
    BY <1>2 DEF Knows, KnowsNext, Newest
  <2>4. n \in 1..Len(args')
    BY <1>3, <1>4 DEF n
  <2>5. OwnedBy(t)'
    BY <1>4, <1>7, <1>5, <1>10, <1>11, <1>12, <2>2, <2>3, <2>4 DEF OwnedBy, Knows, KnowsNext, Newest
  <2>6. ASSUME NEW u \in Writing
        PROVE  OwnedBy(u)'
    <3>1. tmp'[u] \in 1..Len(args')
      BY <1>3, <1>4, <1>11 DEF n
    <3>2. \A w \in Writing' \ {u} : tmp'[u] # tmp'[w]
      BY <1>10, <1>11, <1>12 DEF OwnedBy
    <3>3. KnowsNext(u, Data1(tmp'[u])) /\ KnowsNext(u, Data2(tmp'[u])) /\ tmp'[u] \notin Published
      BY <1>11, <2>3 DEF OwnedBy
    <3> QED
      BY <1>7, <3>1, <3>2, <3>3 DEF OwnedBy, KnowsNext, Knows, Newest
  <2>7. \A m \in (Len(args') + 1)..MaxWrites : m \in (Len(args) + 1)..MaxWrites
    BY <1>3, <1>4 DEF n
  <2>8. \A m \in (Len(args') + 1)..MaxWrites : Newest(Data1(m))' = 1 /\ Newest(Data2(m))' = 1
    BY <1>6, <2>7 DEF IInv, Ownership
  <2>9. \A u \in Thread, x \in Loc : <<x, 1>> \in cur'[u]
    BY <1>2 DEF IInv, Ownership
  <2> QED
    BY <1>10, <2>5, <2>6, <2>8, <2>9 DEF Ownership
<1>14. Publication'
  <2> SUFFICES ASSUME NEW k \in 1..Newest(DataPtr)
               PROVE  PublishedAt(k)'
    BY <1>6 DEF Publication
  <2>1. PublishedAt(k)
    BY DEF IInv, Publication
  <2>2. \A m \in 0..Len(args) : m \in 0..Len(args')
    BY <1>3, <1>4 DEF n
  <2> QED
    BY <1>2, <1>6, <2>1, <2>2 DEF PublishedAt, Carries, Val
<1>15. ASSUME NEW u \in Thread
       PROVE  PointsWell(u)' /\ ComputesWell(u)'
  <2>1. CASE u = t
    BY <1>2, <2>1 DEF PointsWell, ComputesWell, PtrLabel, WriteLabel, IInv, Types
  <2>2. CASE u # t
    <3>1. pc'[u] = pc[u] /\ tmp'[u] = tmp[u] /\ UNCHANGED <<ptr, data1, data2, hist, cur>>
      BY <1>2, <2>2 DEF IInv, Types
    <3>2. pc[u] \in {"incLoad2", "incStore2", "cas"} => args'[tmp[u]] = args[tmp[u]]
      <4>1. pc[u] \in {"incLoad2", "incStore2", "cas"} => u \in Writing
        BY DEF Writing, Idle
      <4> QED
        BY <1>4, <1>11, <4>1
    <3>3. PointsWell(u)'
      BY <1>7, <3>1 DEF IInv, PointsWell, Knows, Newest
    <3>4. ComputesWell(u)'
      BY <1>6, <3>1, <3>2 DEF IInv, ComputesWell
    <3> QED
      BY <3>3, <3>4
  <2> QED
    BY <2>1, <2>2
<1> QED
  BY <1>7, <1>8, <1>9, <1>13, <1>14, <1>15 DEF IInv

(* What the CAS of write() that succeeds does to the memory: it follows    *)
(* the newest version, and publishes all the writer has seen.              *)
LEMMA Winning ==
  ASSUME IInv, NEW t \in Thread, Write_WinCAS(t)
  PROVE  LET N == Newest(DataPtr)
         IN  /\ Cell(DataPtr) = ptr[t]
             /\ Newest(DataPtr)' = N + 1
             /\ \A k \in 1..N : hist'[DataPtr][k] = hist[DataPtr][k]
             /\ hist'[DataPtr][N + 1].val = tmp[t]
             /\ cur[t] \subseteq hist'[DataPtr][N + 1].view
             /\ \A x \in Loc \ {DataPtr} : hist'[x] = hist[x]
             /\ MemType(Loc, Value)' /\ Chain'
             /\ \A u \in Thread : cur[u] \subseteq cur'[u]
<1> DEFINE N == Newest(DataPtr)
<1>1. MemType(Loc, Value) /\ N \in Nat /\ N >= 1 /\ DataPtr \in Loc
  BY Lengths, Locations DEF IInv, Types
<1>2. PICK i \in Extendable(t, DataPtr, release) :
        /\ Val(DataPtr, i) = ptr[t]
        /\ ReadModifyWrite(t, DataPtr, i, tmp[t], release)
  BY DEF Write_WinCAS, OrderWriteCAS
<1>3. i = N
  <2>1. i \in 1..N /\ (i < N => hist[DataPtr][i + 1].kind # "rmw")
    BY <1>2 DEF Extendable, Readable
  <2> QED
    BY <1>1, <2>1 DEF IInv, Chain
<1>4. tmp[t] \in Value
  BY RCUAssumption DEF IInv, Types, Node, Value
<1>5. /\ Appended(Loc, DataPtr)
      /\ hist'[DataPtr][N + 1].id = N + 1
      /\ hist'[DataPtr][N + 1].val = tmp[t]
      /\ hist'[DataPtr][N + 1].view = Continued(t, DataPtr, N, release)
      /\ hist'[DataPtr][N + 1].kind = "rmw"
  BY <1>1, <1>2, <1>3, <1>4, ReadModifyWriteAtEnd
<1>6. MemType(Loc, Value)'
  BY <1>1, <1>2, <1>4, ReadModifyWriteType
<1>7. /\ Newest(DataPtr)' = N + 1
      /\ \A k \in 1..N : hist'[DataPtr][k] = hist[DataPtr][k]
      /\ \A x \in Loc \ {DataPtr} : hist'[x] = hist[x]
  BY <1>5 DEF Appended, Newest
<1>8. Chain'
  <2>1. \A x \in Loc : Linear(x)'
    BY <1>1, <1>5, AppendedLinear DEF IInv, Chain
  <2>2. \A k \in 2..(N + 1) : hist'[DataPtr][k].kind = "rmw"
    BY <1>1, <1>5, <1>7 DEF IInv, Chain
  <2> QED
    BY <1>7, <2>1, <2>2 DEF Chain
<1>9. cur[t] \subseteq hist'[DataPtr][N + 1].view
  BY <1>5 DEF Continued, Observe, Releasing
<1>10. \A u \in Thread : cur[u] \subseteq cur'[u]
  BY <1>1, <1>2 DEF ReadModifyWrite, Observe, MemType
<1> QED
  BY <1>2, <1>3, <1>5, <1>6, <1>7, <1>8, <1>9, <1>10 DEF Cell

(* The writer's version becomes the newest.                                *)
LEMMA WinStep ==
  ASSUME IInv, NEW t \in Thread, Write_WinCAS(t)
  PROVE  /\ IInv'
         /\ \E a \in Argument : Pair' = <<Pair[1] + a[1], Pair[2] + a[2]>>
<1> DEFINE N == Newest(DataPtr)
           n == tmp[t]
           a == args[n]
<1>1. /\ Cell(DataPtr) = ptr[t]
      /\ Newest(DataPtr)' = N + 1
      /\ \A k \in 1..N : hist'[DataPtr][k] = hist[DataPtr][k]
      /\ hist'[DataPtr][N + 1].val = n
      /\ cur[t] \subseteq hist'[DataPtr][N + 1].view
      /\ \A x \in Loc \ {DataPtr} : hist'[x] = hist[x]
      /\ MemType(Loc, Value)' /\ Chain'
      /\ \A u \in Thread : cur[u] \subseteq cur'[u]
  BY Winning
<1>2. pc[t] = "cas" /\ pc' = [pc EXCEPT ![t] = "idle"] /\ UNCHANGED locals
  BY DEF Write_WinCAS, Goto
<1>3. N \in Nat /\ N >= 1
  BY Lengths, Locations DEF IInv
<1>4. t \in Writing /\ OwnedBy(t) /\ n \in Node /\ n \in 1..Len(args) /\ args \in Seq(Argument)
  BY <1>2 DEF IInv, Types, Ownership, OwnedBy, Writing, Idle
<1>5. a \in Argument /\ a[1] \in Nat /\ a[2] \in Nat
  <2>1. a \in Argument
    BY <1>4, ElementOfSeq
  <2> QED
    BY <2>1, RCUAssumption
<1>6. ptr[t] \in Published /\ Cell(Data1(ptr[t])) \in Nat /\ Cell(Data2(ptr[t])) \in Nat
  BY <1>2, PublishedNodes DEF IInv, PointsWell, PtrLabel, WriteLabel
<1>7. /\ Cell(Data1(n)) = Cell(Data1(ptr[t])) + a[1]
      /\ Cell(Data2(n)) = Cell(Data2(ptr[t])) + a[2]
  BY <1>2 DEF IInv, ComputesWell
<1> HIDE DEF N, n, a
<1>8. \A x \in Loc \ {DataPtr} : /\ Newest(x)' = Newest(x) /\ CellNext(x) = Cell(x)
                                 /\ \A u \in Thread : Knows(u, x) => KnowsNext(u, x)
  BY <1>1 DEF Newest, Cell, CellNext, Val, Knows, KnowsNext
<1>9. \A m \in Node : Data1(m) \in Loc \ {DataPtr} /\ Data2(m) \in Loc \ {DataPtr}
  BY Locations
<1>10. Published' = Published \cup {n}
  <2>1. \A k \in 1..(N + 1) : k \in 1..N \/ k = N + 1
    BY <1>3
  <2>2. 1..N \subseteq 1..(N + 1) /\ N + 1 \in 1..(N + 1)
    BY <1>3
  <2> QED
    BY <1>1, <2>1, <2>2 DEF Published, Val, N
<1>11. Types'
  <2>1. pc' \in [Thread -> ReadLabel \cup WriteLabel]
    BY <1>2 DEF IInv, Types, ReadLabel
  <2> QED
    BY <1>1, <1>2, <2>1 DEF IInv, Types, locals
<1>12. Writing' = Writing \ {t}
  BY <1>2, <1>11, Writers DEF IInv, Types, WriteLabel
<1>13. Ownership'
  <2>1. ASSUME NEW u \in Writing'
        PROVE  OwnedBy(u)'
    <3>1. u \in Writing /\ u # t /\ u \in Thread /\ tmp[u] \in Node /\ OwnedBy(u)
      BY <1>12, <2>1 DEF IInv, Types, Ownership, Writing
    <3>2. tmp[u] # n /\ tmp[u] \notin Published'
      BY <1>4, <1>10, <3>1 DEF OwnedBy, n
    <3>3. KnowsNext(u, Data1(tmp[u])) /\ KnowsNext(u, Data2(tmp[u]))
      BY <1>8, <1>9, <3>1 DEF OwnedBy
    <3>4. tmp' = tmp /\ args' = args
      BY <1>2 DEF locals
    <3> QED
      BY <1>12, <3>1, <3>2, <3>3, <3>4 DEF OwnedBy, Knows, KnowsNext, Newest
  <2>2. ASSUME NEW m \in (Len(args) + 1)..MaxWrites
        PROVE  Newest(Data1(m))' = 1 /\ Newest(Data2(m))' = 1
    <3>1. m \in Node
      BY RCUAssumption, LenProperties DEF IInv, Types, Node
    <3> QED
      BY <1>8, <1>9, <3>1 DEF IInv, Ownership
  <2>3. \A u \in Thread, x \in Loc : <<x, 1>> \in cur'[u]
    BY <1>1 DEF IInv, Ownership
  <2> QED
    BY <1>2, <2>1, <2>2, <2>3 DEF Ownership, locals
<1>14. Publication'
  <2> SUFFICES ASSUME NEW k \in 1..(N + 1)
               PROVE  PublishedAt(k)'
    BY <1>1 DEF Publication
  <2>1. CASE k \in 1..N
    <3>1. PublishedAt(k) /\ Val(DataPtr, k) \in Published /\ Val(DataPtr, k) \in Node
      BY <2>1, PublishedNodes DEF IInv, Publication, Published, N
    <3>2. hist'[DataPtr][k] = hist[DataPtr][k] /\ args' = args
      BY <1>1, <1>2, <2>1 DEF locals
    <3>3. /\ hist'[Data1(Val(DataPtr, k))] = hist[Data1(Val(DataPtr, k))]
          /\ hist'[Data2(Val(DataPtr, k))] = hist[Data2(Val(DataPtr, k))]
      BY <1>1, <1>9, <3>1
    <3> QED
      BY <3>1, <3>2, <3>3 DEF PublishedAt, Carries, Val, Cell, Newest
  <2>2. CASE k = N + 1
    <3>1. Val(DataPtr, k)' = n
      BY <1>1, <2>2 DEF Val
    <3>2. n \in 0..Len(args') /\ Cell(Data1(n)) \in Nat /\ Cell(Data2(n)) \in Nat
      <4>1. n \in 0..Len(args')
        BY <1>2, <1>4 DEF locals
      <4> QED
        BY <1>5, <1>6, <1>7, <4>1
    <3>3. hist'[Data1(n)] = hist[Data1(n)] /\ hist'[Data2(n)] = hist[Data2(n)]
      BY <1>1, <1>4, <1>9
    <3>4. ASSUME NEW x \in {Data1(n), Data2(n)}, NEW j \in 2..Newest(x)
          PROVE  <<x, j>> \in hist'[DataPtr][k].view
      <4>1. x \in Loc
        BY <1>4, <1>9
      <4>2. Newest(x) \in Nat
        BY <4>1, Lengths DEF IInv
      <4>3. j \in 1..Newest(x)
        BY <4>2
      <4>4. Knows(t, x)
        BY <1>4 DEF OwnedBy, n
      <4> QED
        BY <1>1, <2>2, <4>3, <4>4 DEF Knows
    <3> QED
      BY <3>1, <3>2, <3>3, <3>4 DEF PublishedAt, Carries, Val, Cell, Newest
  <2> QED
    BY <1>3, <2>1, <2>2
<1>15. ASSUME NEW u \in Thread
       PROVE  PointsWell(u)' /\ ComputesWell(u)'
  <2>1. CASE u = t
    BY <1>2, <2>1 DEF PointsWell, ComputesWell, PtrLabel, WriteLabel, IInv, Types
  <2>2. CASE u # t
    <3>1. pc'[u] = pc[u] /\ UNCHANGED <<ptr, tmp, data1, data2, args>>
      BY <1>2, <2>2 DEF IInv, Types, locals
    <3>2. ptr[u] \in Node /\ tmp[u] \in Node
      BY DEF IInv, Types
    <3>3. \A m \in Node : CellNext(Data1(m)) = Cell(Data1(m)) /\ CellNext(Data2(m)) = Cell(Data2(m))
      BY <1>8, <1>9
    <3>4. PointsWell(u)'
      <4>1. pc[u] \in PtrLabel =>
              /\ ptr[u] \in Published'
              /\ KnowsNext(u, Data1(ptr[u])) /\ KnowsNext(u, Data2(ptr[u]))
        BY <1>8, <1>9, <1>10, <3>2 DEF IInv, PointsWell
      <4> QED
        BY <3>1, <4>1 DEF PointsWell, Knows, KnowsNext, Newest
    <3>5. ComputesWell(u)'
      <4>1. ComputesWell(u)
        BY DEF IInv
      <4> QED
        BY <3>1, <3>2, <3>3, <4>1 DEF ComputesWell, Cell, CellNext, Val, Newest
    <3> QED
      BY <3>4, <3>5
  <2> QED
    BY <2>1, <2>2
<1>16. Pair' = <<Pair[1] + a[1], Pair[2] + a[2]>>
  <2>1. Pair = <<Cell(Data1(ptr[t])), Cell(Data2(ptr[t]))>>
    BY <1>1 DEF Pair, Content, Cell
  <2>2. Cell(DataPtr)' = n
    BY <1>1 DEF Cell, Val
  <2>3. Pair' = <<CellNext(Data1(n)), CellNext(Data2(n))>>
    BY <2>2 DEF Pair, Content, CellNext, Val, Newest
  <2>4. CellNext(Data1(n)) = Cell(Data1(n)) /\ CellNext(Data2(n)) = Cell(Data2(n))
    BY <1>4, <1>8, <1>9
  <2> QED
    BY <1>7, <2>1, <2>3, <2>4
<1> QED
  BY <1>1, <1>5, <1>11, <1>13, <1>14, <1>15, <1>16 DEF IInv

LEMMA Stuttering ==
  ASSUME IInv, UNCHANGED vars
  PROVE  IInv' /\ Pair' = Pair
<1>1. UNCHANGED <<hist, cur, acq, rel, sc, pc, ptr, tmp, data1, data2, args>>
  BY DEF vars, locals
<1>2. Types'
  BY <1>1 DEF IInv, Types, MemType
<1>3. Chain'
  BY <1>1 DEF IInv, Chain, Linear, Newest
<1>4. Published' = Published /\ Pair' = Pair /\ Writing' = Writing
  BY <1>1 DEF Published, Pair, Content, Cell, Val, Newest, Writing, Idle
<1>5. Ownership'
  BY <1>1, <1>4 DEF IInv, Ownership, OwnedBy, Knows, Newest
<1>6. Publication'
  BY <1>1 DEF IInv, Publication, PublishedAt, Carries, Cell, Val, Newest
<1>7. \A t \in Thread : PointsWell(t)' /\ ComputesWell(t)'
  BY <1>1, <1>4 DEF IInv, PointsWell, ComputesWell, Knows, Cell, Val, Newest
<1> QED
  BY <1>2, <1>3, <1>4, <1>5, <1>6, <1>7 DEF IInv

(* Every step keeps the invariant, and is a step of the counters or none.  *)
LEMMA Steps ==
  ASSUME IInv, [Next]_vars
  PROVE  /\ IInv'
         /\ \/ Pair' = Pair
            \/ \E a \in Argument : Pair' = <<Pair[1] + a[1], Pair[2] + a[2]>>
<1>1. CASE UNCHANGED vars
  BY <1>1, Stuttering
<1>2. ASSUME NEW t \in Thread, ReadStep(t)
      PROVE  IInv' /\ Pair' = Pair
  BY <1>2, PtrSteps, DataSteps DEF ReadStep
<1>3. ASSUME NEW t \in Thread, Write_New(t) \/ Write_LoadPtr(t)
      PROVE  IInv' /\ Pair' = Pair
  BY <1>3, NewStep, PtrSteps
<1>4. ASSUME NEW t \in Thread, WriteLoop(t)
      PROVE  /\ IInv'
             /\ \/ Pair' = Pair
                \/ \E a \in Argument : Pair' = <<Pair[1] + a[1], Pair[2] + a[2]>>
  BY <1>4, DataSteps, StoreSteps, WinStep, LoseStep DEF WriteLoop
<1> QED
  BY <1>1, <1>2, <1>3, <1>4 DEF Next, Terminated

THEOREM Invariance == Spec => []IInv
<1>1. Init => IInv
  BY InitInvariant
<1>2. IInv /\ [Next]_vars => IInv'
  BY Steps
<1> QED
  BY <1>1, <1>2, PTL DEF Spec

(* TypeOK: no two writers share a Data, and none works on a published one. *)
THEOREM TypeCorrectness == Spec => []TypeOK
<1>1. ASSUME IInv
      PROVE  TypeOK
  <2>1. /\ pc \in [Thread -> {"idle", "returned", "readData1", "readData2", "load", "incLoad1",
                              "incStore1", "incLoad2", "incStore2", "cas"}]
        /\ ptr \in [Thread -> Node] /\ tmp \in [Thread -> Node]
    BY <1>1 DEF IInv, Types, ReadLabel, WriteLabel
  <2>2. \A k \in 1..Newest(DataPtr) : Val(DataPtr, k) \in Node
    BY <1>1, PublishedNodes DEF Published
  <2>3. \A t \in Writing : tmp[t] \notin Published /\ \A u \in Writing \ {t} : tmp[t] # tmp[u]
    BY <1>1 DEF IInv, Ownership, OwnedBy
  <2> QED
    BY <2>1, <2>2, <2>3 DEF TypeOK
<1> QED
  BY <1>1, Invariance, PTL

(* ReadIsSnapshot: read() returns both counters of one published version.  *)
THEOREM Snapshot == Spec => []ReadIsSnapshot
<1>1. ASSUME IInv, NEW t \in Thread, pc[t] = "returned"
      PROVE  /\ ptr[t] \in Published
             /\ <<data1[t], data2[t]>> = Content(ptr[t])
             /\ Uninit \notin {data1[t], data2[t]}
  <2>1. ptr[t] \in Published
    BY <1>1 DEF IInv, PointsWell, PtrLabel
  <2>2. data1[t] = Cell(Data1(ptr[t])) /\ data2[t] = Cell(Data2(ptr[t]))
    BY <1>1 DEF IInv, ComputesWell
  <2>3. data1[t] \in Nat /\ data2[t] \in Nat
    BY <1>1, <2>1, <2>2, PublishedNodes
  <2> QED
    BY <2>1, <2>2, <2>3, RCUAssumption DEF Content, Cell
<1>2. IInv => ReadIsSnapshot
  BY <1>1 DEF ReadIsSnapshot
<1> QED
  BY <1>2, Invariance, PTL

(* ImplementsCounters: the newest version is a pair of counters to which   *)
(* every write adds its arguments in one step; no write is lost.           *)
THEOREM Refinement == Spec => ImplementsCounters
<1>1. Init => Abstract!Init
  <2> SUFFICES ASSUME Init
               PROVE  Pair = <<0, 0>>
    BY DEF Abstract!Init, Pair, Cell
  <2>1. \A x \in {DataPtr, Data1(0), Data2(0)} : hist[x] = <<Message(1, 0, {}, "store")>>
    <3>1. 0 \in Node
      BY RCUAssumption DEF Node
    <3> QED
      BY <3>1, Locations DEF Init, MemInit
  <2>2. \A x \in {DataPtr, Data1(0), Data2(0)} : Cell(x) = 0
    BY <2>1 DEF Cell, Val, Newest, Message
  <2> QED
    BY <2>2 DEF Pair, Content, Cell
<1>2. IInv /\ [Next]_vars => [Abstract!Write]_Pair
  BY Steps DEF Abstract!Write, Pair, Cell
<1>3. IInv /\ [Next]_vars => [Abstract!Write]_(Content(Val(DataPtr, Newest(DataPtr))))
  BY <1>2 DEF Pair, Cell
<1> QED
  BY <1>1, <1>3, Invariance, PTL DEF Spec, ImplementsCounters, Abstract!Spec
=============================================================================
