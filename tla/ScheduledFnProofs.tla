------------------------- MODULE ScheduledFnProofs -------------------------
(***************************************************************************)
(* ListsOK and BoundedRun hold in every behaviour, for every MaxCount and  *)
(* every set of functions.                                                 *)
(***************************************************************************)
EXTENDS ScheduledFn, SequenceTheorems, TLAPS

(* While a run that found a non-empty queue has not reached its last node, *)
(* that node is in the queue and nothing up to it was queued since.        *)
StopQueued ==
  \E k \in 1..Len(order) :
     /\ order[k] = stop
     /\ \A i \in 1..k : order[i] \notin fresh

RunInv ==
  /\ (pc = "test" /\ stop # Null /\ ~done) => StopQueued
  /\ (pc = "call" /\ stop # Null) => StopQueued /\ (done <=> sFirst = stop)
  /\ pc = "idle" => stop = Null

Inv == TypeOK /\ ListsOK /\ RunInv

(* Appending one element, dropping the first one, putting one in front. *)
LEMMA AppendFacts ==
  ASSUME NEW S, NEW s \in Seq(S), NEW x \in S
  PROVE  /\ Append(s, x) \in Seq(S) /\ Len(Append(s, x)) = Len(s) + 1 /\ Len(s) \in Nat
         /\ Append(s, x)[Len(s) + 1] = x
         /\ \A i \in 1..Len(s) : Append(s, x)[i] = s[i] /\ s[i] \in S
OBVIOUS

LEMMA TailFacts ==
  ASSUME NEW S, NEW s \in Seq(S), s # <<>>
  PROVE  /\ Tail(s) \in Seq(S) /\ Len(s) \in Nat \ {0} /\ Len(Tail(s)) = Len(s) - 1
         /\ \A i \in 1..Len(s) - 1 : Tail(s)[i] = s[i + 1]
         /\ \A i \in 1..Len(s) : s[i] \in S
OBVIOUS

LEMMA ConsFacts ==
  ASSUME NEW S, NEW s \in Seq(S), NEW x \in S
  PROVE  /\ <<x>> \o s \in Seq(S) /\ Len(<<x>> \o s) = Len(s) + 1 /\ Len(s) \in Nat
         /\ (<<x>> \o s)[1] = x
         /\ \A i \in 1..Len(s) : (<<x>> \o s)[i + 1] = s[i] /\ s[i] \in S
OBVIOUS

LEMMA InitInv == Init => Inv
<1> SUFFICES ASSUME Init PROVE Inv
  OBVIOUS
<1>1. TypeOK
  <2>1. sCount \in 0..MaxCount
    BY MaxCountAssumption DEF Init
  <2>2. mNext \in [Nodes -> Nodes \cup {Null}] /\ mFunc \in [Nodes -> Fns \cup {NoFn}]
    BY DEF Init
  <2>3. order \in Seq(Nodes) /\ spare \in Seq(Nodes) /\ fresh \subseteq Nodes
    BY DEF Init
  <2> QED BY <2>1, <2>2, <2>3 DEF Init, TypeOK, Points
<1>2. order = <<>> /\ spare = <<>> /\ Len(order) = 0 /\ Len(spare) = 0
  BY DEF Init
<1>3. ListsOK
  BY <1>2 DEF Init, ListsOK, Linked, NoNodeLost, Distinct, Null
<1>4. RunInv
  BY DEF Init, RunInv
<1> QED BY <1>1, <1>3, <1>4 DEF Inv

(* A node that is not on the queue can be linked behind its last node. *)
LEMMA LinkStep ==
  ASSUME Inv, NEW f \in Fns, NEW item \in Nodes, Link(item, f),
         \A i \in 1..Len(order) : order[i] # item
  PROVE  /\ sFirst' \in Nodes /\ sLast' \in Nodes /\ mNext' \in [Nodes -> Nodes \cup {Null}]
         /\ mFunc' \in [Nodes -> Fns \cup {NoFn}]
         /\ order' \in Seq(Nodes) /\ fresh' \subseteq Nodes
         /\ Linked(order, sFirst)'
         /\ sLast' = order'[Len(order')] /\ order' # <<>>
         /\ \A i \in 1..Len(order') : mFunc'[order'[i]] \in Fns
         /\ Distinct(order)'
         /\ Len(order') = Len(order) + 1
         /\ order'[Len(order) + 1] = item
         /\ \A i \in 1..Len(order) : order'[i] = order[i]
         /\ RunInv'
         /\ \A n \in Nodes : n # item /\ (\A i \in 1..Len(order) : order[i] # n)
                               => mNext'[n] = mNext[n]
<1>0. order \in Seq(Nodes) /\ order' = Append(order, item)
  BY DEF Inv, TypeOK, Link
<1>1. /\ order' = Append(order, item)
      /\ order' \in Seq(Nodes)
      /\ Len(order') = Len(order) + 1
      /\ Len(order) \in Nat
      /\ order'[Len(order) + 1] = item
      /\ \A i \in 1..Len(order) : order'[i] = order[i] /\ order[i] \in Nodes
  BY <1>0, AppendFacts
<1>a. /\ sFirst \in Nodes \cup {Null} /\ sLast \in Nodes \cup {Null} /\ fresh \subseteq Nodes
      /\ mNext \in [Nodes -> Nodes \cup {Null}] /\ mFunc \in [Nodes -> Fns \cup {NoFn}]
  BY DEF Inv, TypeOK
<1>b. Null \notin Nodes
  BY DEF Null, Nodes
<1>c. /\ sFirst = IF order = <<>> THEN Null ELSE order[1]
      /\ sLast = IF order = <<>> THEN Null ELSE order[Len(order)]
      /\ \A i \in 1..Len(order) : mNext[order[i]] = IF i = Len(order) THEN Null ELSE order[i + 1]
      /\ \A i \in 1..Len(order) : mFunc[order[i]] \in Fns
      /\ \A i, j \in 1..Len(order) : order[i] = order[j] => i = j
      /\ pc = "call" => order # <<>>
  BY DEF Inv, ListsOK, Linked, NoNodeLost, Distinct
<1>d. order # <<>> => 1 \in 1..Len(order) /\ Len(order) \in 1..Len(order)
  BY <1>0, <1>1
<1>2. /\ sFirst' \in Nodes /\ sLast' = item /\ mNext' \in [Nodes -> Nodes \cup {Null}]
      /\ mFunc' \in [Nodes -> Fns \cup {NoFn}] /\ fresh' \subseteq Nodes
  <2>1. \A n \in Nodes : (IF n = item THEN Null
                          ELSE IF sFirst # Null /\ n = sLast THEN item
                          ELSE mNext[n]) \in Nodes \cup {Null}
    BY <1>a
  <2>2. mNext' \in [Nodes -> Nodes \cup {Null}]
    BY <2>1 DEF Link
  <2>3. fresh' \subseteq Nodes
    BY <1>a DEF Link
  <2>4. mFunc' \in [Nodes -> Fns \cup {NoFn}]
    BY <1>a DEF Link
  <2> QED BY <1>a, <2>2, <2>3, <2>4 DEF Link
<1>3. order' # <<>> /\ sLast' = order'[Len(order')]
  <2>1. Len(order') # 0
    BY <1>1
  <2> QED BY <1>1, <1>2, <2>1
<1>4. mNext'[item] = Null
  BY DEF Link
<1>5. \A n \in Nodes : n # item /\ (\A i \in 1..Len(order) : order[i] # n)
                         => mNext'[n] = mNext[n]
  <2> SUFFICES ASSUME NEW n \in Nodes, n # item, \A i \in 1..Len(order) : order[i] # n
               PROVE  mNext'[n] = mNext[n]
    OBVIOUS
  <2>1. sFirst # Null => n # sLast
    BY <1>c, <1>d
  <2> QED BY <2>1 DEF Link
<1>6. \A i \in 1..Len(order) :
         mNext'[order[i]] = IF i = Len(order) THEN item ELSE order[i + 1]
  <2> SUFFICES ASSUME NEW i \in 1..Len(order)
               PROVE  mNext'[order[i]] = IF i = Len(order) THEN item ELSE order[i + 1]
    OBVIOUS
  <2>1. order # <<>>
    OBVIOUS
  <2>2. order[i] \in Nodes /\ order[i] # item /\ sFirst # Null
    BY <1>1, <1>b, <1>c, <1>d, <2>1
  <2>3. mNext'[order[i]] = IF order[i] = sLast THEN item ELSE mNext[order[i]]
    BY <2>2 DEF Link
  <2>4. order[i] = sLast <=> i = Len(order)
    BY <1>c, <1>d, <2>1
  <2> QED BY <1>c, <2>3, <2>4
<1>7. sFirst' = order'[1]
  <2>1. CASE order = <<>>
    BY <1>1, <1>c, <2>1 DEF Link
  <2>2. CASE order # <<>>
    BY <1>1, <1>b, <1>c, <1>d, <2>2 DEF Link
  <2> QED BY <2>1, <2>2
<1>8. Linked(order, sFirst)'
  <2>1. ASSUME NEW i \in 1..Len(order')
        PROVE  mNext'[order'[i]] = IF i = Len(order') THEN Null ELSE order'[i + 1]
    <3>1. CASE i = Len(order) + 1
      BY <1>1, <1>4, <3>1
    <3>2. CASE i \in 1..Len(order)
      <4>1. i # Len(order) => i + 1 \in 1..Len(order)
        BY <1>1, <3>2
      <4>2. i # Len(order')
        BY <1>1, <3>2
      <4> QED BY <1>1, <1>6, <3>2, <4>1, <4>2
    <3> QED BY <1>1, <3>1, <3>2
  <2> QED BY <1>3, <1>7, <2>1 DEF Linked
<1>9. \A i \in 1..Len(order') : mFunc'[order'[i]] \in Fns
  <2>1. mFunc'[item] = f /\ \A n \in Nodes : n # item => mFunc'[n] = mFunc[n]
    BY <1>a DEF Link
  <2> SUFFICES ASSUME NEW i \in 1..Len(order') PROVE mFunc'[order'[i]] \in Fns
    OBVIOUS
  <2>2. CASE i = Len(order) + 1
    BY <1>1, <2>1, <2>2
  <2>3. CASE i \in 1..Len(order)
    BY <1>1, <1>c, <2>1, <2>3
  <2> QED BY <1>1, <2>2, <2>3
<1>10. Distinct(order)'
  <2> SUFFICES ASSUME NEW i \in 1..Len(order'), NEW j \in 1..Len(order'), order'[i] = order'[j]
               PROVE  i = j
    BY DEF Distinct
  <2>1. /\ i = Len(order) + 1 \/ i \in 1..Len(order)
        /\ j = Len(order) + 1 \/ j \in 1..Len(order)
    BY <1>1
  <2> QED BY <1>1, <1>c, <2>1
<1>11. RunInv'
  <2>1. UNCHANGED <<pc, stop, done>>
    BY DEF Link, run
  <2>2. pc # "idle" => fresh' = fresh \cup {item}
    BY DEF Link
  <2>3. StopQueued /\ pc # "idle" => StopQueued'
    <3> SUFFICES ASSUME StopQueued, pc # "idle" PROVE StopQueued'
      OBVIOUS
    <3>1. PICK k \in 1..Len(order) : order[k] = stop /\ \A i \in 1..k : order[i] \notin fresh
      BY DEF StopQueued
    <3>2. k \in 1..Len(order') /\ order'[k] = stop'
      BY <1>1, <2>1, <3>1
    <3>3. \A i \in 1..k : i \in 1..Len(order)
      BY <1>1, <3>1
    <3>4. \A i \in 1..k : order'[i] \notin fresh'
      BY <1>1, <2>2, <3>1, <3>3
    <3> QED BY <3>2, <3>4 DEF StopQueued
  <2>4. pc = "call" => sFirst' = sFirst
    BY <1>1, <1>b, <1>c, <1>d DEF Link
  <2> QED BY <2>1, <2>3, <2>4 DEF Inv, RunInv
<1> QED BY <1>1, <1>2, <1>3, <1>5, <1>7, <1>8, <1>9, <1>10, <1>11

LEMMA ReusedStep ==
  ASSUME Inv, NEW f \in Fns, ScheduleReused(f)
  PROVE  Inv'
<1>1. spare \in Seq(Nodes) /\ sUnused \in Nodes /\ spare # <<>> /\ spare' = Tail(spare)
  BY DEF Inv, TypeOK, ListsOK, Linked, ScheduleReused
<1>2. /\ spare' \in Seq(Nodes) /\ Len(spare) \in Nat \ {0} /\ Len(spare') = Len(spare) - 1
      /\ \A i \in 1..Len(spare) - 1 : spare'[i] = spare[i + 1]
      /\ \A i \in 1..Len(spare) : spare[i] \in Nodes
  BY <1>1, TailFacts
<1>3. sUnused = spare[1] /\ 1 \in 1..Len(spare)
  <2>1. sUnused = spare[1]
    BY <1>1 DEF Inv, ListsOK, Linked
  <2>2. 1 \in 1..Len(spare)
    BY <1>2
  <2> QED BY <2>1, <2>2
<1>4. \A i \in 1..Len(order) : order[i] # sUnused
  BY <1>3 DEF Inv, ListsOK, NoNodeLost
<1>5. Link(sUnused, f)
  BY DEF ScheduleReused
<1>6. order \in Seq(Nodes) /\ Len(order) \in Nat /\ UNCHANGED <<sCount, pc, stop, done>>
      /\ verdict' = "accepted"
  BY DEF Inv, TypeOK, ScheduleReused, Link, run
<1>7. /\ Linked(order, sFirst)' /\ sLast' = order'[Len(order')] /\ order' # <<>>
      /\ \A i \in 1..Len(order') : mFunc'[order'[i]] \in Fns
      /\ Distinct(order)' /\ Len(order') = Len(order) + 1
      /\ order'[Len(order) + 1] = sUnused
      /\ \A i \in 1..Len(order) : order'[i] = order[i]
      /\ RunInv'
  BY <1>1, <1>4, <1>5, LinkStep
<1>8. TypeOK'
  <2>1. /\ sFirst' \in Nodes /\ sLast' \in Nodes /\ mNext' \in [Nodes -> Nodes \cup {Null}]
        /\ mFunc' \in [Nodes -> Fns \cup {NoFn}]
        /\ order' \in Seq(Nodes) /\ fresh' \subseteq Nodes
    BY <1>1, <1>4, <1>5, LinkStep
  <2>2. sUnused' \in Nodes \cup {Null}
    BY <1>1 DEF Inv, TypeOK, ScheduleReused
  <2> QED BY <1>2, <1>6, <2>1, <2>2 DEF Inv, TypeOK
<1>9. \A i \in 1..Len(spare') : i + 1 \in 1..Len(spare) /\ spare'[i] = spare[i + 1]
                              /\ spare'[i] # sUnused
  <2>1. \A i \in 1..Len(spare') : i + 1 \in 1..Len(spare) /\ spare'[i] = spare[i + 1] /\ i + 1 # 1
    BY <1>2
  <2> QED BY <1>3, <2>1 DEF Inv, ListsOK, NoNodeLost, Distinct
<1>10. Linked(spare, sUnused)'
  <2>1. \A i \in 1..Len(spare) : \A j \in 1..Len(order) : order[j] # spare[i]
    BY DEF Inv, ListsOK, NoNodeLost
  <2>a. \A n \in Nodes : n # sUnused /\ (\A i \in 1..Len(order) : order[i] # n)
                           => mNext'[n] = mNext[n]
    BY <1>1, <1>4, <1>5, LinkStep
  <2>2. \A i \in 1..Len(spare') : mNext'[spare'[i]] = mNext[spare[i + 1]]
    BY <1>2, <1>9, <2>1, <2>a
  <2>3. \A i \in 1..Len(spare) :
           mNext[spare[i]] = IF i = Len(spare) THEN Null ELSE spare[i + 1]
    BY DEF Inv, ListsOK, Linked
  <2>4. \A i \in 1..Len(spare') :
           mNext'[spare'[i]] = IF i = Len(spare') THEN Null ELSE spare'[i + 1]
    <3> SUFFICES ASSUME NEW i \in 1..Len(spare')
                 PROVE  mNext'[spare'[i]] = IF i = Len(spare') THEN Null ELSE spare'[i + 1]
      OBVIOUS
    <3>1. mNext'[spare'[i]] = IF i + 1 = Len(spare) THEN Null ELSE spare[(i + 1) + 1]
      BY <1>9, <2>2, <2>3
    <3>2. i + 1 = Len(spare) <=> i = Len(spare')
      BY <1>2
    <3>3. i # Len(spare') => i + 1 \in 1..Len(spare')
      BY <1>2
    <3> QED BY <1>9, <3>1, <3>2, <3>3
  <2>5. sUnused' = IF Len(spare') = 0 THEN Null ELSE spare'[1]
    <3>1. sUnused' = mNext[spare[1]]
      BY <1>3 DEF ScheduleReused
    <3> QED BY <1>2, <1>3, <2>3, <3>1
  <2>6. spare' = <<>> <=> Len(spare') = 0
    BY <1>2
  <2> QED BY <2>4, <2>5, <2>6 DEF Linked
<1>11. NoNodeLost'
  <2>1. Distinct(spare)'
    <3> SUFFICES ASSUME NEW i \in 1..Len(spare'), NEW j \in 1..Len(spare'), spare'[i] = spare'[j]
                 PROVE  i = j
      BY DEF Distinct
    <3>1. i + 1 = j + 1
      BY <1>9 DEF Inv, ListsOK, NoNodeLost, Distinct
    <3> QED BY <3>1
  <2>2. \A i \in 1..Len(order'), j \in 1..Len(spare') : order'[i] # spare'[j]
    BY <1>6, <1>7, <1>9, SMTT(30) DEF Inv, ListsOK, NoNodeLost
  <2>3. \A i \in 1..Len(order') : order'[i] <= sCount'
    BY <1>3, <1>6, <1>7 DEF Inv, ListsOK, NoNodeLost
  <2>4. \A i \in 1..Len(spare') : spare'[i] <= sCount'
    BY <1>6, <1>9 DEF Inv, ListsOK, NoNodeLost
  <2>5. Len(order') + Len(spare') = sCount'
    BY <1>2, <1>6, <1>7 DEF Inv, ListsOK, NoNodeLost
  <2> QED BY <1>7, <2>1, <2>2, <2>3, <2>4, <2>5 DEF NoNodeLost
<1> QED BY <1>7, <1>8, <1>10, <1>11 DEF Inv, ListsOK

LEMMA AllocatedStep ==
  ASSUME Inv, NEW f \in Fns, ScheduleAllocated(f)
  PROVE  Inv'
<1> DEFINE item == sCount + 1
<1>1. /\ sCount \in Nat /\ item \in Nodes /\ sCount' = item /\ item \in 0..MaxCount
      /\ order \in Seq(Nodes) /\ Len(order) \in Nat /\ Len(spare) \in Nat
  BY MaxCountAssumption DEF Inv, TypeOK, ScheduleAllocated, MayAllocate, Nodes
<1>2. /\ \A i \in 1..Len(order) : order[i] <= sCount /\ order[i] \in Nodes
      /\ \A i \in 1..Len(spare) : spare[i] <= sCount /\ spare[i] \in Nodes
  BY DEF Inv, TypeOK, ListsOK, NoNodeLost
<1>3. /\ \A i \in 1..Len(order) : order[i] # item
      /\ \A i \in 1..Len(spare) : spare[i] # item
  BY <1>1, <1>2 DEF Nodes
<1>4. Link(item, f) /\ UNCHANGED <<sUnused, spare, pc, stop, done>> /\ verdict' = "accepted"
  BY DEF ScheduleAllocated, Link, run
<1> HIDE DEF item
<1>5. /\ Linked(order, sFirst)' /\ sLast' = order'[Len(order')] /\ order' # <<>>
      /\ \A i \in 1..Len(order') : mFunc'[order'[i]] \in Fns
      /\ Distinct(order)' /\ Len(order') = Len(order) + 1
      /\ order'[Len(order) + 1] = item
      /\ \A i \in 1..Len(order) : order'[i] = order[i]
      /\ RunInv'
  BY <1>1, <1>3, <1>4, LinkStep
<1>6. TypeOK'
  <2>1. /\ sFirst' \in Nodes /\ sLast' \in Nodes /\ mNext' \in [Nodes -> Nodes \cup {Null}]
        /\ mFunc' \in [Nodes -> Fns \cup {NoFn}]
        /\ order' \in Seq(Nodes) /\ fresh' \subseteq Nodes
    BY <1>1, <1>3, <1>4, LinkStep
  <2> QED BY <1>1, <1>4, <2>1 DEF Inv, TypeOK
<1>7. Linked(spare, sUnused)'
  <2>1. \A i \in 1..Len(spare) : \A j \in 1..Len(order) : order[j] # spare[i]
    BY DEF Inv, ListsOK, NoNodeLost
  <2>a. \A n \in Nodes : n # item /\ (\A i \in 1..Len(order) : order[i] # n)
                           => mNext'[n] = mNext[n]
    BY <1>1, <1>3, <1>4, LinkStep
  <2>2. \A i \in 1..Len(spare) : mNext'[spare[i]] = mNext[spare[i]]
    BY <1>2, <1>3, <2>1, <2>a
  <2> QED BY <1>4, <2>2 DEF Inv, ListsOK, Linked
<1>8. NoNodeLost'
  <2>1. Distinct(spare)'
    BY <1>4 DEF Inv, ListsOK, NoNodeLost, Distinct
  <2>2. \A i \in 1..Len(order'), j \in 1..Len(spare') : order'[i] # spare'[j]
    BY <1>1, <1>3, <1>4, <1>5 DEF Inv, ListsOK, NoNodeLost
  <2>3. sCount <= sCount' /\ item <= sCount' /\ sCount' = sCount + 1
    BY <1>1 DEF item
  <2>4. \A i \in 1..Len(order') : order'[i] <= sCount'
    BY <1>1, <1>2, <1>5, <2>3 DEF Nodes
  <2>5. \A i \in 1..Len(spare') : spare'[i] <= sCount'
    BY <1>1, <1>2, <1>4, <2>3 DEF Nodes
  <2>6. Len(order') + Len(spare') = sCount'
    BY <1>1, <1>4, <1>5, <2>3 DEF Inv, ListsOK, NoNodeLost
  <2> QED BY <1>5, <2>1, <2>2, <2>4, <2>5, <2>6 DEF NoNodeLost
<1> QED BY <1>5, <1>6, <1>7, <1>8 DEF Inv, ListsOK

LEMMA RecycleStep ==
  ASSUME Inv, RunRecycle
  PROVE  Inv'
<1>1. /\ order \in Seq(Nodes) /\ order # <<>> /\ order' = Tail(order)
      /\ spare \in Seq(Nodes) /\ spare' = <<sFirst>> \o spare /\ sFirst = order[1]
      /\ UNCHANGED <<sCount, stop, done, verdict>>
  BY DEF Inv, TypeOK, ListsOK, Linked, RunRecycle
<1>2. /\ order' \in Seq(Nodes) /\ Len(order) \in Nat \ {0} /\ Len(order') = Len(order) - 1
      /\ \A i \in 1..Len(order') : order'[i] = order[i + 1] /\ i + 1 \in 1..Len(order)
      /\ \A i \in 1..Len(order) : order[i] \in Nodes
      /\ 1 \in 1..Len(order) /\ sFirst \in Nodes
  <2>1. /\ order' \in Seq(Nodes) /\ Len(order) \in Nat \ {0} /\ Len(order') = Len(order) - 1
        /\ \A i \in 1..Len(order) - 1 : order'[i] = order[i + 1]
        /\ \A i \in 1..Len(order) : order[i] \in Nodes
    BY <1>1, TailFacts
  <2>2. 1 \in 1..Len(order) /\ \A i \in 1..Len(order') : i + 1 \in 1..Len(order)
    BY <2>1
  <2> QED BY <1>1, <2>1, <2>2
<1>3. /\ spare' \in Seq(Nodes) /\ Len(spare') = Len(spare) + 1 /\ Len(spare) \in Nat
      /\ spare'[1] = sFirst
      /\ \A i \in 1..Len(spare) : spare'[i + 1] = spare[i] /\ spare[i] \in Nodes
  BY <1>1, <1>2, ConsFacts
<1>4. \A i \in 1..Len(order') : order'[i] # sFirst
  <2>1. \A i \in 1..Len(order') : i + 1 # 1
    OBVIOUS
  <2> QED BY <1>1, <1>2, <2>1 DEF Inv, ListsOK, NoNodeLost, Distinct
<1>5. \A i \in 1..Len(spare) : spare[i] # sFirst
  BY <1>1, <1>2 DEF Inv, ListsOK, NoNodeLost
<1>6. /\ mNext'[sFirst] = sUnused
      /\ \A n \in Nodes : n # sFirst => mNext'[n] = mNext[n] /\ mFunc'[n] = mFunc[n]
  BY <1>2 DEF Inv, TypeOK, RunRecycle
<1>7. TypeOK'
  <2>1. /\ mNext' \in [Nodes -> Nodes \cup {Null}] /\ mFunc' \in [Nodes -> Fns \cup {NoFn}]
        /\ sFirst' \in Nodes \cup {Null} /\ sLast' \in Nodes \cup {Null}
    BY <1>2 DEF Inv, TypeOK, RunRecycle, FirstAfter, LastAfter
  <2>2. sUnused' = sFirst /\ pc' = "test" /\ fresh' \subseteq fresh
    BY DEF RunRecycle
  <2> QED BY <1>1, <1>2, <1>3, <2>1, <2>2 DEF Inv, TypeOK, Points
<1>8. Linked(order, sFirst)'
  <2>1. \A i \in 1..Len(order) :
           mNext[order[i]] = IF i = Len(order) THEN Null ELSE order[i + 1]
    BY DEF Inv, ListsOK, Linked
  <2>2. sFirst' = IF Len(order') = 0 THEN Null ELSE order'[1]
    <3>1. sFirst' = mNext[order[1]]
      BY <1>1 DEF RunRecycle, FirstAfter
    <3> QED BY <1>2, <2>1, <3>1
  <2>3. order' = <<>> <=> Len(order') = 0
    BY <1>2
  <2>4. ASSUME NEW i \in 1..Len(order')
        PROVE  mNext'[order'[i]] = IF i = Len(order') THEN Null ELSE order'[i + 1]
    <3>1. mNext'[order'[i]] = mNext[order[i + 1]]
      BY <1>2, <1>4, <1>6
    <3>2. mNext[order[i + 1]] = IF i + 1 = Len(order) THEN Null ELSE order[(i + 1) + 1]
      BY <1>2, <2>1
    <3>3. i + 1 = Len(order) <=> i = Len(order')
      BY <1>2
    <3>4. i # Len(order') => i + 1 \in 1..Len(order')
      BY <1>2
    <3> QED BY <1>2, <3>1, <3>2, <3>3, <3>4
  <2> QED BY <2>2, <2>3, <2>4 DEF Linked
<1>9. sLast' = IF order' = <<>> THEN Null ELSE order'[Len(order')]
  <2>1. sLast = order[Len(order)] /\ Len(order) \in 1..Len(order)
    BY <1>1, <1>2 DEF Inv, ListsOK
  <2>2. sLast = sFirst <=> Len(order) = 1
    BY <1>1, <1>2, <2>1 DEF Inv, ListsOK, NoNodeLost, Distinct
  <2>3. order' = <<>> <=> Len(order) = 1
    BY <1>2
  <2>4. Len(order) # 1 => order'[Len(order')] = order[Len(order)]
    <3> SUFFICES ASSUME Len(order) # 1 PROVE order'[Len(order')] = order[Len(order)]
      OBVIOUS
    <3>1. Len(order') \in 1..Len(order') /\ Len(order') + 1 = Len(order)
      BY <1>2
    <3> QED BY <1>2, <3>1
  <2> QED BY <2>1, <2>2, <2>3, <2>4 DEF RunRecycle, LastAfter
<1>10. \A i \in 1..Len(order') : mFunc'[order'[i]] \in Fns
  <2>1. \A i \in 1..Len(order) : mFunc[order[i]] \in Fns
    BY DEF Inv, ListsOK
  <2> QED BY <1>2, <1>4, <1>6, <2>1
<1>11. \A i \in 1..Len(spare') : i = 1 \/ (i - 1 \in 1..Len(spare) /\ spare'[i] = spare[i - 1])
  <2> SUFFICES ASSUME NEW i \in 1..Len(spare'), i # 1
               PROVE  i - 1 \in 1..Len(spare) /\ spare'[i] = spare[i - 1]
    OBVIOUS
  <2>1. i - 1 \in 1..Len(spare) /\ (i - 1) + 1 = i
    BY <1>3
  <2>2. spare'[(i - 1) + 1] = spare[i - 1]
    BY <1>3, <2>1
  <2> QED BY <2>1, <2>2
<1>12. Linked(spare, sUnused)'
  <2>1. \A i \in 1..Len(spare) :
           mNext[spare[i]] = IF i = Len(spare) THEN Null ELSE spare[i + 1]
    BY DEF Inv, ListsOK, Linked
  <2>2. sUnused = IF Len(spare) = 0 THEN Null ELSE spare[1]
    BY <1>1 DEF Inv, ListsOK, Linked
  <2>3. sUnused' = spare'[1] /\ spare' # <<>>
    BY <1>3 DEF RunRecycle
  <2>4. ASSUME NEW i \in 1..Len(spare')
        PROVE  mNext'[spare'[i]] = IF i = Len(spare') THEN Null ELSE spare'[i + 1]
    <3>1. CASE i = 1
      <4>1. Len(spare) # 0 => 1 \in 1..Len(spare)
        BY <1>3
      <4>2. i = Len(spare') <=> Len(spare) = 0
        BY <1>3, <3>1
      <4>3. mNext'[spare'[i]] = sUnused
        BY <1>3, <1>6, <3>1
      <4> QED BY <1>3, <2>2, <3>1, <4>1, <4>2, <4>3
    <3>2. CASE i # 1
      <4>1. i - 1 \in 1..Len(spare) /\ spare'[i] = spare[i - 1]
        BY <1>11, <3>2
      <4>2. mNext'[spare'[i]] = mNext[spare[i - 1]]
        BY <1>3, <1>5, <1>6, <4>1
      <4>3. i - 1 = Len(spare) <=> i = Len(spare')
        BY <1>3
      <4>4. (i - 1) + 1 = i
        OBVIOUS
      <4>5. i # Len(spare') => i \in 1..Len(spare)
        BY <1>3
      <4> QED BY <1>3, <2>1, <4>1, <4>2, <4>3, <4>4, <4>5
    <3> QED BY <3>1, <3>2
  <2> QED BY <2>3, <2>4 DEF Linked
<1>13. NoNodeLost'
  <2>1. Distinct(order)'
    <3> SUFFICES ASSUME NEW i \in 1..Len(order'), NEW j \in 1..Len(order'), order'[i] = order'[j]
                 PROVE  i = j
      BY DEF Distinct
    <3>1. i + 1 = j + 1
      BY <1>2 DEF Inv, ListsOK, NoNodeLost, Distinct
    <3> QED BY <3>1
  <2>2. Distinct(spare)'
    <3> SUFFICES ASSUME NEW i \in 1..Len(spare'), NEW j \in 1..Len(spare'), spare'[i] = spare'[j]
                 PROVE  i = j
      BY DEF Distinct
    <3>1. CASE i = 1 \/ j = 1
      BY <1>3, <1>5, <1>11, <3>1
    <3>2. CASE i # 1 /\ j # 1
      <4>1. i - 1 = j - 1
        BY <1>11, <3>2 DEF Inv, ListsOK, NoNodeLost, Distinct
      <4> QED BY <4>1
    <3> QED BY <3>1, <3>2
  <2>3. \A i \in 1..Len(order'), j \in 1..Len(spare') : order'[i] # spare'[j]
    <3>1. \A i \in 1..Len(order), j \in 1..Len(spare) : order[i] # spare[j]
      BY DEF Inv, ListsOK, NoNodeLost
    <3> SUFFICES ASSUME NEW i \in 1..Len(order'), NEW j \in 1..Len(spare')
                 PROVE  order'[i] # spare'[j]
      OBVIOUS
    <3>2. CASE j = 1
      BY <1>3, <1>4, <3>2
    <3>3. CASE j # 1
      <4>1. j - 1 \in 1..Len(spare) /\ spare'[j] = spare[j - 1]
        BY <1>11, <3>3
      <4>2. i + 1 \in 1..Len(order) /\ order'[i] = order[i + 1]
        BY <1>2
      <4> QED BY <3>1, <4>1, <4>2
    <3> QED BY <3>2, <3>3
  <2>4. \A i \in 1..Len(order') : order'[i] <= sCount'
    BY <1>1, <1>2 DEF Inv, ListsOK, NoNodeLost
  <2>5. \A i \in 1..Len(spare') : spare'[i] <= sCount'
    <3>1. /\ \A i \in 1..Len(order) : order[i] <= sCount
          /\ \A i \in 1..Len(spare) : spare[i] <= sCount
      BY DEF Inv, ListsOK, NoNodeLost
    <3> QED BY <1>1, <1>2, <1>3, <1>11, <3>1
  <2>6. Len(order') + Len(spare') = sCount'
    <3>1. Len(order) + Len(spare) = sCount
      BY DEF Inv, ListsOK, NoNodeLost
    <3> QED BY <1>1, <1>2, <1>3, <3>1
  <2> QED BY <2>1, <2>2, <2>3, <2>4, <2>5, <2>6 DEF NoNodeLost
<1>14. RunInv'
  <2>1. pc = "call" /\ pc' = "test" /\ fresh' = fresh \ {sFirst}
    BY DEF RunRecycle
  <2>2. ASSUME stop # Null, ~done PROVE StopQueued'
    <3>1. PICK k \in 1..Len(order) : order[k] = stop /\ \A i \in 1..k : order[i] \notin fresh
      BY <2>1, <2>2 DEF Inv, RunInv, StopQueued
    <3>2. k # 1
      BY <1>1, <2>1, <2>2, <3>1 DEF Inv, RunInv
    <3>3. k - 1 \in 1..Len(order') /\ (k - 1) + 1 = k
      BY <1>2, <3>2
    <3>4. order'[k - 1] = stop'
      BY <1>1, <1>2, <3>1, <3>3
    <3>5. \A i \in 1..k - 1 : order'[i] \notin fresh'
      <4> SUFFICES ASSUME NEW i \in 1..k - 1 PROVE order'[i] \notin fresh'
        OBVIOUS
      <4>1. i \in 1..Len(order') /\ i + 1 \in 1..k
        BY <1>2
      <4> QED BY <1>2, <2>1, <3>1, <4>1
    <3> QED BY <3>3, <3>4, <3>5 DEF StopQueued
  <2> QED BY <1>1, <2>1, <2>2 DEF RunInv
<1> QED BY <1>7, <1>8, <1>9, <1>10, <1>12, <1>13, <1>14, RunRecycle DEF Inv, ListsOK, RunRecycle

(* The steps that leave the lists alone. *)
LEMMA QuietStep ==
  ASSUME Inv, ScheduleRefused \/ RunStart \/ RunEnd \/ RunCall \/ UNCHANGED vars
  PROVE  Inv'
<1>1. UNCHANGED <<sFirst, sLast, sUnused, sCount, mNext, mFunc, order, spare>>
  BY DEF ScheduleRefused, RunStart, RunEnd, RunCall, vars, lists, history
<1>2. TypeOK'
  BY <1>1 DEF Inv, TypeOK, Points, ScheduleRefused, RunStart, RunEnd, RunCall, vars, run,
     history, DoneAtStart, IsLast
<1>3. Linked(order, sFirst)' /\ Linked(spare, sUnused)' /\ NoNodeLost'
  BY <1>1 DEF Inv, ListsOK, Linked, NoNodeLost, Distinct
<1>4. pc' = "call" => order' # <<>>
  BY <1>1 DEF Inv, ListsOK, Linked, ScheduleRefused, RunStart, RunEnd, RunCall, vars, run
<1>5. ListsOK'
  BY <1>1, <1>3, <1>4 DEF Inv, ListsOK
<1>6. RunInv'
  <2>1. CASE ScheduleRefused \/ UNCHANGED vars
    BY <1>1, <2>1 DEF Inv, RunInv, StopQueued, ScheduleRefused, vars, run, history
  <2>2. CASE RunStart
    <3>1. stop' = sLast /\ pc' = "test" /\ fresh' = {}
      BY <2>2 DEF RunStart
    <3>2. sLast # Null => Len(order) \in 1..Len(order) /\ order[Len(order)] = sLast
      BY DEF Inv, ListsOK, TypeOK
    <3>3. stop' # Null => StopQueued'
      BY <1>1, <3>1, <3>2 DEF StopQueued
    <3> QED BY <3>1, <3>3 DEF RunInv
  <2>3. CASE RunEnd
    BY <2>3 DEF RunInv, RunEnd
  <2>4. CASE RunCall
    BY <1>1, <2>4 DEF Inv, RunInv, RunCall, StopQueued, IsLast, history
  <2> QED BY <2>1, <2>2, <2>3, <2>4
<1> QED BY <1>2, <1>5, <1>6 DEF Inv

LEMMA NextInv == Inv /\ [Next]_vars => Inv'
<1> SUFFICES ASSUME Inv, [Next]_vars PROVE Inv'
  OBVIOUS
<1>1. ASSUME NEW f \in Fns, Schedule(f) PROVE Inv'
  BY <1>1, ReusedStep, AllocatedStep, QuietStep DEF Schedule
<1>2. CASE Run
  BY <1>2, RecycleStep, QuietStep DEF Run
<1>3. CASE UNCHANGED vars
  BY <1>3, QuietStep
<1> QED BY <1>1, <1>2, <1>3 DEF Next

LEMMA SpecInv == Spec => []Inv
BY InitInv, NextInv, PTL DEF Spec

(* The variables of Schedule.cpp keep their types: in particular sCount    *)
(* never passes SCHEDULED_FN_MAX_COUNT.                                    *)
THEOREM TypeCorrect == Spec => []TypeOK
BY SpecInv, PTL DEF Inv

(* The queue and the list of unused nodes of Schedule.cpp stay well formed *)
(* and share every allocated node between them, however schedule_function()*)
(* interrupts run_scheduled_functions().                                   *)
THEOREM ListsCorrect == Spec => []ListsOK
BY SpecInv, PTL DEF Inv

(* A run that found a non-empty queue never calls a function that was      *)
(* scheduled after the run began.                                          *)
THEOREM BoundedRunCorrect == Spec => []BoundedRun
<1>1. Inv => BoundedRun
  <2> SUFFICES ASSUME Inv, pc = "call", stop # Null PROVE sFirst \notin fresh
    BY DEF BoundedRun
  <2>1. PICK k \in 1..Len(order) : \A i \in 1..k : order[i] \notin fresh
    BY DEF Inv, RunInv, StopQueued
  <2>2. sFirst = order[1] /\ 1 \in 1..k
    BY <2>1 DEF Inv, ListsOK, Linked
  <2> QED BY <2>1, <2>2
<1> QED BY <1>1, SpecInv, PTL

----------------------------------------------------------------------------
(* The refinement: the linked lists implement the bounded FIFO of FnQueue. *)
Pending == [i \in 1..Len(order) |-> mFunc[order[i]]]
Calling == IF pc = "call" THEN mFunc[sFirst] ELSE NoFn

LEMMA PendingFacts ==
  ASSUME Inv
  PROVE  /\ Pending \in Seq(Fns \cup {NoFn}) /\ Len(Pending) = Len(order)
         /\ Len(order) \in Nat /\ Len(spare) \in Nat
         /\ Len(order) + Len(spare) = sCount /\ sCount \in 0..MaxCount
         /\ \A i \in 1..Len(order) : order[i] \in Nodes /\ Pending[i] = mFunc[order[i]]
<1>1. order \in Seq(Nodes) /\ spare \in Seq(Nodes) /\ mFunc \in [Nodes -> Fns \cup {NoFn}]
  BY DEF Inv, TypeOK
<1>2. \A i \in 1..Len(order) : order[i] \in Nodes
  BY <1>1
<1>3. Len(order) + Len(spare) = sCount /\ sCount \in 0..MaxCount
  BY DEF Inv, TypeOK, ListsOK, NoNodeLost
<1> QED BY <1>1, <1>2, <1>3 DEF Pending

(* The function being called is that of the first node.                    *)
LEMMA CallingFacts ==
  ASSUME Inv, pc = "call"
  PROVE  /\ Len(order) > 0 /\ sFirst = order[1] /\ sFirst \in Nodes
         /\ mFunc[sFirst] \in Fns /\ Calling = mFunc[sFirst]
<1>1. order \in Seq(Nodes) /\ order # <<>>
  BY DEF Inv, TypeOK, ListsOK
<1>2. Len(order) > 0 /\ order[1] \in Nodes
  BY <1>1
<1> QED BY <1>1, <1>2 DEF Inv, ListsOK, Linked, Calling

(* schedule_function() that finds a node is Accept.                        *)
LEMMA AcceptStep ==
  ASSUME Inv, NEW f \in Fns, NEW item \in Nodes, Link(item, f),
         Len(order) < MaxCount, \A i \in 1..Len(order) : order[i] # item
  PROVE  /\ Pending' = Append(Pending, f)
         /\ Calling' = Calling
<1>1. /\ order \in Seq(Nodes) /\ mFunc \in [Nodes -> Fns \cup {NoFn}]
      /\ order' = Append(order, item) /\ mFunc' = [mFunc EXCEPT ![item] = f] /\ pc' = pc
      /\ sFirst' = IF sFirst # Null THEN sFirst ELSE item
  BY DEF Inv, TypeOK, Link, run
<1>2. /\ Len(order') = Len(order) + 1 /\ Len(order) \in Nat
      /\ \A i \in 1..Len(order) : order'[i] = order[i] /\ order[i] \in Nodes
      /\ order'[Len(order) + 1] = item
  BY <1>1, AppendFacts
<1>3. Pending' = Append(Pending, f)
  <2>1. \A i \in 1..Len(order) : mFunc'[order'[i]] = Pending[i]
    BY <1>1, <1>2 DEF Pending
  <2>2. mFunc'[order'[Len(order) + 1]] = f
    BY <1>1, <1>2
  <2>3. /\ Pending' \in Seq(Fns \cup {NoFn}) /\ Len(Pending') = Len(order) + 1
        /\ \A i \in 1..Len(order) + 1 :
              Pending'[i] = IF i = Len(order) + 1 THEN f ELSE Pending[i]
    <3>1. \A i \in 1..Len(order) + 1 : mFunc'[order'[i]] \in Fns \cup {NoFn}
      BY <1>1, <1>2
    <3> QED BY <1>2, <2>1, <2>2, <3>1 DEF Pending
  <2>4. Pending \in Seq(Fns \cup {NoFn}) /\ Len(Pending) = Len(order)
    BY PendingFacts
  <2>5. /\ Append(Pending, f) \in Seq(Fns \cup {NoFn})
        /\ Len(Append(Pending, f)) = Len(order) + 1
        /\ \A i \in 1..Len(order) + 1 :
              Append(Pending, f)[i] = IF i = Len(order) + 1 THEN f ELSE Pending[i]
    <3> HIDE DEF Pending
    <3> QED BY <1>2, <2>4, AppendFacts
  <2> QED BY <2>3, <2>5, SeqEqual
<1>4. Calling' = Calling
  <2>1. CASE pc = "call"
    <3>1. Len(order) > 0 /\ sFirst = order[1] /\ sFirst \in Nodes
      BY <2>1, CallingFacts
    <3>2. sFirst # Null /\ sFirst # item
      BY <1>2, <3>1 DEF Nodes, Null
    <3> QED BY <1>1, <2>1, <3>1, <3>2 DEF Calling
  <2>2. CASE pc # "call"
    BY <1>1, <2>2 DEF Calling
  <2> QED BY <2>1, <2>2
<1> QED BY <1>3, <1>4

LEMMA ScheduleRefines ==
  ASSUME Inv, NEW f \in Fns, Schedule(f)
  PROVE  Queue!Next
<1> USE MaxCountAssumption
<1>1. CASE ScheduleReused(f)
  <2>1. sUnused # Null /\ Link(sUnused, f) /\ sUnused \in Nodes /\ verdict' = "accepted"
    BY <1>1 DEF ScheduleReused, Inv, TypeOK, Link
  <2>2. spare \in Seq(Nodes) /\ spare # <<>> /\ spare[1] = sUnused
    BY <2>1 DEF Inv, TypeOK, ListsOK, Linked
  <2>3. Len(spare) > 0 /\ 1 \in 1..Len(spare)
    BY <2>2
  <2>4. \A i \in 1..Len(order) : order[i] # sUnused
    BY <2>2, <2>3 DEF Inv, ListsOK, NoNodeLost
  <2>5. Len(order) < MaxCount
    BY <2>3, PendingFacts
  <2>6. Pending' = Append(Pending, f) /\ Calling' = Calling
    BY <2>1, <2>4, <2>5, AcceptStep
  <2>7. Queue!Accept(f)
    BY <2>1, <2>5, <2>6, PendingFacts DEF Queue!Accept, Pending, Calling
  <2> QED BY <2>7 DEF Queue!Next
<1>2. CASE ScheduleAllocated(f)
  <2>1. sCount < MaxCount /\ Link(sCount + 1, f) /\ verdict' = "accepted"
    BY <1>2 DEF ScheduleAllocated, MayAllocate, Link
  <2>2. sCount + 1 \in Nodes /\ Len(order) < MaxCount
    BY <2>1, PendingFacts DEF Nodes
  <2>3. \A i \in 1..Len(order) : order[i] # sCount + 1
    <3>1. \A i \in 1..Len(order) : order[i] <= sCount
      BY DEF Inv, ListsOK, NoNodeLost
    <3> QED BY <3>1, PendingFacts
  <2>4. Pending' = Append(Pending, f) /\ Calling' = Calling
    BY <2>1, <2>2, <2>3, AcceptStep
  <2>5. Queue!Accept(f)
    BY <2>1, <2>2, <2>4, PendingFacts DEF Queue!Accept, Pending, Calling
  <2> QED BY <2>5 DEF Queue!Next
<1>3. CASE ScheduleRefused
  <2>1. /\ UNCHANGED <<order, mFunc, pc, sFirst>> /\ sUnused = Null
        /\ verdict' = IF MayAllocate THEN "no_memory" ELSE "full"
    BY <1>3 DEF ScheduleRefused, lists, run, history
  <2>2. Pending' = Pending /\ Calling' = Calling
    BY <2>1 DEF Pending, Calling
  <2>3. Len(spare) = 0
    <3>1. spare \in Seq(Nodes) /\ (spare # <<>> => spare[1] = Null)
      BY <2>1 DEF Inv, TypeOK, ListsOK, Linked
    <3>2. spare # <<>> => spare[1] \in Nodes
      BY <3>1
    <3> QED BY <3>1, <3>2 DEF Nodes, Null
  <2>4. Queue!RefuseNoMemory \/ Queue!RefuseFull
    BY <2>1, <2>2, <2>3, PendingFacts
    DEF Queue!RefuseNoMemory, Queue!RefuseFull, MayAllocate, Pending, Calling
  <2> QED BY <2>4 DEF Queue!Next
<1> QED BY <1>1, <1>2, <1>3 DEF Schedule

(* The steps of run_scheduled_functions(): a call is Call, its return with *)
(* the recycling of the node is Return, the others are invisible.          *)
LEMMA RunRefines ==
  ASSUME Inv, Run
  PROVE  Queue!Next \/ UNCHANGED Queue!vars
<1>1. CASE RunStart \/ RunEnd
  <2>1. UNCHANGED <<order, mFunc, sFirst, verdict>> /\ pc # "call" /\ pc' # "call"
    BY <1>1 DEF RunStart, RunEnd, lists
  <2> QED BY <2>1 DEF Queue!vars
<1>2. CASE RunCall
  <2>1. /\ UNCHANGED <<order, mFunc, sFirst, verdict>> /\ pc = "test" /\ pc' = "call"
        /\ sFirst # Null
    BY <1>2 DEF RunCall, lists, history
  <2>2. order \in Seq(Nodes) /\ order # <<>> /\ sFirst = order[1]
    BY <2>1 DEF Inv, TypeOK, ListsOK, Linked
  <2>3. Pending # <<>> /\ Head(Pending) = mFunc[sFirst]
    <3>1. Len(order) > 0
      BY <2>2
    <3>2. Pending \in Seq(Fns \cup {NoFn}) /\ Len(Pending) > 0 /\ Pending[1] = mFunc[sFirst]
      BY <2>2, <3>1, PendingFacts
    <3> HIDE DEF Pending
    <3> QED BY <3>2
  <2>4. Pending' = Pending
    BY <2>1 DEF Pending
  <2>5. Queue!Call
    BY <2>1, <2>3, <2>4 DEF Queue!Call, Pending
  <2> QED BY <2>5 DEF Queue!Next
<1>3. CASE RunRecycle
  <2>1. /\ pc = "call" /\ pc' = "test" /\ order' = Tail(order) /\ verdict' = verdict
        /\ mFunc' = [mFunc EXCEPT ![sFirst] = NoFn]
    BY <1>3 DEF RunRecycle
  <2>2. /\ Len(order) > 0 /\ sFirst = order[1] /\ sFirst \in Nodes
        /\ mFunc[sFirst] # NoFn
    BY <2>1, CallingFacts, NoFnAssumption
  <2>3. order \in Seq(Nodes) /\ mFunc \in [Nodes -> Fns \cup {NoFn}] /\ Distinct(order)
    BY DEF Inv, TypeOK, ListsOK, NoNodeLost
  <2>4. /\ Len(order) \in Nat /\ Len(order') = Len(order) - 1
        /\ \A i \in 1..Len(order) - 1 : order'[i] = order[i + 1]
        /\ \A i \in 1..Len(order) : order[i] \in Nodes
    BY <2>1, <2>2, <2>3, TailFacts
  <2>5. \A i \in 1..Len(order) - 1 : mFunc'[order'[i]] = mFunc[order[i + 1]]
    <3>1. \A i \in 1..Len(order) - 1 : order[i + 1] # sFirst
      BY <2>2, <2>3, <2>4 DEF Distinct
    <3> QED BY <2>1, <2>3, <2>4, <3>1
  <2>6. /\ Pending' \in Seq(Fns \cup {NoFn}) /\ Len(Pending') = Len(order) - 1
        /\ \A i \in 1..Len(order) - 1 : Pending'[i] = Pending[i + 1]
    <3>1. \A i \in 1..Len(order) - 1 : mFunc'[order'[i]] \in Fns \cup {NoFn}
      BY <2>3, <2>4, <2>5
    <3> QED BY <2>4, <2>5, <3>1 DEF Pending
  <2>7. Pending \in Seq(Fns \cup {NoFn}) /\ Len(Pending) = Len(order) /\ Pending # <<>>
    BY <2>2, PendingFacts
  <2>8. /\ Tail(Pending) \in Seq(Fns \cup {NoFn}) /\ Len(Tail(Pending)) = Len(order) - 1
        /\ \A i \in 1..Len(order) - 1 : Tail(Pending)[i] = Pending[i + 1]
    <3> HIDE DEF Pending
    <3> QED BY <2>7, TailFacts
  <2>9. Pending' = Tail(Pending)
    BY <2>6, <2>8, SeqEqual
  <2>10. Queue!Return
    BY <2>1, <2>2, <2>9 DEF Queue!Return, Pending
  <2> QED BY <2>10 DEF Queue!Next
<1> QED BY <1>1, <1>2, <1>3 DEF Run

(* schedule_function() and run_scheduled_functions() on their linked lists *)
(* implement the bounded FIFO of FnQueue, for every SCHEDULED_FN_MAX_COUNT *)
(* and whatever interrupts the run: functions are called in the order they *)
(* were accepted in, each once, and one is refused as "full" only when     *)
(* that many are waiting.                                                  *)
THEOREM QueueRefined == Spec => Queue!SafeSpec
<1>1. Init => Queue!Init
  <2> SUFFICES ASSUME Init PROVE Queue!Init
    OBVIOUS
  <2>1. order = <<>> /\ Len(order) = 0 /\ pc = "idle" /\ verdict = "accepted"
    BY DEF Init
  <2>2. [i \in 1..Len(order) |-> mFunc[order[i]]] = <<>>
    BY <2>1
  <2> QED BY <2>1, <2>2 DEF Queue!Init
<1>2. Inv /\ [Next]_vars => [Queue!Next]_(Queue!vars)
  <2> SUFFICES ASSUME Inv, [Next]_vars PROVE Queue!Next \/ UNCHANGED Queue!vars
    OBVIOUS
  <2>1. CASE UNCHANGED vars
    BY <2>1 DEF vars, lists, run, history, Queue!vars
  <2>2. ASSUME NEW f \in Fns, Schedule(f) PROVE Queue!Next
    BY <2>2, ScheduleRefines
  <2>3. CASE Run
    BY <2>3, RunRefines
  <2> QED BY <2>1, <2>2, <2>3 DEF Next
<1> QED BY <1>1, <1>2, SpecInv, PTL DEF Spec, Queue!SafeSpec
=============================================================================
