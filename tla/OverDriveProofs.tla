--------------------------- MODULE OverDriveProofs ---------------------------
(***************************************************************************)
(* Proofs about the two parts of an OverDrive check, the slots it waits    *)
(* for (OverDriveGate) and what coalescing and the two caches make of its  *)
(* answer (LibraryCheck), for every set of searches, callers, books and    *)
(* queries and every setting of the limits and lifetimes.                  *)
(*                                                                         *)
(* For the gate the argument is made once, for one semaphore with the set  *)
(* H of its holders and the set W of its waiters (SemaphoreInv), as one    *)
(* lemma per operation; the two semaphores are two instances of it.        *)
(***************************************************************************)
EXTENDS OverDriveGate, LibraryCheck, FiniteSetTheorems, SequenceTheorems, TLAPS

-----------------------------------------------------------------------------
(* The gate *)

SemaphoreInv(s, H, W, size) ==
  /\ s \in Semaphore
  /\ IsFiniteSet(H)
  /\ s.cur = Cardinality(H)
  /\ s.cur <= size
  /\ \A i \in 1..Len(s.waiters) : s.waiters[i] \in W
  /\ \A i, j \in 1..Len(s.waiters) : s.waiters[i] = s.waiters[j] => i = j
  /\ s.waiters # <<>> => s.cur = size

OdWaiters == {c \in Checks : at[c] = "waitOd"}

SearchWaiters(s) == {c \in Checks : Owner[c] = s /\ at[c] = "waitSearch"}

\* The inductive invariant: the counters are the holders, nobody queues twice or
\* while a slot is free, and the queues hold only those who are waiting.
GateInv ==
  /\ GateTypeOK
  /\ SemaphoreInv(odSem, OdHolders, OdWaiters, OdConcurrency)
  /\ \A s \in Searches :
       SemaphoreInv(searchSem[s], SearchHolders(s), SearchWaiters(s), PerSearch)

-----------------------------------------------------------------------------

\* The clamp of NewSearchHandler leaves a ceiling between 1 and the global limit.
LEMMA PerSearchRange == PerSearch \in Nat /\ 0 < PerSearch /\ PerSearch <= OdConcurrency
  BY GateAssumption DEF PerSearch

\* A semaphore with a free slot and no queue is taken.
LEMMA TakeKeeps ==
  ASSUME NEW s, NEW H, NEW W, NEW size \in Nat, NEW c,
         SemaphoreInv(s, H, W, size), Free(s, size), c \notin H
  PROVE  SemaphoreInv(Take(s), H \union {c}, W, size)
<1>1. /\ IsFiniteSet(H \union {c})
      /\ Cardinality(H \union {c}) = s.cur + 1
  BY FS_AddElement DEF SemaphoreInv
<1>2. /\ Take(s) \in Semaphore
      /\ Take(s).cur = s.cur + 1
      /\ Take(s).waiters = <<>>
  BY DEF Take, Free, SemaphoreInv, Semaphore
<1> QED
  BY <1>1, <1>2 DEF SemaphoreInv, Free, Semaphore

\* A new waiter queues only when no slot is free.
LEMMA EnqueueKeeps ==
  ASSUME NEW s, NEW H, NEW W, NEW size \in Nat, NEW c \in Checks,
         SemaphoreInv(s, H, W, size), ~Free(s, size), c \notin W
  PROVE  SemaphoreInv(Enqueue(s, c), H, W \union {c}, size)
<1>1. /\ Enqueue(s, c) \in Semaphore
      /\ Enqueue(s, c).cur = s.cur
      /\ Enqueue(s, c).waiters = Append(s.waiters, c)
  BY DEF Enqueue, SemaphoreInv, Semaphore
<1>2. s.waiters \in Seq(Checks)
  BY DEF SemaphoreInv, Semaphore
<1>3. s.cur = size
  BY DEF SemaphoreInv, Semaphore, Free
<1>4. /\ Len(Append(s.waiters, c)) = Len(s.waiters) + 1
      /\ \A i \in 1..Len(s.waiters) : Append(s.waiters, c)[i] = s.waiters[i]
      /\ Append(s.waiters, c)[Len(s.waiters) + 1] = c
  BY <1>2
<1>5. \A i \in 1..Len(Append(s.waiters, c)) : Append(s.waiters, c)[i] \in W \union {c}
  BY <1>2, <1>4 DEF SemaphoreInv
<1>6. \A i, j \in 1..Len(Append(s.waiters, c)) :
        Append(s.waiters, c)[i] = Append(s.waiters, c)[j] => i = j
  BY <1>2, <1>4 DEF SemaphoreInv
<1> QED
  BY <1>1, <1>3, <1>5, <1>6 DEF SemaphoreInv

\* A release hands the slot to the first waiter, or frees it.
LEMMA ReleaseKeeps ==
  ASSUME NEW s, NEW H, NEW W, NEW size \in Nat, NEW c \in H,
         SemaphoreInv(s, H, W, size), H \intersect W = {}
  PROVE  SemaphoreInv(Release(s), (H \ {c}) \union Next1(s), W \ Next1(s), size)
<1>1. /\ IsFiniteSet(H \ {c})
      /\ Cardinality(H \ {c}) = s.cur - 1
      /\ s.cur \in Nat
  BY FS_RemoveElement DEF SemaphoreInv, Semaphore
<1>2. s.cur # 0
  BY FS_EmptySet DEF SemaphoreInv
<1>3. CASE s.waiters = <<>>
  <2>1. /\ Release(s) \in Semaphore
        /\ Release(s).cur = s.cur - 1
        /\ Release(s).waiters = <<>>
    BY <1>1, <1>2, <1>3 DEF Release, SemaphoreInv, Semaphore
  <2>2. Next1(s) = {}
    BY <1>3 DEF Next1
  <2> QED
    BY <1>1, <2>1, <2>2 DEF SemaphoreInv
<1>4. CASE s.waiters # <<>>
  <2> DEFINE h == Head(s.waiters)
  <2>1. s.waiters \in Seq(Checks) /\ Len(s.waiters) >= 1 /\ h = s.waiters[1]
    BY <1>4 DEF SemaphoreInv, Semaphore
  <2>2. h \in W /\ h \notin H
    BY <2>1 DEF SemaphoreInv
  <2>3. /\ Release(s) \in Semaphore
        /\ Release(s).cur = s.cur
        /\ Release(s).waiters = Tail(s.waiters)
    BY <1>4, <2>1 DEF Release, SemaphoreInv, Semaphore
  <2>4. Next1(s) = {h}
    BY <1>4 DEF Next1
  <2>5. /\ Len(Tail(s.waiters)) = Len(s.waiters) - 1
        /\ \A i \in 1..Len(Tail(s.waiters)) : Tail(s.waiters)[i] = s.waiters[i + 1]
    BY <2>1
  <2>6. /\ IsFiniteSet((H \ {c}) \union {h})
        /\ Cardinality((H \ {c}) \union {h}) = s.cur
    <3> DEFINE rest == H \ {c}
    <3>1. h \notin rest /\ IsFiniteSet(rest) /\ Cardinality(rest) = s.cur - 1
      BY <1>1, <2>2
    <3>2. IsFiniteSet(rest \union {h}) /\ Cardinality(rest \union {h}) = Cardinality(rest) + 1
      <4> HIDE DEF h, rest
      <4> QED  BY <3>1, FS_AddElement
    <3> QED
      BY <1>1, <3>1, <3>2
  <2>7. \A i \in 1..Len(Tail(s.waiters)) : Tail(s.waiters)[i] \in W \ {h}
    BY <2>1, <2>5 DEF SemaphoreInv
  <2>8. \A i, j \in 1..Len(Tail(s.waiters)) :
          Tail(s.waiters)[i] = Tail(s.waiters)[j] => i = j
    BY <2>1, <2>5 DEF SemaphoreInv
  <2> QED
    BY <1>4, <2>3, <2>4, <2>6, <2>7, <2>8 DEF SemaphoreInv
<1> QED
  BY <1>3, <1>4

\* A waiter whose context ended leaves the queue from any position.
LEMMA WithdrawKeeps ==
  ASSUME NEW s, NEW H, NEW W, NEW size \in Nat, NEW k \in 1..Len(s.waiters),
         SemaphoreInv(s, H, W, size)
  PROVE  SemaphoreInv(Withdraw(s, k), H, W \ {s.waiters[k]}, size)
<1> DEFINE q == s.waiters
           r == [i \in 1..(Len(q) - 1) |-> IF i < k THEN q[i] ELSE q[i + 1]]
<1>1. q \in Seq(Checks) /\ Len(q) \in Nat /\ Len(q) >= 1 /\ k \in Nat
  BY DEF SemaphoreInv, Semaphore
<1>2. \A i \in 1..(Len(q) - 1) : r[i] \in Checks
  BY <1>1
<1>3. r \in Seq(Checks) /\ Len(r) = Len(q) - 1
  BY <1>1, <1>2, IsASeq
<1>4. /\ Withdraw(s, k) \in Semaphore
      /\ Withdraw(s, k).cur = s.cur
      /\ Withdraw(s, k).waiters = r
  BY <1>3 DEF Withdraw, SemaphoreInv, Semaphore
<1>5. \A i \in 1..Len(r) : r[i] \in W \ {q[k]}
  BY <1>1, <1>3 DEF SemaphoreInv
<1>6. \A i, j \in 1..Len(r) : r[i] = r[j] => i = j
  BY <1>1, <1>3 DEF SemaphoreInv
<1>7. q # <<>>
  BY <1>1
<1> QED
  BY <1>4, <1>5, <1>6, <1>7 DEF SemaphoreInv

-----------------------------------------------------------------------------

\* Nobody holds or waits for a slot at first.
LEMMA InitGate == GateInit => GateInv
<1> SUFFICES ASSUME GateInit PROVE GateInv
  OBVIOUS
<1>1. NewSemaphore \in Semaphore /\ NewSemaphore.cur = 0 /\ NewSemaphore.waiters = <<>>
  BY DEF NewSemaphore, Semaphore
<1>2. GateTypeOK
  BY <1>1 DEF GateInit, GateTypeOK, Place
<1>3. OdHolders = {} /\ \A s \in Searches : SearchHolders(s) = {}
  BY DEF GateInit, OdHolders, SearchHolders
<1>4. \A W, size : size \in Nat => SemaphoreInv(NewSemaphore, {}, W, size)
  BY <1>1, FS_EmptySet DEF SemaphoreInv
<1> QED
  BY <1>2, <1>3, <1>4, PerSearchRange, GateAssumption DEF GateInit, GateInv

\* One case per action: what the step does to holders and waiters follows from where
\* c was and where it goes, and the lemma of the semaphore operation does the rest.
LEMMA StepGate ==
  ASSUME GateInv, NEW c \in Checks, Step(c)
  PROVE  GateInv'
<1> DEFINE s0 == Owner[c]
<1> USE DEF Place
<1>0. /\ s0 \in Searches /\ PerSearch \in Nat /\ OdConcurrency \in Nat
      /\ at \in [Checks -> Place] /\ odSem \in Semaphore
      /\ searchSem \in [Searches -> Semaphore] /\ expired \subseteq Checks
      /\ Owner \in [Checks -> Searches]
  BY GateAssumption, PerSearchRange DEF GateInv, GateTypeOK
<1>a. SemaphoreInv(odSem, OdHolders, OdWaiters, OdConcurrency)
  BY DEF GateInv
<1>b. \A s \in Searches : SemaphoreInv(searchSem[s], SearchHolders(s), SearchWaiters(s), PerSearch)
  BY DEF GateInv
<1>1. CASE AskSearchRefused(c)
  <2>1. at' = [at EXCEPT ![c] = "done"] /\ at[c] = "start"
        /\ UNCHANGED <<odSem, searchSem, expired>>
    BY <1>1 DEF AskSearchRefused, Move
  <2>2. OdHolders' = OdHolders /\ OdWaiters' = OdWaiters
    BY <1>0, <2>1 DEF OdHolders, OdWaiters
  <2>3. \A s \in Searches : SearchHolders(s)' = SearchHolders(s) /\ SearchWaiters(s)' = SearchWaiters(s)
    BY <1>0, <2>1 DEF SearchHolders, SearchWaiters
  <2>4. GateTypeOK'
    BY <1>0, <2>1 DEF GateTypeOK
  <2> QED
    BY <1>a, <1>b, <2>1, <2>2, <2>3, <2>4 DEF GateInv
<1>2. CASE AskSearchGranted(c)
  <2>1. /\ at' = [at EXCEPT ![c] = "hasSearch"] /\ at[c] = "start"
        /\ searchSem' = [searchSem EXCEPT ![s0] = Take(searchSem[s0])]
        /\ Free(searchSem[s0], PerSearch)
        /\ UNCHANGED <<odSem, expired>>
    BY <1>2 DEF AskSearchGranted, Move
  <2>2. OdHolders' = OdHolders /\ OdWaiters' = OdWaiters
    BY <1>0, <2>1 DEF OdHolders, OdWaiters
  <2>3. /\ SearchHolders(s0)' = SearchHolders(s0) \union {c}
        /\ c \notin SearchHolders(s0)
        /\ SearchWaiters(s0)' = SearchWaiters(s0)
    BY <1>0, <2>1 DEF SearchHolders, SearchWaiters
  <2>4. \A s \in Searches \ {s0} : SearchHolders(s)' = SearchHolders(s) /\ SearchWaiters(s)' = SearchWaiters(s)
    BY <1>0, <2>1 DEF SearchHolders, SearchWaiters
  <2>5. SemaphoreInv(Take(searchSem[s0]), SearchHolders(s0)', SearchWaiters(s0)', PerSearch)
    BY <1>0, <1>b, <2>1, <2>3, TakeKeeps
  <2>6. GateTypeOK'
    BY <1>0, <2>1, <2>5 DEF GateTypeOK, SemaphoreInv
  <2> QED
    BY <1>0, <1>a, <1>b, <2>1, <2>2, <2>3, <2>4, <2>5, <2>6 DEF GateInv
<1>3. CASE AskSearchQueued(c)
  <2>1. /\ at' = [at EXCEPT ![c] = "waitSearch"] /\ at[c] = "start"
        /\ searchSem' = [searchSem EXCEPT ![s0] = Enqueue(searchSem[s0], c)]
        /\ ~Free(searchSem[s0], PerSearch)
        /\ UNCHANGED <<odSem, expired>>
    BY <1>3 DEF AskSearchQueued, Move
  <2>2. OdHolders' = OdHolders /\ OdWaiters' = OdWaiters
    BY <1>0, <2>1 DEF OdHolders, OdWaiters
  <2>3. /\ SearchHolders(s0)' = SearchHolders(s0)
        /\ SearchWaiters(s0)' = SearchWaiters(s0) \union {c}
        /\ c \notin SearchWaiters(s0)
    BY <1>0, <2>1 DEF SearchHolders, SearchWaiters
  <2>4. \A s \in Searches \ {s0} : SearchHolders(s)' = SearchHolders(s) /\ SearchWaiters(s)' = SearchWaiters(s)
    BY <1>0, <2>1 DEF SearchHolders, SearchWaiters
  <2>5. SemaphoreInv(Enqueue(searchSem[s0], c), SearchHolders(s0)', SearchWaiters(s0)', PerSearch)
    BY <1>0, <1>b, <2>1, <2>3, EnqueueKeeps
  <2>6. GateTypeOK'
    BY <1>0, <2>1, <2>5 DEF GateTypeOK, SemaphoreInv
  <2> QED
    BY <1>0, <1>a, <1>b, <2>1, <2>2, <2>3, <2>4, <2>5, <2>6 DEF GateInv
<1>4. CASE GiveUpSearch(c)
  <2>0. PICK k \in 1..Len(searchSem[s0].waiters) :
          /\ searchSem[s0].waiters[k] = c
          /\ searchSem' = [searchSem EXCEPT ![s0] = Withdraw(searchSem[s0], k)]
    BY <1>4 DEF GiveUpSearch
  <2>1. /\ at' = [at EXCEPT ![c] = "done"] /\ at[c] = "waitSearch"
        /\ UNCHANGED <<odSem, expired>>
    BY <1>4 DEF GiveUpSearch, Move
  <2>2. OdHolders' = OdHolders /\ OdWaiters' = OdWaiters
    BY <1>0, <2>1 DEF OdHolders, OdWaiters
  <2>3. /\ SearchHolders(s0)' = SearchHolders(s0)
        /\ SearchWaiters(s0)' = SearchWaiters(s0) \ {c}
    BY <1>0, <2>1 DEF SearchHolders, SearchWaiters
  <2>4. \A s \in Searches \ {s0} : SearchHolders(s)' = SearchHolders(s) /\ SearchWaiters(s)' = SearchWaiters(s)
    BY <1>0, <2>1 DEF SearchHolders, SearchWaiters
  <2>5. SemaphoreInv(Withdraw(searchSem[s0], k), SearchHolders(s0)', SearchWaiters(s0)', PerSearch)
    BY <1>0, <1>b, <2>0, <2>3, WithdrawKeeps
  <2>6. GateTypeOK'
    BY <1>0, <2>0, <2>1, <2>5 DEF GateTypeOK, SemaphoreInv
  <2> QED
    BY <1>0, <1>a, <1>b, <2>0, <2>1, <2>2, <2>3, <2>4, <2>5, <2>6 DEF GateInv
<1>5. CASE AskOdRefused(c)
  <2>1. at' = [at EXCEPT ![c] = "leaving"] /\ at[c] = "hasSearch"
        /\ UNCHANGED <<odSem, searchSem, expired>>
    BY <1>5 DEF AskOdRefused, Move
  <2>2. OdHolders' = OdHolders /\ OdWaiters' = OdWaiters
    BY <1>0, <2>1 DEF OdHolders, OdWaiters
  <2>3. \A s \in Searches : SearchHolders(s)' = SearchHolders(s) /\ SearchWaiters(s)' = SearchWaiters(s)
    BY <1>0, <2>1 DEF SearchHolders, SearchWaiters
  <2>4. GateTypeOK'
    BY <1>0, <2>1 DEF GateTypeOK
  <2> QED
    BY <1>a, <1>b, <2>1, <2>2, <2>3, <2>4 DEF GateInv
<1>6. CASE AskOdGranted(c)
  <2>1. /\ at' = [at EXCEPT ![c] = "calling"] /\ at[c] = "hasSearch"
        /\ odSem' = Take(odSem) /\ Free(odSem, OdConcurrency)
        /\ UNCHANGED <<searchSem, expired>>
    BY <1>6 DEF AskOdGranted, Move
  <2>2. OdHolders' = OdHolders \union {c} /\ c \notin OdHolders /\ OdWaiters' = OdWaiters
    BY <1>0, <2>1 DEF OdHolders, OdWaiters
  <2>3. \A s \in Searches : SearchHolders(s)' = SearchHolders(s) /\ SearchWaiters(s)' = SearchWaiters(s)
    BY <1>0, <2>1 DEF SearchHolders, SearchWaiters
  <2>4. SemaphoreInv(odSem', OdHolders', OdWaiters', OdConcurrency)
    BY <1>0, <1>a, <2>1, <2>2, TakeKeeps
  <2>5. GateTypeOK'
    BY <1>0, <2>1, <2>4 DEF GateTypeOK, SemaphoreInv
  <2> QED
    BY <1>0, <1>b, <2>1, <2>3, <2>4, <2>5 DEF GateInv
<1>7. CASE AskOdQueued(c)
  <2>1. /\ at' = [at EXCEPT ![c] = "waitOd"] /\ at[c] = "hasSearch"
        /\ odSem' = Enqueue(odSem, c) /\ ~Free(odSem, OdConcurrency)
        /\ UNCHANGED <<searchSem, expired>>
    BY <1>7 DEF AskOdQueued, Move
  <2>2. OdHolders' = OdHolders /\ OdWaiters' = OdWaiters \union {c} /\ c \notin OdWaiters
    BY <1>0, <2>1 DEF OdHolders, OdWaiters
  <2>3. \A s \in Searches : SearchHolders(s)' = SearchHolders(s) /\ SearchWaiters(s)' = SearchWaiters(s)
    BY <1>0, <2>1 DEF SearchHolders, SearchWaiters
  <2>4. SemaphoreInv(odSem', OdHolders', OdWaiters', OdConcurrency)
    BY <1>0, <1>a, <2>1, <2>2, EnqueueKeeps
  <2>5. GateTypeOK'
    BY <1>0, <2>1, <2>4 DEF GateTypeOK, SemaphoreInv
  <2> QED
    BY <1>0, <1>b, <2>1, <2>3, <2>4, <2>5 DEF GateInv
<1>8. CASE GiveUpOd(c)
  <2>0. PICK k \in 1..Len(odSem.waiters) :
          odSem.waiters[k] = c /\ odSem' = Withdraw(odSem, k)
    BY <1>8 DEF GiveUpOd
  <2>1. /\ at' = [at EXCEPT ![c] = "leaving"] /\ at[c] = "waitOd"
        /\ UNCHANGED <<searchSem, expired>>
    BY <1>8 DEF GiveUpOd, Move
  <2>2. OdHolders' = OdHolders /\ OdWaiters' = OdWaiters \ {c}
    BY <1>0, <2>1 DEF OdHolders, OdWaiters
  <2>3. \A s \in Searches : SearchHolders(s)' = SearchHolders(s) /\ SearchWaiters(s)' = SearchWaiters(s)
    BY <1>0, <2>1 DEF SearchHolders, SearchWaiters
  <2>4. SemaphoreInv(odSem', OdHolders', OdWaiters', OdConcurrency)
    BY <1>0, <1>a, <2>0, <2>2, WithdrawKeeps
  <2>5. GateTypeOK'
    BY <1>0, <2>1, <2>4 DEF GateTypeOK, SemaphoreInv
  <2> QED
    BY <1>0, <1>b, <2>1, <2>3, <2>4, <2>5 DEF GateInv
<1>9. CASE ProceedOd(c)
  <2>1. at' = [at EXCEPT ![c] = "calling"] /\ at[c] = "wokenOd"
        /\ UNCHANGED <<odSem, searchSem, expired>>
    BY <1>9 DEF ProceedOd, Move
  <2>2. OdHolders' = OdHolders /\ OdWaiters' = OdWaiters
    BY <1>0, <2>1 DEF OdHolders, OdWaiters
  <2>3. \A s \in Searches : SearchHolders(s)' = SearchHolders(s) /\ SearchWaiters(s)' = SearchWaiters(s)
    BY <1>0, <2>1 DEF SearchHolders, SearchWaiters
  <2>4. GateTypeOK'
    BY <1>0, <2>1 DEF GateTypeOK
  <2> QED
    BY <1>a, <1>b, <2>1, <2>2, <2>3, <2>4 DEF GateInv
\* The two actions that release a global slot differ only in where c held it.
<1>10. CASE PassOnOd(c) \/ CallReturns(c)
  <2> DEFINE woken == Next1(odSem)
  <2>1. /\ at' = [x \in Checks |-> IF x = c THEN "leaving"
                                  ELSE IF x \in woken THEN "wokenOd" ELSE at[x]]
        /\ at[c] \in {"wokenOd", "calling"}
        /\ odSem' = Release(odSem)
        /\ UNCHANGED <<searchSem, expired>>
    BY <1>10 DEF PassOnOd, CallReturns, MoveAndWake
  <2>2. \A x \in woken : x \in OdWaiters
    BY <1>0, <1>a DEF Next1, SemaphoreInv, Semaphore
  <2>3. c \in OdHolders /\ OdHolders \intersect OdWaiters = {}
    BY <2>1 DEF OdHolders, OdWaiters
  <2>4. OdHolders' = (OdHolders \ {c}) \union woken /\ OdWaiters' = OdWaiters \ woken
    <3> HIDE DEF woken
    <3> QED  BY <1>0, <2>1, <2>2, <2>3 DEF OdHolders, OdWaiters
  <2>5. \A s \in Searches : SearchHolders(s)' = SearchHolders(s) /\ SearchWaiters(s)' = SearchWaiters(s)
    <3> HIDE DEF woken
    <3> QED  BY <1>0, <2>1, <2>2 DEF SearchHolders, SearchWaiters, OdWaiters
  <2>6. SemaphoreInv(odSem', OdHolders', OdWaiters', OdConcurrency)
    BY <1>0, <1>a, <2>1, <2>3, <2>4, ReleaseKeeps
  <2>7. GateTypeOK'
    <3> HIDE DEF woken
    <3> QED  BY <1>0, <2>1, <2>6 DEF GateTypeOK, SemaphoreInv
  <2> QED
    BY <1>0, <1>b, <2>1, <2>5, <2>6, <2>7 DEF GateInv
<1>11. CASE LeaveSearch(c)
  <2> DEFINE woken == Next1(searchSem[s0])
  <2>1. /\ at' = [x \in Checks |-> IF x = c THEN "done"
                                  ELSE IF x \in woken THEN "hasSearch" ELSE at[x]]
        /\ at[c] = "leaving"
        /\ searchSem' = [searchSem EXCEPT ![s0] = Release(searchSem[s0])]
        /\ UNCHANGED <<odSem, expired>>
    BY <1>11 DEF LeaveSearch, MoveAndWake
  <2>2. \A x \in woken : x \in SearchWaiters(s0)
    BY <1>0, <1>b DEF Next1, SemaphoreInv, Semaphore
  <2>3. c \in SearchHolders(s0) /\ SearchHolders(s0) \intersect SearchWaiters(s0) = {}
    BY <2>1 DEF SearchHolders, SearchWaiters
  <2>4. /\ SearchHolders(s0)' = (SearchHolders(s0) \ {c}) \union woken
        /\ SearchWaiters(s0)' = SearchWaiters(s0) \ woken
    <3> HIDE DEF woken
    <3> QED  BY <1>0, <2>1, <2>2, <2>3 DEF SearchHolders, SearchWaiters
  <2>5. \A s \in Searches \ {s0} : SearchHolders(s)' = SearchHolders(s) /\ SearchWaiters(s)' = SearchWaiters(s)
    <3> HIDE DEF woken
    <3> QED  BY <1>0, <2>1, <2>2 DEF SearchHolders, SearchWaiters
  <2>6. OdHolders' = OdHolders /\ OdWaiters' = OdWaiters
    <3> HIDE DEF woken
    <3> QED  BY <1>0, <2>1, <2>2 DEF OdHolders, OdWaiters, SearchWaiters
  <2>7. SemaphoreInv(Release(searchSem[s0]), SearchHolders(s0)', SearchWaiters(s0)', PerSearch)
    BY <1>0, <1>b, <2>3, <2>4, ReleaseKeeps
  <2>8. GateTypeOK'
    <3> HIDE DEF woken
    <3> QED  BY <1>0, <2>1, <2>7 DEF GateTypeOK, SemaphoreInv
  <2> QED
    BY <1>0, <1>a, <1>b, <2>1, <2>5, <2>6, <2>7, <2>8 DEF GateInv
<1> QED
  BY <1>1, <1>2, <1>3, <1>4, <1>5, <1>6, <1>7, <1>8, <1>9, <1>10, <1>11 DEF Step

\* Every step, a context that ends included, keeps the invariant.
LEMMA NextGate == GateInv /\ [GateNext]_gateVars => GateInv'
<1> SUFFICES ASSUME GateInv, [GateNext]_gateVars PROVE GateInv'
  OBVIOUS
<1>1. CASE UNCHANGED gateVars \/ \E c \in Checks : Expire(c)
  <2>1. UNCHANGED <<at, odSem, searchSem>> /\ expired' \subseteq Checks
    BY <1>1 DEF gateVars, Expire, GateInv, GateTypeOK
  <2> QED
    BY <2>1 DEF GateInv, GateTypeOK, OdHolders, OdWaiters, SearchHolders, SearchWaiters
<1>2. CASE \E c \in Checks : Step(c)
  BY <1>2, StepGate
<1> QED
  BY <1>1, <1>2 DEF GateNext, Ended

-----------------------------------------------------------------------------

\* The inductive invariant holds in every reachable state of the gate.
THEOREM GateInvariant == GateSpec => []GateInv
  BY InitGate, NextGate, PTL DEF GateSpec

\* Every check is at a known place and the semaphores are well formed.
THEOREM GateTypeCorrect == GateSpec => []GateTypeOK
<1>1. GateInv => GateTypeOK
  BY DEF GateInv
<1> QED
  BY <1>1, GateInvariant, PTL

\* No early return of search.go:336-343 leaks a slot or releases one twice.
THEOREM SlotsAreConserved == GateSpec => []SlotsConserved
<1>1. GateInv => SlotsConserved
  BY DEF GateInv, SlotsConserved, SemaphoreInv
<1> QED
  BY <1>1, GateInvariant, PTL

\* The two configured limits hold for every number of searches and checks.
THEOREM LimitsHold == GateSpec => []WithinLimits
<1>1. GateInv => WithinLimits
  BY DEF GateInv, WithinLimits, SemaphoreInv
<1> QED
  BY <1>1, GateInvariant, PTL

\* Nobody queues while a slot is free.
THEOREM NoLostWakeup == GateSpec => []NoIdleSlot
<1>1. GateInv => NoIdleSlot
  BY DEF GateInv, NoIdleSlot, SemaphoreInv
<1> QED
  BY <1>1, GateInvariant, PTL

\* With a ceiling below the global limit one search alone never fills the gate: when
\* a check queues for a global slot, at least two searches hold slots.
THEOREM RoomForOthers == GateSpec => []HugeShelfLeavesRoom
<1>1. ASSUME GateInv PROVE HugeShelfLeavesRoom
  <2> SUFFICES ASSUME PerSearch < OdConcurrency, odSem.waiters # <<>>,
                      NEW s \in Searches, \A c \in OdHolders : Owner[c] = s
               PROVE  FALSE
    BY DEF HugeShelfLeavesRoom
  <2>1. Cardinality(OdHolders) = OdConcurrency
    BY <1>1 DEF GateInv, SemaphoreInv
  <2>2. OdHolders \subseteq SearchHolders(s)
    BY DEF OdHolders, SearchHolders
  <2>3. IsFiniteSet(SearchHolders(s)) /\ Cardinality(SearchHolders(s)) <= PerSearch
    BY <1>1 DEF GateInv, SemaphoreInv
  <2>4. /\ Cardinality(OdHolders) <= Cardinality(SearchHolders(s))
        /\ Cardinality(SearchHolders(s)) \in Nat
    BY <2>2, <2>3, FS_Subset, FS_CardinalityType
  <2> QED
    BY <2>1, <2>3, <2>4, PerSearchRange, GateAssumption
<1> QED
  BY <1>1, GateInvariant, PTL

-----------------------------------------------------------------------------
(* Coalescing and the age of cached answers *)

\* A caller that works has a book, and one whose book is enriched has its answer.
Booked ==
  /\ \A c \in Callers : pc[c] # "start" => book[c] \in Books
  /\ \A c \in enriching : Answered(c)

\* An answer was at most a library row's lifetime old when the caller got it; it waits for
\* the book's other libraries no longer than it may, and only then is it enriched.
AnswerAge ==
  \A c \in Callers :
    /\ Answered(c) /\ c \notin enriching =>
         since[c] - asof[c] <= LibraryTTL - 1 /\ clock - since[c] <= CheckTime
    /\ c \in enriching => since[c] - asof[c] <= (LibraryTTL - 1) + CheckTime

\* A row was written at most the enrichment after that.
RowAge ==
  \A b \in Books : row[b].at - row[b].asof <= (LibraryTTL - 1) + CheckTime + EnrichTime

CheckInv == TypeOK /\ Booked /\ Coalesced /\ AnswerAge /\ RowAge

USE CheckAssumption

-----------------------------------------------------------------------------

\* Nobody works at first and both caches are empty.
LEMMA InitCheck == Init => CheckInv
<1> SUFFICES ASSUME Init PROVE CheckInv
  OBVIOUS
<1>1. clock \in Nat
  BY DEF Init
<1>2. /\ lib \in [Queries -> 0..clock]
      /\ flight \in [Queries -> Callers \union {None}]
      /\ pc \in [Callers -> Pc]
      /\ book \in [Callers -> Books \union {None}]
      /\ left \subseteq Callers /\ enriching \subseteq Callers
      /\ asof \in [Callers -> 0..clock] /\ since \in [Callers -> 0..clock]
  BY <1>1 DEF Init, NoRow, Pc
<1>3. row \in [Books -> [at : 0..clock, asof : 0..clock, cut : BOOLEAN]]
  BY <1>1 DEF Init, NoRow, Empty
<1>4. Booked /\ Coalesced /\ AnswerAge
  BY DEF Init, Booked, Coalesced, AnswerAge, Answered, Key, Calling, First, Second, Returned
<1>5. RowAge
  BY DEF Init, RowAge, NoRow, Empty
<1> QED
  BY <1>1, <1>2, <1>3, <1>4, <1>5 DEF CheckInv, TypeOK

\* Typing, one action at a time.
LEMMA TypeStep == TypeOK /\ Booked /\ [Next]_vars => TypeOK' /\ Booked'
<1> SUFFICES ASSUME TypeOK, Booked, [Next]_vars PROVE TypeOK' /\ Booked'
  OBVIOUS
<1> USE DEF TypeOK, Booked, Answered, Pc, Calling, First, Second, Returned, vars
<1>1. CASE UNCHANGED vars
  BY <1>1
<1>2. ASSUME NEW c \in Callers, NEW b \in Books, Hit(c, b) PROVE TypeOK' /\ Booked'
  BY <1>2 DEF Hit
<1>3. ASSUME NEW c \in Callers, NEW b \in Books, Miss(c, b) PROVE TypeOK' /\ Booked'
  BY <1>3 DEF Miss
<1>4. ASSUME NEW c \in Callers, Lead(c) PROVE TypeOK' /\ Booked'
  <2>1. Key(c) \in Queries
    BY <1>4 DEF Lead, Key
  <2> QED
    BY <1>4, <2>1 DEF Lead
<1>5. ASSUME NEW c \in Callers, Follow(c) \/ AskFallback(c) \/ Retry(c)
      PROVE  TypeOK' /\ Booked'
  BY <1>5 DEF Follow, AskFallback, Retry
<1>6. ASSUME NEW c \in Callers, NEW how \in Returned, Land(c, how), pc[c] \in Calling
      PROVE  /\ flight' \in [Queries -> Callers \union {None}] /\ pc' \in [Callers -> Pc]
             /\ asof' \in [Callers -> 0..clock] /\ since' \in [Callers -> 0..clock]
             /\ \A x \in Callers : pc'[x] # "start" => pc[x] # "start"
             /\ \A x \in enriching : pc'[x] \in Returned
  <2>1. flight' \in [Queries -> Callers \union {None}]
    BY <1>6 DEF Land
  <2>2. pc' \in [Callers -> Pc]
    BY <1>6 DEF Land
  <2>3. clock \in 0..clock
    OBVIOUS
  <2>4. asof' \in [Callers -> 0..clock] /\ since' \in [Callers -> 0..clock]
    BY <1>6, <2>3 DEF Land
  <2>5. \A x \in Party(c) : pc[x] # "start"
    BY <1>6 DEF Party, Working
  <2>6. \A x \in Callers : pc'[x] # "start" => pc[x] # "start"
    BY <1>6, <2>5 DEF Land
  <2>7. \A x \in enriching : pc'[x] \in Returned
    BY <1>6 DEF Land
  <2> QED
    BY <2>1, <2>2, <2>4, <2>6, <2>7
<1>7. ASSUME NEW c \in Callers, Answer(c) PROVE TypeOK' /\ Booked'
  <2>1. lib' \in [Queries -> 0..clock]
    <3> DEFINE k == IF pc[c] \in First THEN Key(c) ELSE Fallback[book[c]]
    <3>1. lib' = [lib EXCEPT ![k] = clock] \/ lib' = lib
      BY <1>7 DEF Answer
    <3> HIDE DEF k
    <3> QED
      BY <3>1
  <2>2. Land(c, "answered") /\ pc[c] \in Calling
    BY <1>7 DEF Answer
  <2>3. /\ clock' = clock /\ book' = book /\ left' = left
        /\ enriching' = enriching /\ row' = row
    BY <1>7 DEF Answer
  <2>4. /\ flight' \in [Queries -> Callers \union {None}] /\ pc' \in [Callers -> Pc]
        /\ asof' \in [Callers -> 0..clock] /\ since' \in [Callers -> 0..clock]
        /\ \A x \in Callers : pc'[x] # "start" => pc[x] # "start"
        /\ \A x \in enriching : pc'[x] \in Returned
    BY <1>6, <2>2
  <2>5. TypeOK'
    BY <2>1, <2>3, <2>4
  <2> QED
    BY <2>3, <2>4, <2>5
<1>8. ASSUME NEW c \in Callers, Fail(c) \/ Cut(c) PROVE TypeOK' /\ Booked'
  BY <1>6, <1>8 DEF Fail, Cut
<1>9. ASSUME NEW c \in Callers, Store(c) PROVE TypeOK' /\ Booked'
  <2>1. book[c] \in Books /\ asof[c] \in 0..clock /\ clock \in 0..clock
    BY <1>9 DEF Store, Answered
  <2>2. row' \in [Books -> [at : 0..clock, asof : 0..clock, cut : BOOLEAN]]
    BY <1>9, <2>1 DEF Store
  <2> QED
    BY <1>9, <2>2 DEF Store, Leave
<1>10. ASSUME NEW c \in Callers, Drop(c) PROVE TypeOK' /\ Booked'
  BY <1>10 DEF Drop, Leave
<1>11. ASSUME NEW c \in Callers, ClientLeaves(c) PROVE TypeOK' /\ Booked'
  BY <1>11 DEF ClientLeaves, Working
<1>13. ASSUME NEW c \in Callers, AllChecked(c) PROVE TypeOK' /\ Booked'
  BY <1>13 DEF AllChecked
<1>12. CASE Advance
  <2>1. PICK k \in Nat : clock' = k /\ k = clock + 1
    BY <1>12 DEF Advance
  <2>2. \A x \in 0..clock : x \in 0..k
    BY <2>1
  <2>3. /\ lib \in [Queries -> 0..k]
        /\ asof \in [Callers -> 0..k] /\ since \in [Callers -> 0..k]
    BY <2>2
  <2>4. Empty \in [at : 0..k, asof : 0..k, cut : BOOLEAN]
    BY DEF Empty, NoRow
  <2>5. row \in [Books -> [at : 0..k, asof : 0..k, cut : BOOLEAN]]
    BY <2>2
  <2>6. row' \in [Books -> [at : 0..k, asof : 0..k, cut : BOOLEAN]]
    BY <1>12, <2>4, <2>5 DEF Advance
  <2>7. lib' \in [Queries -> 0..k]
    BY <1>12, <2>3 DEF Advance, NoRow
  <2> QED
    BY <1>12, <2>1, <2>3, <2>6, <2>7 DEF Advance
<1> QED
  BY <1>1, <1>2, <1>3, <1>4, <1>5, <1>7, <1>8, <1>9, <1>10, <1>11, <1>12, <1>13
     DEF Next, Begin, Check

\* Flights: led by one caller each, and nobody waits for a flight that is over.
LEMMA FlightStep ==
  TypeOK /\ Booked /\ Coalesced /\ [Next]_vars => Coalesced'
<1> SUFFICES ASSUME TypeOK, Booked, Coalesced, [Next]_vars PROVE Coalesced'
  OBVIOUS
<1> USE DEF TypeOK, Booked, Answered, Coalesced, Key, vars, Calling, First, Second, Returned
<1>1. CASE UNCHANGED vars \/ Advance \/ \E c \in Callers : ClientLeaves(c) \/ AllChecked(c)
  BY <1>1 DEF Advance, ClientLeaves, AllChecked
<1> DEFINE InFlight == Calling \union {"waiting"}
<1>2. ASSUME NEW c \in Callers, pc[c] \notin InFlight, pc'[c] \notin InFlight,
             flight' = flight,
             \A x \in Callers \ {c} : pc'[x] = pc[x] /\ book'[x] = book[x]
      PROVE  Coalesced'
  BY <1>2
<1>3. ASSUME NEW c \in Callers, Lead(c) PROVE Coalesced'
  BY <1>3 DEF Lead
<1>4. ASSUME NEW c \in Callers, Follow(c) \/ AskFallback(c) \/ Retry(c) PROVE Coalesced'
  BY <1>4 DEF Follow, AskFallback, Retry
<1>5. ASSUME NEW c \in Callers, Answer(c) \/ Fail(c) \/ Cut(c) PROVE Coalesced'
  <2>1. PICK how \in Returned : Land(c, how)
    BY <1>5 DEF Answer, Fail, Cut
  <2>2. pc[c] \in Calling /\ book' = book
    BY <1>5 DEF Answer, Fail, Cut
  <2>3. \A x \in Callers :
          IF x \in Party(c) THEN pc'[x] = how ELSE pc'[x] = pc[x]
    BY <2>1 DEF Land
  <2>4. \A x \in Callers :
          x \in Party(c) <=> (x = c \/ (pc[x] = "waiting" /\ Key(x) = Key(c)))
    BY DEF Party, Working
  <2>5. Key(c) \in Queries /\ flight[Key(c)] = c
    BY <2>2
  <2>6. \A k \in Queries : flight'[k] = IF k = Key(c) THEN None ELSE flight[k]
    BY <2>1, <2>5 DEF Land
  <2>7. \A k \in Queries : \A x \in Callers :
          flight'[k] = x <=> pc'[x] \in Calling /\ Key(x) = k
    BY <2>2, <2>3, <2>4, <2>5, <2>6
  <2>8. \A x \in Callers : pc'[x] = "waiting" => flight'[Key(x)] # None
    BY <2>2, <2>3, <2>4, <2>5, <2>6
  <2> QED
    BY <2>2, <2>7, <2>8
<1>6. ASSUME NEW c \in Callers, NEW b \in Books, Hit(c, b) \/ Miss(c, b) PROVE Coalesced'
  <2>1. pc[c] \notin InFlight /\ pc'[c] \notin InFlight
    BY <1>6 DEF Hit, Miss
  <2>2. /\ flight' = flight
        /\ \A x \in Callers \ {c} : pc'[x] = pc[x] /\ book'[x] = book[x]
    BY <1>6 DEF Hit, Miss
  <2> QED
    BY <1>2, <2>1, <2>2
<1>7. ASSUME NEW c \in Callers, Store(c) \/ Drop(c) PROVE Coalesced'
  <2>1. pc[c] \notin InFlight /\ pc'[c] \notin InFlight
    BY <1>7 DEF Store, Drop, Leave, Answered
  <2>2. /\ flight' = flight
        /\ \A x \in Callers \ {c} : pc'[x] = pc[x] /\ book'[x] = book[x]
    BY <1>7 DEF Store, Drop, Leave
  <2> QED
    BY <1>2, <2>1, <2>2
<1> QED
  BY <1>1, <1>3, <1>4, <1>5, <1>6, <1>7 DEF Next, Begin, Check

\* Ages: an answer comes from a live row or from the library itself, waits for the other
\* libraries, and is written while the enrichment lasts.
LEMMA AgeStep ==
  TypeOK /\ Booked /\ AnswerAge /\ RowAge /\ [Next]_vars => AnswerAge' /\ RowAge'
<1> SUFFICES ASSUME TypeOK, Booked, AnswerAge, RowAge, [Next]_vars
             PROVE  AnswerAge' /\ RowAge'
  OBVIOUS
<1> USE DEF Booked, AnswerAge, RowAge, Answered, Calling, First, Second, Returned
<1>0. /\ clock \in Nat
      /\ pc \in [Callers -> Pc] /\ asof \in [Callers -> 0..clock] /\ since \in [Callers -> 0..clock]
      /\ lib \in [Queries -> 0..clock] /\ enriching \subseteq Callers
  BY DEF TypeOK
<1>1. CASE UNCHANGED vars \/ \E c \in Callers : ClientLeaves(c)
  BY <1>1 DEF ClientLeaves, vars
<1>9. CASE Advance
  <2>1. RowAge'
    BY <1>9 DEF Advance, Empty, NoRow
  <2>2. \A c \in Callers : Answered(c) /\ c \notin enriching => clock' - since[c] <= CheckTime
    BY <1>0, <1>9 DEF Advance
  <2> QED
    BY <1>9, <2>1, <2>2 DEF Advance
<1>2. ASSUME NEW c \in Callers, NEW b \in Books, Hit(c, b) PROVE AnswerAge' /\ RowAge'
  <2>1. lib[Query[b]] \in Nat /\ clock - lib[Query[b]] <= LibraryTTL - 1
    BY <1>0, <1>2 DEF Hit, LibLive
  <2>2. asof'[c] = lib[Query[b]] /\ since'[c] = clock /\ c \notin enriching'
    BY <1>0, <1>2 DEF Hit
  <2>3. \A x \in Callers \ {c} : pc'[x] = pc[x] /\ asof'[x] = asof[x] /\ since'[x] = since[x]
    BY <1>0, <1>2 DEF Hit
  <2> QED
    BY <1>0, <1>2, <2>1, <2>2, <2>3 DEF Hit
<1>3. ASSUME NEW c \in Callers, NEW b \in Books, Miss(c, b) PROVE AnswerAge' /\ RowAge'
  BY <1>0, <1>3 DEF Miss
<1>4. ASSUME NEW c \in Callers, Lead(c) \/ Follow(c) \/ AskFallback(c) \/ Retry(c)
      PROVE  AnswerAge' /\ RowAge'
  BY <1>0, <1>4 DEF Lead, Follow, AskFallback, Retry
<1>5. ASSUME NEW c \in Callers, Answer(c) \/ Fail(c) \/ Cut(c) PROVE AnswerAge' /\ RowAge'
  <2>1. \A x \in Callers :
          \/ asof'[x] = clock /\ since'[x] = clock /\ ~Answered(x)
          \/ pc'[x] = pc[x] /\ asof'[x] = asof[x] /\ since'[x] = since[x]
    BY <1>5 DEF Answer, Fail, Cut, Land, Party
  <2>2. row' = row /\ clock' = clock /\ enriching' = enriching
    BY <1>5 DEF Answer, Fail, Cut
  <2>3. RowAge'
    BY <2>2
  <2> QED
    BY <1>0, <2>1, <2>2, <2>3
<1>6. ASSUME NEW c \in Callers, Leave(c), clock' = clock PROVE AnswerAge'
  BY <1>0, <1>6 DEF Leave
<1>10. ASSUME NEW c \in Callers, AllChecked(c) PROVE AnswerAge' /\ RowAge'
  <2>1. clock - asof[c] <= (LibraryTTL - 1) + CheckTime
    BY <1>0, <1>10 DEF AllChecked
  <2> QED
    BY <1>0, <1>10, <2>1 DEF AllChecked
<1>7. ASSUME NEW c \in Callers, Store(c) PROVE AnswerAge' /\ RowAge'
  <2>1. book[c] \in Books /\ asof[c] \in Nat /\ since[c] \in Nat
    BY <1>0, <1>7 DEF Store, Booked, TypeOK
  <2>2. clock - asof[c] <= (LibraryTTL - 1) + CheckTime + EnrichTime
    BY <1>0, <1>7, <2>1 DEF Store
  <2>3. row' = [row EXCEPT ![book[c]] = [at |-> clock, asof |-> asof[c],
                                          cut |-> pc[c] = "cut"]]
    BY <1>7 DEF Store
  <2>4. row \in [Books -> [at : 0..clock, asof : 0..clock, cut : BOOLEAN]]
    BY DEF TypeOK
  <2>5. RowAge'
    BY <2>1, <2>2, <2>3, <2>4
  <2> QED
    BY <1>6, <1>7, <2>5 DEF Store
<1>8. ASSUME NEW c \in Callers, Drop(c) PROVE AnswerAge' /\ RowAge'
  BY <1>6, <1>8 DEF Drop
<1> QED
  BY <1>1, <1>2, <1>3, <1>4, <1>5, <1>7, <1>8, <1>9, <1>10 DEF Next, Begin, Check

\* The parts together are inductive.
LEMMA NextCheck == CheckInv /\ [Next]_vars => CheckInv'
  BY TypeStep, FlightStep, AgeStep DEF CheckInv

-----------------------------------------------------------------------------

\* The inductive invariant holds in every reachable state.
THEOREM CheckInvariant == Spec => []CheckInv
  BY InitCheck, NextCheck, PTL DEF Spec

\* Every variable stays in its type.
THEOREM TypeCorrect == Spec => []TypeOK
<1>1. CheckInv => TypeOK
  BY DEF CheckInv
<1> QED
  BY <1>1, CheckInvariant, PTL

\* Checks of one query share one flight, and none waits for a flight that is over.
THEOREM OneFlight == Spec => []Coalesced
<1>1. CheckInv => Coalesced
  BY DEF CheckInv
<1> QED
  BY <1>1, CheckInvariant, PTL

\* What book_cache serves is at most as old as the two lifetimes, the wait for the book's
\* other libraries and the enrichment together.
THEOREM AnswersAge == Spec => []AgeBounded
<1>1. CheckInv => AgeBounded
  <2> SUFFICES ASSUME CheckInv, NEW b \in Books, RowLive(b)
               PROVE  clock - row[b].asof <= (LibraryTTL - 1) + CheckTime + EnrichTime + (BookTTL - 1)
    BY DEF AgeBounded
  <2>1. clock \in Nat /\ row[b].at \in Nat /\ row[b].asof \in Nat
    BY DEF CheckInv, TypeOK
  <2>2. row[b].at - row[b].asof <= (LibraryTTL - 1) + CheckTime + EnrichTime
    BY DEF CheckInv, RowAge
  <2>3. row[b].at > clock - BookTTL
    BY DEF RowLive
  <2> QED
    BY <2>1, <2>2, <2>3
<1> QED
  BY <1>1, CheckInvariant, PTL

=============================================================================
