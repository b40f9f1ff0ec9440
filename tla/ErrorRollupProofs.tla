-------------------------- MODULE ErrorRollupProofs --------------------------
(***************************************************************************)
(* The safety of the error rollup, for every set of categories, every      *)
(* capacity of a bucket and every number of errors.                        *)
(*                                                                         *)
(* No conjunct of the inductive invariant but BucketBounded is inductive   *)
(* alone: what a text tells of that the room had not heard, and what clear *)
(* wipes that no text told of, are differences.  They are natural numbers  *)
(* only because what the text counted is still in the buckets, and holds   *)
(* all the room has heard of.                                              *)
(* That the rollup is a ledger also needs TextTells.                       *)
(***************************************************************************)
EXTENDS ErrorRollup, TLAPS

\* What the text under way counts is still in the buckets until clear, whatever is
\* recorded in the meantime.
UnsentIsKept == \A c \in Categories : snap[c] <= Count(c)

\* What the room has heard of is still in the buckets, a text that is being sent tells
\* of it once more, and once sent it is all the text told of.
HeardIsKept ==
    \A c \in Categories :
        /\ heard[c] <= Count(c)
        /\ flush = "send" => heard[c] <= snap[c]
        /\ flush = "clear" => heard[c] = snap[c]

IInv == TypeOK /\ Accounting /\ BucketBounded /\ UnsentIsKept /\ HeardIsKept

\* What a category counts for is a natural number, zero once the map is empty.
LEMMA CountIsNat ==
    ASSUME samples \in [Categories -> Nat], truncated \in [Categories -> Nat]
    PROVE  \A c \in Categories : Count(c) \in Nat
  BY DEF Count

\* An empty map satisfies everything.
LEMMA InitInv == Init => IInv
<1> SUFFICES ASSUME Init PROVE IInv
  OBVIOUS
<1>1. \A c \in Categories :
          /\ samples[c] = 0 /\ truncated[c] = 0 /\ snap[c] = 0
          /\ heard[c] = 0 /\ recorded[c] = 0 /\ reported[c] = 0 /\ lost[c] = 0
  BY DEF Init, Zero
<1>2. TypeOK
  BY DEF Init, Zero, TypeOK
<1>3. Accounting
  <2> SUFFICES ASSUME NEW c \in Categories
               PROVE  recorded[c] = (Count(c) - heard[c]) + reported[c] + lost[c]
    BY DEF Accounting
  <2>1. Count(c) = 0
    BY <1>1 DEF Count
  <2>2. heard[c] = 0 /\ recorded[c] = 0 /\ reported[c] = 0 /\ lost[c] = 0
    BY <1>1
  <2> QED
    BY <2>1, <2>2
<1>4. BucketBounded
  <2> SUFFICES ASSUME NEW c \in Categories
               PROVE  samples[c] <= MaxPerBucket /\ (truncated[c] > 0 => samples[c] = MaxPerBucket)
    BY DEF BucketBounded
  <2>1. samples[c] = 0 /\ truncated[c] = 0
    BY <1>1
  <2> QED
    BY <2>1, CapAssumption
<1>5. UnsentIsKept
  <2> SUFFICES ASSUME NEW c \in Categories PROVE snap[c] <= Count(c)
    BY DEF UnsentIsKept
  <2>1. snap[c] = 0 /\ Count(c) = 0
    BY <1>1 DEF Count
  <2> QED
    BY <2>1
<1>6. HeardIsKept
  <2>1. flush # "send" /\ flush # "clear"
    BY DEF Init
  <2> SUFFICES ASSUME NEW c \in Categories PROVE heard[c] <= Count(c)
    BY <2>1 DEF HeardIsKept
  <2>2. heard[c] = 0 /\ Count(c) = 0
    BY <1>1 DEF Count
  <2> QED
    BY <2>2
<1> QED
  BY <1>2, <1>3, <1>4, <1>5, <1>6 DEF IInv

\* One more error in category c: the count of c, and of nothing else, goes up by
\* one, whether its text was kept or not.
LEMMA RecordCounts ==
    ASSUME TypeOK, NEW c \in Categories, Keep(c) \/ Overflow(c)
    PROVE  /\ samples' \in [Categories -> Nat]
           /\ truncated' \in [Categories -> Nat]
           /\ Count(c)' = Count(c) + 1
           /\ \A d \in Categories \ {c} : Count(d)' = Count(d)
<1>1. CASE Keep(c)
  BY <1>1 DEF Keep, Count, TypeOK
<1>2. CASE Overflow(c)
  BY <1>2 DEF Overflow, Count, TypeOK
<1> QED
  BY <1>1, <1>2

\* record keeps the invariant, also while a text is under way.
LEMMA RecordInv ==
    ASSUME IInv, NEW c \in Categories, Record(c)
    PROVE  IInv'
<1> USE DEF IInv
<1>1. /\ samples' \in [Categories -> Nat]
      /\ truncated' \in [Categories -> Nat]
      /\ Count(c)' = Count(c) + 1
      /\ \A d \in Categories \ {c} : Count(d)' = Count(d)
  BY RecordCounts DEF Record
<1>2. /\ recorded' = [recorded EXCEPT ![c] = @ + 1]
      /\ UNCHANGED <<flush, snap, heard, reported, lost>>
  BY DEF Record
<1>3. TypeOK'
  BY <1>1, <1>2 DEF TypeOK
<1>4. Accounting'
  <2> SUFFICES ASSUME NEW d \in Categories
               PROVE  recorded'[d] = (Count(d)' - heard'[d]) + reported'[d] + lost'[d]
    BY DEF Accounting
  <2>1. recorded[d] = (Count(d) - heard[d]) + reported[d] + lost[d] /\ Count(d) \in Nat
    BY CountIsNat DEF Accounting, TypeOK
  <2>2. CASE d = c
    BY <1>1, <1>2, <2>1, <2>2 DEF TypeOK
  <2>3. CASE d # c
    BY <1>1, <1>2, <2>1, <2>3 DEF TypeOK
  <2> QED
    BY <2>2, <2>3
<1>5. BucketBounded'
  <2>1. CASE Keep(c)
    BY <2>1, CapAssumption DEF Keep, BucketBounded, TypeOK
  <2>2. CASE Overflow(c)
    BY <2>2, CapAssumption DEF Overflow, BucketBounded, TypeOK
  <2> QED
    BY <2>1, <2>2 DEF Record
<1>6. UnsentIsKept'
  <2> SUFFICES ASSUME NEW d \in Categories PROVE snap'[d] <= Count(d)'
    BY DEF UnsentIsKept
  <2>1. snap[d] \in Nat /\ Count(d) \in Nat /\ snap[d] <= Count(d)
    BY CountIsNat DEF UnsentIsKept, TypeOK
  <2>2. Count(d)' = Count(d) \/ Count(d)' = Count(d) + 1
    BY <1>1
  <2> QED
    BY <1>2, <2>1, <2>2
<1>7. HeardIsKept'
  <2> SUFFICES ASSUME NEW d \in Categories
               PROVE  /\ heard'[d] <= Count(d)'
                      /\ flush' = "send" => heard'[d] <= snap'[d]
                      /\ flush' = "clear" => heard'[d] = snap'[d]
    BY DEF HeardIsKept
  <2>1. heard[d] \in Nat /\ Count(d) \in Nat
    BY CountIsNat DEF TypeOK
  <2>2. /\ heard[d] <= Count(d)
        /\ flush = "send" => heard[d] <= snap[d]
        /\ flush = "clear" => heard[d] = snap[d]
    BY DEF HeardIsKept
  <2>3. Count(d)' = Count(d) \/ Count(d)' = Count(d) + 1
    BY <1>1
  <2> QED
    BY <1>2, <2>1, <2>2, <2>3
<1> QED
  BY <1>3, <1>4, <1>5, <1>6, <1>7

\* A text that is made, or that does not get through, changes nothing else.
LEMMA UnheardInv ==
    ASSUME IInv, Snapshot \/ SendErr
    PROVE  IInv'
<1> USE DEF IInv
<1>1. UNCHANGED <<samples, truncated, heard, recorded, reported, lost>>
  BY DEF Snapshot, SendErr, buckets, history
<1>2. \A c \in Categories : Count(c)' = Count(c) /\ Count(c) \in Nat
  BY <1>1, CountIsNat DEF Count, TypeOK
<1>3. \/ flush' = "send" /\ snap' = [c \in Categories |-> Count(c)]
      \/ flush' = "wait" /\ snap' = Zero
  BY DEF Snapshot, SendErr
<1>4. TypeOK'
  BY <1>1, <1>2, <1>3 DEF TypeOK, Zero
<1>5. Accounting'
  BY <1>1, <1>2 DEF Accounting
<1>6. BucketBounded'
  BY <1>1 DEF BucketBounded
<1>7. UnsentIsKept'
  BY <1>2, <1>3 DEF UnsentIsKept, TypeOK, Zero
<1>8. HeardIsKept'
  BY <1>1, <1>2, <1>3 DEF HeardIsKept
<1> QED
  BY <1>4, <1>5, <1>6, <1>7, <1>8

\* A text the room gets tells of each error once, whether or not its answer arrives.
LEMMA ToldInv ==
    ASSUME IInv, SendOk \/ SendLost
    PROVE  IInv'
<1> USE DEF IInv
<1>1. /\ UNCHANGED <<samples, truncated, recorded, lost>>
      /\ heard' = snap
      /\ reported' = [c \in Categories |-> reported[c] + (snap[c] - heard[c])]
      /\ flush = "send"
  BY DEF SendOk, SendLost, Told, buckets
<1>2. \A c \in Categories : Count(c)' = Count(c) /\ Count(c) \in Nat
  BY <1>1, CountIsNat DEF Count, TypeOK
<1>3. \/ flush' = "clear" /\ snap' = snap
      \/ flush' = "wait" /\ snap' = Zero
  BY DEF SendOk, SendLost
<1>4. \A c \in Categories :
          /\ snap[c] \in Nat /\ heard[c] \in Nat /\ reported[c] \in Nat
          /\ heard[c] <= snap[c] /\ snap[c] <= Count(c)
  BY <1>1 DEF TypeOK, UnsentIsKept, HeardIsKept
<1>5. TypeOK'
  <2>1. ASSUME NEW c \in Categories PROVE reported[c] + (snap[c] - heard[c]) \in Nat
    BY <1>4
  <2>2. reported' \in [Categories -> Nat]
    BY <1>1, <2>1
  <2> QED
    BY <1>1, <1>3, <2>2 DEF TypeOK, Zero
<1>6. Accounting'
  <2> SUFFICES ASSUME NEW c \in Categories
               PROVE  recorded'[c] = (Count(c)' - heard'[c]) + reported'[c] + lost'[c]
    BY DEF Accounting
  <2>1. recorded[c] = (Count(c) - heard[c]) + reported[c] + lost[c]
    BY DEF Accounting
  <2>2. recorded[c] \in Nat /\ lost[c] \in Nat
    BY DEF TypeOK
  <2>3. reported'[c] = reported[c] + (snap[c] - heard[c]) /\ heard'[c] = snap[c]
    BY <1>1
  <2> QED
    BY <1>1, <1>2, <1>4, <2>1, <2>2, <2>3
<1>7. BucketBounded'
  BY <1>1 DEF BucketBounded
<1>8. UnsentIsKept'
  BY <1>2, <1>3, <1>4 DEF UnsentIsKept, Zero
<1>9. HeardIsKept'
  BY <1>1, <1>2, <1>3, <1>4 DEF HeardIsKept
<1> QED
  BY <1>5, <1>6, <1>7, <1>8, <1>9

\* clear accounts for everything it wipes.
LEMMA ClearInv ==
    ASSUME IInv, Clear
    PROVE  IInv'
<1> USE DEF IInv
<1>1. \A c \in Categories :
          /\ Count(c) \in Nat /\ snap[c] \in Nat
          /\ snap[c] <= Count(c) /\ heard[c] = snap[c]
  BY CountIsNat DEF Clear, UnsentIsKept, HeardIsKept, TypeOK
<1>2. /\ samples' = Zero /\ truncated' = Zero /\ snap' = Zero /\ heard' = Zero
      /\ flush' = "wait"
      /\ recorded' = recorded /\ reported' = reported
      /\ lost' = [c \in Categories |-> lost[c] + (Count(c) - snap[c])]
  BY DEF Clear
<1>3. \A c \in Categories : Count(c)' = 0
  BY <1>2 DEF Count, Zero
<1>4. TypeOK'
  <2>1. ASSUME NEW c \in Categories PROVE lost[c] + (Count(c) - snap[c]) \in Nat
    <3>1. lost[c] \in Nat
      BY DEF TypeOK
    <3> QED
      BY <1>1, <3>1
  <2>2. lost' \in [Categories -> Nat]
    BY <1>2, <2>1
  <2>3. Zero \in [Categories -> Nat]
    BY DEF Zero
  <2> QED
    BY <1>2, <2>2, <2>3 DEF TypeOK
<1>5. Accounting'
  <2> SUFFICES ASSUME NEW c \in Categories
               PROVE  recorded'[c] = (Count(c)' - heard'[c]) + reported'[c] + lost'[c]
    BY DEF Accounting
  <2>1. recorded[c] = (Count(c) - heard[c]) + reported[c] + lost[c]
    BY DEF Accounting
  <2>2. recorded[c] \in Nat /\ reported[c] \in Nat /\ lost[c] \in Nat
    BY DEF TypeOK
  <2>3. heard'[c] = 0 /\ lost'[c] = lost[c] + (Count(c) - snap[c])
    BY <1>2 DEF Zero
  <2> QED
    BY <1>1, <1>2, <1>3, <2>1, <2>2, <2>3
<1>6. BucketBounded'
  <2> SUFFICES ASSUME NEW c \in Categories
               PROVE  /\ samples'[c] <= MaxPerBucket
                      /\ truncated'[c] > 0 => samples'[c] = MaxPerBucket
    BY DEF BucketBounded
  <2>1. samples'[c] = 0 /\ truncated'[c] = 0
    BY <1>2 DEF Zero
  <2>2. 0 <= MaxPerBucket /\ ~(0 > 0)
    BY CapAssumption
  <2> QED
    BY <2>1, <2>2
<1>7. UnsentIsKept'
  BY <1>2, <1>3 DEF UnsentIsKept, Zero
<1>8. HeardIsKept'
  BY <1>2, <1>3 DEF HeardIsKept, Zero
<1> QED
  BY <1>4, <1>5, <1>6, <1>7, <1>8

\* The invariant is inductive.
LEMMA NextInv == IInv /\ [Next]_vars => IInv'
<1> SUFFICES ASSUME IInv, [Next]_vars PROVE IInv'
  OBVIOUS
<1>1. ASSUME NEW c \in Categories, Record(c) PROVE IInv'
  BY <1>1, RecordInv
<1>2. CASE Snapshot \/ SendErr
  BY <1>2, UnheardInv
<1>3. CASE SendOk \/ SendLost
  BY <1>3, ToldInv
<1>4. CASE Clear
  BY <1>4, ClearInv
<1>5. CASE UNCHANGED vars
  BY <1>5 DEF IInv, TypeOK, Accounting, BucketBounded, UnsentIsKept, HeardIsKept, Count, vars
<1> QED
  BY <1>1, <1>2, <1>3, <1>4, <1>5 DEF Next, Flush

\* Every behaviour of the rollup satisfies the inductive invariant.
THEOREM Invariance == Spec => []IInv
<1>1. Init => IInv
  BY InitInv
<1>2. IInv /\ [Next]_vars => IInv'
  BY NextInv
<1> QED
  BY <1>1, <1>2, PTL DEF Spec

\* The counters of the rollup are natural numbers: no subtraction underflows.
THEOREM RollupTypeCorrect == Spec => []TypeOK
<1>1. IInv => TypeOK
  BY DEF IInv
<1> QED
  BY <1>1, Invariance, PTL

\* Every error recorded was told, or is in a bucket and untold, or was wiped while a
\* text was under way; none is counted twice, also when it is told of twice.
THEOREM NothingUnaccounted == Spec => []Accounting
<1>1. IInv => Accounting
  BY DEF IInv
<1> QED
  BY <1>1, Invariance, PTL

\* A bucket never holds more than MAX_PER_BUCKET texts, and counts without keeping
\* only when it is full.
THEOREM BucketsAreBounded == Spec => []BucketBounded
<1>1. IInv => BucketBounded
  BY DEF IInv
<1> QED
  BY <1>1, Invariance, PTL

\* A text is under way exactly while it tells of something.
TextTells == flush \in {"send", "clear"} <=> snap # Zero

\* The text is made only of something, and thrown away as the task goes back to
\* waiting.
LEMMA NextTells == TypeOK /\ TextTells /\ [Next]_vars => TextTells'
<1> SUFFICES ASSUME TypeOK, TextTells, [Next]_vars PROVE TextTells'
  OBVIOUS
<1> USE DEF TextTells
<1>1. CASE Snapshot
  <2>1. PICK c \in Categories : Count(c) > 0
    BY <1>1 DEF Snapshot
  <2>2. snap'[c] # 0 /\ Zero[c] = 0
    BY <1>1, <2>1 DEF Snapshot, Zero, Count, TypeOK
  <2>3. snap' # Zero /\ Zero' = Zero /\ flush' = "send"
    BY <1>1, <2>2 DEF Snapshot, Zero
  <2> QED
    BY <2>3
<1>2. CASE SendOk
  BY <1>2 DEF SendOk, Zero
<1>3. CASE SendErr \/ SendLost \/ Clear
  <2>1. snap' = Zero' /\ flush' = "wait"
    BY <1>3 DEF SendErr, SendLost, Clear, Zero
  <2> QED
    BY <2>1
<1>4. CASE \E c \in Categories : Record(c)
  BY <1>4 DEF Record, Zero
<1>5. CASE UNCHANGED vars
  BY <1>5 DEF vars, Zero
<1> QED
  BY <1>1, <1>2, <1>3, <1>4, <1>5 DEF Next, Flush

\* In every behaviour.
LEMMA TextsTell == Spec => []TextTells
<1>1. Init => TextTells
  BY DEF Init, TextTells
<1>2. TypeOK /\ TextTells /\ [Next]_vars => TextTells'
  BY NextTells
<1> QED
  BY <1>1, <1>2, RollupTypeCorrect, PTL DEF Spec

\* Each step of the rollup is a step of the ledger, or one it does not see.
LEMMA NextRefines == IInv /\ TextTells /\ [Next]_vars => [Ledger!Next]_Ledger!vars
<1> SUFFICES ASSUME IInv, TextTells, [Next]_vars PROVE [Ledger!Next]_Ledger!vars
  OBVIOUS
<1> DEFINE held == [c \in Categories |-> Count(c)]
<1> USE DEF IInv
<1>1. Ledger!None = Zero
  BY DEF Ledger!None, Zero
<1>2. CASE Snapshot
  <2>1. PICK c \in Categories : Count(c) > 0
    BY <1>2 DEF Snapshot
  <2>2. held[c] # Zero[c]
    BY <2>1 DEF Count, TypeOK, Zero
  <2>3. held # Zero
    BY <2>2
  <2>4. snap = Zero /\ snap' = held
    BY <1>2 DEF Snapshot, TextTells
  <2>5. held' = held /\ UNCHANGED <<heard, reported, lost>>
    BY <1>2 DEF Snapshot, Count, buckets, history
  <2>6. Ledger!Look
    BY <1>1, <2>3, <2>4, <2>5 DEF Ledger!Look
  <2> QED
    BY <2>6 DEF Ledger!Next
<1>3. CASE SendOk \/ SendLost
  <2>1. snap # Zero /\ snap' \in {snap, Zero}
    BY <1>3 DEF SendOk, SendLost, TextTells
  <2>2. /\ held' = held /\ lost' = lost
        /\ heard' = snap
        /\ reported' = [c \in Categories |-> reported[c] + (snap[c] - heard[c])]
    BY <1>3 DEF SendOk, SendLost, Told, Count, buckets
  <2>3. Ledger!Deliver
    BY <1>1, <2>1, <2>2 DEF Ledger!Deliver
  <2> QED
    BY <2>3 DEF Ledger!Next
<1>4. CASE SendErr
  <2>1. snap # Zero /\ snap' = Zero
    BY <1>4 DEF SendErr, TextTells
  <2>2. held' = held /\ UNCHANGED <<heard, reported, lost>>
    BY <1>4 DEF SendErr, Count, buckets, history
  <2>3. Ledger!GiveUp
    BY <1>1, <2>1, <2>2 DEF Ledger!GiveUp
  <2> QED
    BY <2>3 DEF Ledger!Next
<1>5. CASE Clear
  <2>1. snap # Zero /\ snap' = Zero /\ heard' = Zero /\ reported' = reported
    BY <1>5 DEF Clear, TextTells
  <2>2. heard = snap
    BY <1>5 DEF Clear, HeardIsKept, TypeOK
  <2>3. held' = Zero
    BY <1>5 DEF Clear, Count, Zero
  <2>4. lost' = [c \in Categories |-> lost[c] + (held[c] - snap[c])]
    BY <1>5 DEF Clear
  <2>5. Ledger!Settle
    BY <1>1, <2>1, <2>2, <2>3, <2>4 DEF Ledger!Settle
  <2> QED
    BY <2>5 DEF Ledger!Next
<1>6. ASSUME NEW c \in Categories, Record(c) PROVE Ledger!Next
  <2>1. Count(c)' = Count(c) + 1 /\ \A d \in Categories \ {c} : Count(d)' = Count(d)
    BY <1>6, RecordCounts DEF Record
  <2>2. held' = [held EXCEPT ![c] = @ + 1]
    BY <2>1
  <2>3. UNCHANGED <<snap, heard, reported, lost>>
    BY <1>6 DEF Record
  <2>4. Ledger!Arrive(c)
    BY <2>2, <2>3 DEF Ledger!Arrive
  <2> QED
    BY <2>4 DEF Ledger!Next
<1>7. CASE UNCHANGED vars
  BY <1>7 DEF vars, Ledger!vars, Count
<1> QED
  BY <1>2, <1>3, <1>4, <1>5, <1>6, <1>7 DEF Next, Flush

\* The rollup implements the ledger.  The mapping forgets which errors have kept
\* their text; what a text tells of is read off the one under way.
THEOREM IsALedger == Spec => ImplementsLedger
<1>1. Init => Ledger!Init
  BY DEF Init, Ledger!Init, Ledger!None, Zero, Count
<1>2. IInv /\ TextTells /\ [Next]_vars => [Ledger!Next]_Ledger!vars
  BY NextRefines
<1> QED
  BY <1>1, <1>2, Invariance, TextsTell, PTL DEF Spec, ImplementsLedger, Ledger!Spec

=============================================================================
