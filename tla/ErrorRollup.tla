---------------------------- MODULE ErrorRollup ----------------------------
(***************************************************************************)
(* The error rollup of the daemon: a map from category to a bucket that    *)
(* keeps the first MAX_PER_BUCKET error texts and counts the rest, and the *)
(* task that every five minutes renders the buckets, sends the text to a   *)
(* Matrix room and then empties the map.                                   *)
(*                                                                         *)
(* An error is a unit: a bucket is how many texts it holds (samples) and   *)
(* how many it only counted (truncated).  The mutex is held for the whole  *)
(* of record, snapshot_to_markdown and clear, so each is one step; it is   *)
(* released while the text is being sent.                                  *)
(***************************************************************************)
EXTENDS Naturals

CONSTANTS
    Categories,    \* the category names the callers use
    MaxPerBucket,  \* MAX_PER_BUCKET
    MaxErrors      \* bound of the model: errors recorded per category

ASSUME CategoriesAssumption == Categories # {}
ASSUME CapAssumption == MaxPerBucket \in Nat \ {0}
ASSUME BoundAssumption == MaxErrors \in Nat

VARIABLES
    samples,    \* texts held per category; 0 is a category the map lacks
    truncated,  \* errors per category that were only counted
    flush,      \* where the flush task is: "off", "wait", "send", "clear"
    snap,       \* per category, the count in the text being sent
    heard,      \* history: how many of the errors in the buckets the room was told of
    recorded,   \* history: errors ever passed to record
    reported,   \* history: errors the room was told of, each counted once
    lost        \* history: errors cleared that the room was never told of

buckets == <<samples, truncated>>
history == <<heard, recorded, reported, lost>>
vars == <<samples, truncated, flush, snap, heard, recorded, reported, lost>>

Zero == [c \in Categories |-> 0]

\* What snapshot_to_markdown prints for category c.
Count(c) == samples[c] + truncated[c]

Init ==
    /\ samples = Zero
    /\ truncated = Zero
    /\ flush \in {"off", "wait"}  \* spawned only if Matrix and its room are up
    /\ snap = Zero
    /\ heard = Zero
    /\ recorded = Zero
    /\ reported = Zero
    /\ lost = Zero

(***************************************************************************)
(* record: keep the text while the bucket has room, count it after that.   *)
(***************************************************************************)
\* A bug to compare with: the room of a bucket is off by one.
KeepOneMore(c) ==
    /\ samples[c] <= MaxPerBucket
    /\ samples' = [samples EXCEPT ![c] = @ + 1]
    /\ UNCHANGED truncated

Keep(c) ==
    /\ samples[c] < MaxPerBucket
    /\ samples' = [samples EXCEPT ![c] = @ + 1]
    /\ UNCHANGED truncated

\* A bug to compare with: an error the bucket has no room for is not counted.
OverflowUncounted(c) ==
    /\ samples[c] >= MaxPerBucket
    /\ UNCHANGED buckets

Overflow(c) ==
    /\ samples[c] >= MaxPerBucket
    /\ truncated' = [truncated EXCEPT ![c] = @ + 1]
    /\ UNCHANGED samples

Record(c) ==
    /\ recorded[c] < MaxErrors
    /\ Keep(c) \/ Overflow(c)
    /\ recorded' = [recorded EXCEPT ![c] = @ + 1]
    /\ UNCHANGED <<flush, snap, heard, reported, lost>>

(***************************************************************************)
(* The flush task.                                                         *)
(***************************************************************************)
\* A bug to compare with: the text tells of the texts kept and leaves out the errors
\* that were only counted.
SnapshotOfTexts ==
    /\ flush = "wait"
    /\ \E c \in Categories : Count(c) > 0
    /\ snap' = samples
    /\ flush' = "send"
    /\ UNCHANGED <<buckets, history>>

Snapshot ==
    /\ flush = "wait"
    /\ \E c \in Categories : Count(c) > 0
    /\ snap' = [c \in Categories |-> Count(c)]
    /\ flush' = "send"
    /\ UNCHANGED <<buckets, history>>

\* The room has the text.  What an earlier text told it of is not news.
Told ==
    /\ reported' = [c \in Categories |-> reported[c] + (snap[c] - heard[c])]
    /\ heard' = snap
    /\ UNCHANGED <<recorded, lost>>

\* send_markdown_to_room returned Ok.
SendOk ==
    /\ flush = "send"
    /\ flush' = "clear"
    /\ Told
    /\ UNCHANGED <<buckets, snap>>

\* A bug to compare with: the error leaves the loop and the task is over.
SendErrEndsTask ==
    /\ flush = "send"
    /\ flush' = "off"
    /\ snap' = Zero
    /\ UNCHANGED <<buckets, history>>

\* It returned Err: only a warning, the buckets wait for the next tick.
SendErr ==
    /\ flush = "send"
    /\ flush' = "wait"
    /\ snap' = Zero
    /\ UNCHANGED <<buckets, history>>

\* It returned Err although the room took the text: the answer was lost on its way.
\* The task cannot tell, so the same errors are told of again.
SendLost ==
    /\ flush = "send"
    /\ flush' = "wait"
    /\ snap' = Zero
    /\ Told
    /\ UNCHANGED buckets

\* A bug to compare with: clear takes what the text counted from the texts kept.
ClearSubtracts ==
    /\ flush = "clear"
    /\ samples' = [c \in Categories |-> samples[c] - snap[c]]
    /\ snap' = Zero
    /\ heard' = Zero
    /\ flush' = "wait"
    /\ UNCHANGED <<truncated, recorded, reported, lost>>

\* clear empties the whole map, not only what the text counted.
Clear ==
    /\ flush = "clear"
    /\ lost' = [c \in Categories |-> lost[c] + (Count(c) - snap[c])]
    /\ samples' = Zero
    /\ truncated' = Zero
    /\ snap' = Zero
    /\ heard' = Zero
    /\ flush' = "wait"
    /\ UNCHANGED <<recorded, reported>>

Flush == Snapshot \/ SendOk \/ SendErr \/ SendLost \/ Clear

Next == Flush \/ \E c \in Categories : Record(c)

(***************************************************************************)
(* The flush task is a spawned task with a timer, so it keeps going; that  *)
(* a send succeeds again and again is an assumption on the Matrix server.  *)
(* Of a send that fails nothing is assumed: it may fail at once, late, or  *)
(* not at all.                                                             *)
(***************************************************************************)
Fairness ==
    /\ WF_vars(Snapshot)
    /\ WF_vars(Clear)
    /\ SF_vars(SendOk)

Spec == Init /\ [][Next]_vars /\ Fairness

(***************************************************************************)
(* Properties.                                                             *)
(***************************************************************************)

\* Every variable of the rollup has its type; the code's usize counters never
\* go below zero.
TypeOK ==
    /\ samples \in [Categories -> Nat]
    /\ truncated \in [Categories -> Nat]
    /\ flush \in {"off", "wait", "send", "clear"}
    /\ snap \in [Categories -> Nat]
    /\ heard \in [Categories -> Nat]
    /\ recorded \in [Categories -> Nat]
    /\ reported \in [Categories -> Nat]
    /\ lost \in [Categories -> Nat]

\* No error is counted twice or forgotten by the bookkeeping: whatever was
\* recorded was told to the room, or is in a bucket and still to be told, or was wiped
\* by clear because it came in while the text was under way; an error told of twice,
\* after a lost answer, is one error.
Accounting ==
    \A c \in Categories : recorded[c] = (Count(c) - heard[c]) + reported[c] + lost[c]

\* record only counts without keeping once the bucket is full, and a bucket
\* never holds more than MAX_PER_BUCKET texts.
BucketBounded ==
    \A c \in Categories :
        /\ samples[c] <= MaxPerBucket
        /\ truncated[c] > 0 => samples[c] = MaxPerBucket

Ledger == INSTANCE Ledger WITH held <- [c \in Categories |-> Count(c)], seen <- snap,
                               told <- reported, dropped <- lost

\* Seen from the room, buckets, their cap and the flush task are a ledger: each text
\* tells of all that was held when it was made; a send that fails, whether or not the
\* room got the text, loses nothing and can only have the same errors told again; what
\* is dropped came in while a text that got through was under way.
ImplementsLedger == Ledger!Spec

\* If sends to the room keep succeeding now and then, an error that is in a
\* bucket and the room has not heard of, when the flush task waits for its tick, is
\* told in the end.
EventuallyTold ==
    \A c \in Categories : \A n \in 0 .. MaxErrors :
        (flush = "wait" /\ Count(c) > heard[c] /\ reported[c] = n) ~> (reported[c] > n)

=============================================================================
