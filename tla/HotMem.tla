------------------------------- MODULE HotMem -------------------------------
(***************************************************************************)
(* The hot window of the broker, crates/broker/src/ingest/hot.rs: a bounded *)
(* queue of freshly ingested documents plus the set of idempotency keys    *)
(* already seen.  Every POST /ingest calls HotMem::apply; the calls run on  *)
(* the threads of the runtime and take three locks one after another, so    *)
(* apply is three steps: record the key, compare the length with hard_cap,  *)
(* push the batch.  Other calls run between the steps.                     *)
(***************************************************************************)
EXTENDS Integers, Sequences, FiniteSets

CONSTANTS
  Requests,   \* the calls of apply
  Keys,       \* the values of the Idempotency-Key header
  NoKey,      \* the header is absent
  MaxBatch,   \* bound: documents in one batch
  Cap         \* cap = hard_cap, from GZ_HOT_CAP

ASSUME HotMemAssumption ==
  /\ Cap \in Nat \ {0}
  /\ MaxBatch \in Nat
  /\ NoKey \notin Keys

VARIABLES
  window,     \* inner: the documents, oldest first
  seen,       \* idempotency_seen
  pc,         \* where each call stands
  key,        \* its idempotency key
  size,       \* the number of documents in its batch
  reply,      \* what it returned
  pushed      \* history: documents pushed since the start

vars == <<window, seen, pc, key, size, reply, pushed>>

\* req is the batch a document came in, seq (history) its place among all the
\* documents ever pushed.
Doc == [req : Requests, doc_id : 0..Cap, seq : Nat \ {0}]

TypeOK ==
  /\ window \in Seq(Doc)
  /\ seen \subseteq Keys
  /\ pc \in [Requests -> {"idle", "marked", "admitted", "done"}]
  /\ key \in [Requests -> Keys \cup {NoKey}]
  /\ size \in [Requests -> 0..MaxBatch]
  /\ reply \in [Requests -> {"none", "idempotent", "backpressure", "added"}]
  /\ pushed \in Nat

Init ==
  /\ window = << >> /\ seen = {} /\ pushed = 0
  /\ pc = [r \in Requests |-> "idle"]
  /\ key = [r \in Requests |-> NoKey]
  /\ size = [r \in Requests |-> 0]
  /\ reply = [r \in Requests |-> "none"]
-----------------------------------------------------------------------------
Return(r, what) ==
  /\ pc' = [pc EXCEPT ![r] = "done"]
  /\ reply' = [reply EXCEPT ![r] = what]

\* A call arrives with a key and a batch.
Call(r, k, n) ==
  /\ pc[r] = "idle"
  /\ key' = [key EXCEPT ![r] = k]
  /\ size' = [size EXCEPT ![r] = n]

MarkKeyForgetful(r, k, n) ==   \* mutant: the key is looked up and not inserted
  /\ Call(r, k, n)
  /\ k \notin seen
  /\ pc' = [pc EXCEPT ![r] = "marked"]
  /\ UNCHANGED <<window, seen, reply, pushed>>

\* The key is new, or there is none: it is inserted before anything else.
MarkKey(r, k, n) ==
  /\ Call(r, k, n)
  /\ k \notin seen
  /\ seen' = (seen \cup {k}) \ {NoKey}
  /\ pc' = [pc EXCEPT ![r] = "marked"]
  /\ UNCHANGED <<window, reply, pushed>>

\* The key has been seen: apply returns at once.
Replay(r, k, n) ==
  /\ Call(r, k, n)
  /\ k \in seen
  /\ Return(r, "idempotent")
  /\ UNCHANGED <<window, seen, pushed>>

Admit(r) ==
  /\ pc[r] = "marked"
  /\ Len(window) < Cap
  /\ pc' = [pc EXCEPT ![r] = "admitted"]
  /\ UNCHANGED <<window, seen, key, size, reply, pushed>>

RefuseBig(r) ==   \* mutant: a batch that does not fit is refused
  /\ pc[r] = "marked"
  /\ Len(window) + size[r] > Cap
  /\ Return(r, "backpressure")
  /\ UNCHANGED <<window, seen, key, size, pushed>>

Refuse(r) ==
  /\ pc[r] = "marked"
  /\ Len(window) >= Cap
  /\ Return(r, "backpressure")
  /\ UNCHANGED <<window, seen, key, size, pushed>>

Smaller(m, n) == IF m <= n THEN m ELSE n

BatchFromZero(r) ==   \* mutant: ids count from the start of the batch
  [i \in 1..size[r] |->
     [req |-> r, doc_id |-> Smaller(i - 1, Cap), seq |-> pushed + i]]

BatchNoEviction(r) ==   \* mutant: ids ignore what the loop evicts
  [i \in 1..size[r] |->
     [req |-> r, doc_id |-> Len(window) + i - 1, seq |-> pushed + i]]

\* The documents of the batch: the i-th gets as doc_id the length the window
\* has when the loop reaches it, which eviction holds at Cap.
Batch(r) ==
  [i \in 1..size[r] |->
     [req |-> r, doc_id |-> Smaller(Len(window) + i - 1, Cap),
      seq |-> pushed + i]]

\* What pop_front leaves once every document of the batch has been pushed.
KeepNewest(w) ==
  IF Len(w) <= Cap THEN w ELSE SubSeq(w, Len(w) - Cap + 1, Len(w))

PushWrongEnd(r) ==   \* mutant: the eviction pops from the wrong end
  /\ pc[r] = "admitted"
  /\ window' = SubSeq(window \o Batch(r), 1, Smaller(Cap, Len(window) + size[r]))
  /\ pushed' = pushed + size[r]
  /\ Return(r, "added")
  /\ UNCHANGED <<seen, key, size>>

\* The loop over the batch, under one write lock.
Push(r) ==
  /\ pc[r] = "admitted"
  /\ window' = KeepNewest(window \o Batch(r))
  /\ pushed' = pushed + size[r]
  /\ Return(r, "added")
  /\ UNCHANGED <<seen, key, size>>

Apply(r) ==
  \/ \E k \in Keys \cup {NoKey}, n \in 0..MaxBatch : MarkKey(r, k, n)
  \/ \E k \in Keys, n \in 0..MaxBatch : Replay(r, k, n)
  \/ Admit(r)
  \/ Refuse(r)
  \/ Push(r)

Next == \E r \in Requests : Apply(r)

Spec == Init /\ [][Next]_vars
-----------------------------------------------------------------------------
(* Properties *)

\* The window is exactly the newest documents in the order they were pushed,
\* as many as Cap allows: concurrent batches neither mix, nor reorder, nor
\* lose anything but the oldest documents (hot.rs:73-92).
WindowIsRecent ==
  /\ Len(window) = Smaller(pushed, Cap)
  /\ \A i \in 1..Len(window) : window[i].seq = pushed - Len(window) + i

\* However the calls interleave, at most one of those that carry the same key
\* gets past the idempotency check and can add documents (hot.rs:61-66).
AtMostOncePerKey ==
  \A q, r \in Requests :
    /\ pc[q] # "idle" /\ pc[r] # "idle"
    /\ reply[q] # "idempotent" /\ reply[r] # "idempotent"
    /\ key[q] = key[r] /\ key[q] # NoKey
    => q = r

\* Backpressure never clears: once a call has been refused the window is full
\* and stays full, so every later call with a new key is refused as well
\* (hot.rs:69-71, nothing in the broker shrinks the window).
RefusedMeansFull ==
  (\E r \in Requests : reply[r] = "backpressure") => Len(window) = Cap

\* The doc_ids of the window increase strictly, except that every document
\* pushed into a full window gets the id Cap (hot.rs:82-90).
IdsIncrease ==
  \A i, j \in 1..Len(window) :
    i < j => \/ window[i].doc_id < window[j].doc_id
             \/ window[i].doc_id = Cap /\ window[j].doc_id = Cap

\* A call is answered "idempotent" only for a key whose batch is in, or on its
\* way into, the window: acknowledging a retry never loses its documents.
\* (http_api.rs:193 calls such an answer a pure repeat.)
ReplayMeansApplied ==
  \A r \in Requests :
    reply[r] = "idempotent" =>
      \E q \in Requests \ {r} :
        /\ key[q] = key[r]
        /\ pc[q] \in {"marked", "admitted"} \/ reply[q] = "added"
=============================================================================
