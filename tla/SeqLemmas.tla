----------------------------- MODULE SeqLemmas -----------------------------
(***************************************************************************)
(* Facts about the channel queues of the V-Node models: a queue is a       *)
(* sequence of message records, and what the services decode depends only *)
(* on each message's variant, its field ty.                                *)
(***************************************************************************)
EXTENDS Sequences, SequenceTheorems, TLAPS

(* q is a sequence and every message in it has a variant of T.             *)
TypedSeq(q, T) == q \in Seq(Range(q)) /\ \A m \in Range(q) : m.ty \in T

(* Appending a message of a variant of T keeps the queue typed.           *)
LEMMA AppendTyped ==
    ASSUME NEW T, NEW q, TypedSeq(q, T), NEW e, e.ty \in T
    PROVE  TypedSeq(Append(q, e), T) /\ Append(q, e) # <<>>
<1>. DEFINE S == Range(q) \cup {e}
<1>1. q \in Seq(S) /\ e \in S  BY SeqMonotonic DEF TypedSeq
<1>2. Append(q, e) \in Seq(S) /\ Append(q, e) # <<>>  BY <1>1, AppendProperties
<1>3. Append(q, e) \in Seq(Range(Append(q, e)))  BY <1>2, SeqOfRange
<1>4. Range(Append(q, e)) \subseteq S  BY <1>2, RangeOfSeq
<1>. QED  BY <1>2, <1>3, <1>4 DEF TypedSeq

(* Taking the head of a non-empty typed queue leaves a typed queue, and   *)
(* the head has a variant of T.                                           *)
LEMMA TailTyped ==
    ASSUME NEW T, NEW q, TypedSeq(q, T), q # <<>>
    PROVE  TypedSeq(Tail(q), T) /\ Head(q).ty \in T
<1>1. Tail(q) \in Seq(Range(q)) /\ Head(q) \in Range(q)
    BY HeadTailProperties DEF TypedSeq
<1>2. Tail(q) \in Seq(Range(Tail(q)))  BY <1>1, SeqOfRange
<1>3. Range(Tail(q)) \subseteq Range(q)  BY <1>1, RangeOfSeq
<1>. QED  BY <1>1, <1>2, <1>3 DEF TypedSeq


(* A typed queue is a sequence over its messages and any other one.       *)
LEMMA TypedIsSeq ==
    ASSUME NEW T, NEW q, TypedSeq(q, T), NEW m
    PROVE  q \in Seq(Range(q) \cup {m}) /\ m \in Range(q) \cup {m}
    BY SeqMonotonic DEF TypedSeq

=============================================================================
