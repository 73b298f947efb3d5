----------------------------- MODULE QueueLemmas -----------------------------
(***************************************************************************)
(* Facts about a queue that is filled with Append and emptied with Tail,   *)
(* as the broker's queue of messages is in every mode of the dispatcher.   *)
(***************************************************************************)
EXTENDS Naturals, Sequences, SequenceTheorems, TLAPS

\* What appending a message does to a queue's contents.
LEMMA AppendedIn ==
  ASSUME NEW S, NEW s \in Seq(S), NEW m \in S
  PROVE  /\ Append(s, m) \in Seq(S)
         /\ Append(s, m) # <<>>
         /\ s # <<>> => Head(Append(s, m)) = Head(s)
         /\ \A x : (\E i \in 1..Len(Append(s, m)) : Append(s, m)[i] = x)
                     <=> (\E i \in 1..Len(s) : s[i] = x) \/ x = m
<1>1. /\ Append(s, m) \in Seq(S)
      /\ Len(Append(s, m)) = Len(s) + 1
      /\ \A i \in 1..Len(s) : Append(s, m)[i] = s[i]
      /\ Append(s, m)[Len(s) + 1] = m
  BY AppendProperties
<1>2. Len(s) \in Nat /\ (s # <<>> => Len(s) # 0)
  BY LenProperties, EmptySeq
<1>3. Append(s, m) # <<>>
  BY <1>1, <1>2, EmptySeq
<1>4. ASSUME s # <<>> PROVE Head(Append(s, m)) = Head(s)
  BY <1>1, <1>2, <1>3, <1>4, HeadTailProperties
<1> QED
  BY <1>1, <1>2, <1>3, <1>4

\* What taking the head of a queue away does to its contents.
LEMMA TailIn ==
  ASSUME NEW S, NEW s \in Seq(S), s # <<>>
  PROVE  /\ Head(s) \in S /\ Tail(s) \in Seq(S)
         /\ \A x : (\E i \in 1..Len(s) : s[i] = x)
                     <=> (\E i \in 1..Len(Tail(s)) : Tail(s)[i] = x) \/ x = Head(s)
<1>1. /\ Tail(s) \in Seq(S)
      /\ Len(Tail(s)) = Len(s) - 1
      /\ \A i \in 1..Len(Tail(s)) : Tail(s)[i] = s[i + 1]
      /\ Head(s) = s[1] /\ Head(s) \in S
  BY HeadTailProperties
<1>2. Len(s) \in Nat /\ Len(s) # 0
  BY LenProperties, EmptySeq
<1>3. ASSUME NEW i \in 1..Len(s), i # 1
      PROVE  i - 1 \in 1..Len(Tail(s)) /\ Tail(s)[i - 1] = s[i]
  BY <1>1, <1>2, <1>3
<1>4. ASSUME NEW i \in 1..Len(Tail(s))
      PROVE  i + 1 \in 1..Len(s) /\ s[i + 1] = Tail(s)[i]
  BY <1>1, <1>2
<1>5. 1 \in 1..Len(s)
  BY <1>2
<1> QED
  BY <1>1, <1>3, <1>4, <1>5

\* Each message is in the queue at most once.
Once(s) == \A i, k \in 1..Len(s) : s[i] = s[k] => i = k

\* A message that is not in the queue may be appended to it.
LEMMA AppendOnce ==
  ASSUME NEW S, NEW s \in Seq(S), NEW m \in S, Once(s),
         \A i \in 1..Len(s) : s[i] # m
  PROVE  Once(Append(s, m))
<1>1. /\ Len(Append(s, m)) = Len(s) + 1 /\ Len(s) \in Nat
      /\ \A i \in 1..Len(s) : Append(s, m)[i] = s[i]
      /\ Append(s, m)[Len(s) + 1] = m
  BY AppendProperties, LenProperties
<1>2. \A i \in 1..Len(Append(s, m)) : i \in 1..Len(s) \/ i = Len(s) + 1
  BY <1>1
<1> QED
  BY <1>1, <1>2 DEF Once

\* The head of the queue is nowhere else in it.
LEMMA TailOnce ==
  ASSUME NEW S, NEW s \in Seq(S), s # <<>>, Once(s)
  PROVE  /\ Once(Tail(s))
         /\ \A i \in 1..Len(Tail(s)) : Tail(s)[i] # Head(s)
<1>1. /\ Len(Tail(s)) = Len(s) - 1 /\ Len(s) \in Nat
      /\ \A i \in 1..Len(Tail(s)) : Tail(s)[i] = s[i + 1]
      /\ Head(s) = s[1]
  BY HeadTailProperties, LenProperties
<1>2. \A i \in 1..Len(Tail(s)) :
        i + 1 \in 1..Len(s) /\ 1 \in 1..Len(s) /\ i + 1 # 1
  BY <1>1
<1>3. \A i, k \in 1..Len(Tail(s)) : i + 1 = k + 1 => i = k
  BY <1>1
<1> QED
  BY <1>1, <1>2, <1>3 DEF Once

\* Nothing in the queue has a lesser rank than what is before it.
Sorted(s, rank) ==
  \A i, k \in 1..Len(s) : i <= k => rank[s[i]] <= rank[s[k]]

\* A message that ranks with the last or higher may be appended.
LEMMA AppendSorted ==
  ASSUME NEW S, NEW rank \in [S -> Nat], NEW s \in Seq(S), NEW m \in S,
         Sorted(s, rank), \A i \in 1..Len(s) : rank[s[i]] <= rank[m]
  PROVE  Sorted(Append(s, m), rank)
<1>1. /\ Len(Append(s, m)) = Len(s) + 1 /\ Len(s) \in Nat
      /\ \A i \in 1..Len(s) : Append(s, m)[i] = s[i]
      /\ Append(s, m)[Len(s) + 1] = m
  BY AppendProperties, LenProperties
<1>2. ASSUME NEW i \in 1..Len(s) + 1, NEW k \in 1..Len(s) + 1, i <= k
      PROVE  rank[Append(s, m)[i]] <= rank[Append(s, m)[k]]
  <2>1. CASE k = Len(s) + 1
    <3>1. i \in 1..Len(s) \/ i = k
      BY <1>1, <2>1
    <3>2. rank[m] <= rank[m]
      OBVIOUS
    <3> QED
      BY <1>1, <2>1, <3>1, <3>2
  <2>2. CASE k # Len(s) + 1
    <3>1. i \in 1..Len(s) /\ k \in 1..Len(s)
      BY <1>1, <1>2, <2>2
    <3> QED
      BY <1>1, <1>2, <3>1 DEF Sorted
  <2> QED
    BY <2>1, <2>2
<1> QED
  BY <1>1, <1>2 DEF Sorted

\* The head of a sorted queue ranks lowest.
LEMMA TailSorted ==
  ASSUME NEW S, NEW rank, NEW s \in Seq(S), s # <<>>, Sorted(s, rank)
  PROVE  /\ Sorted(Tail(s), rank)
         /\ \A i \in 1..Len(s) : rank[Head(s)] <= rank[s[i]]
<1>1. /\ Len(Tail(s)) = Len(s) - 1 /\ Len(s) \in Nat /\ Len(s) # 0
      /\ \A i \in 1..Len(Tail(s)) : Tail(s)[i] = s[i + 1]
      /\ Head(s) = s[1]
  BY HeadTailProperties, LenProperties, EmptySeq
<1>2. \A i \in 1..Len(Tail(s)) : i + 1 \in 1..Len(s)
  BY <1>1
<1>3. \A i, k \in 1..Len(Tail(s)) : i <= k => i + 1 <= k + 1
  BY <1>1
<1>4. \A i \in 1..Len(s) : 1 \in 1..Len(s) /\ 1 <= i
  BY <1>1
<1> QED
  BY <1>1, <1>2, <1>3, <1>4 DEF Sorted

=============================================================================
