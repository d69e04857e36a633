-------------------------- MODULE OutboxWorkerProofs --------------------------
(***************************************************************************)
(* Proofs about OutboxWorker for any number of events and workers, any     *)
(* attempts, limits and lengths of the stream, and whichever awaits throw  *)
(* and processes die.                                                      *)
(*                                                                         *)
(* Effects: an attempt that tryStart counted belongs to one worker until   *)
(* its handler has run.  The effects and the workers that still hold an    *)
(* attempt never outnumber the attempts (EffectInv).                       *)
(*                                                                         *)
(* Nothing is forgotten: every entry's event has an outcome, no attempt    *)
(* left, a worker, or an entry that brings it back, which is one that is   *)
(* unread, or pending and not about to be acknowledged (BringsBack).  An   *)
(* entry comes to be acknowledged only after tryStart has refused its      *)
(* event, its outcome was recorded, or markFailed threw; in the last case  *)
(* the event is dropped.                                                   *)
(*                                                                         *)
(* Statements whose answer is lost are steps like those that are answered: *)
(* StartedStep and OutcomeStep cover both.                                 *)
(***************************************************************************)
EXTENDS OutboxWorker, FiniteSetTheorems, SequenceTheorems, TLAPS

-----------------------------------------------------------------------------
(* Sequences.                                                              *)

\* The sequence with an element taken out.
LEMMA Removed ==
    ASSUME NEW S, NEW s \in Seq(S), NEW i \in 1..Len(s)
    PROVE  /\ RemoveAt(s, i) \in Seq(S) /\ Len(RemoveAt(s, i)) = Len(s) - 1
           /\ \A j \in 1..(Len(s) - 1) : RemoveAt(s, i)[j] = IF j < i THEN s[j] ELSE s[j + 1]
<1>0. Len(s) \in Nat /\ \A j \in 1..Len(s) : s[j] \in S
  BY LenProperties, ElementOfSeq
<1>a. PICK a : a = SubSeq(s, 1, i - 1)
  OBVIOUS
<1>b. PICK b : b = SubSeq(s, i + 1, Len(s))
  OBVIOUS
<1>1. a \in Seq(S) /\ Len(a) = i - 1 /\ \A j \in 1..(i - 1) : a[j] = s[j]
  <2>1. \A j \in 1..(i - 1) : s[j] \in S
    BY <1>0
  <2>2. /\ SubSeq(s, 1, i - 1) \in Seq(S)
        /\ Len(SubSeq(s, 1, i - 1)) = IF 1 <= i - 1 THEN (i - 1) - 1 + 1 ELSE 0
        /\ \A j \in 1..((i - 1) - 1 + 1) : SubSeq(s, 1, i - 1)[j] = s[1 + j - 1]
    BY <2>1, SubSeqProperties
  <2>3. QED
    BY <1>0, <1>a, <2>2
<1>2. b \in Seq(S) /\ Len(b) = Len(s) - i /\ \A j \in 1..(Len(s) - i) : b[j] = s[i + j]
  <2>1. \A j \in (i + 1)..Len(s) : s[j] \in S
    BY <1>0
  <2>2. /\ SubSeq(s, i + 1, Len(s)) \in Seq(S)
        /\ Len(SubSeq(s, i + 1, Len(s))) = IF i + 1 <= Len(s) THEN Len(s) - (i + 1) + 1 ELSE 0
        /\ \A j \in 1..(Len(s) - (i + 1) + 1) : SubSeq(s, i + 1, Len(s))[j] = s[i + 1 + j - 1]
    BY <1>0, <2>1, SubSeqProperties
  <2>3. QED
    BY <1>0, <1>b, <2>2
<1>3. RemoveAt(s, i) = a \o b
  BY <1>a, <1>b DEF RemoveAt
<1>4. /\ a \o b \in Seq(S) /\ Len(a \o b) = Len(a) + Len(b)
      /\ \A j \in 1..(Len(a) + Len(b)) : (a \o b)[j] = IF j <= Len(a) THEN a[j] ELSE b[j - Len(a)]
  BY <1>1, <1>2, ConcatProperties
<1>5. ASSUME NEW j \in 1..(Len(s) - 1)
      PROVE  RemoveAt(s, i)[j] = IF j < i THEN s[j] ELSE s[j + 1]
  <2>1. j \in 1..(Len(a) + Len(b))
    BY <1>0, <1>1, <1>2
  <2>2. CASE j < i
    BY <1>0, <1>1, <1>3, <1>4, <2>1, <2>2
  <2>3. CASE ~(j < i)
    <3>1. j - Len(a) \in 1..(Len(s) - i) /\ i + (j - Len(a)) = j + 1 /\ ~(j <= Len(a))
      BY <1>0, <1>1, <2>3
    <3>2. QED
      BY <1>2, <1>3, <1>4, <2>1, <2>3, <3>1
  <2>4. QED
    BY <2>2, <2>3
<1>6. QED
  BY <1>0, <1>1, <1>2, <1>3, <1>4, <1>5

\* The sequence with an element put in.
LEMMA Inserted ==
    ASSUME NEW S, NEW s \in Seq(S), NEW k \in 1..(Len(s) + 1), NEW e \in S
    PROVE  /\ InsertAt(s, k, e) \in Seq(S) /\ Len(InsertAt(s, k, e)) = Len(s) + 1
           /\ \A j \in 1..(Len(s) + 1) :
                InsertAt(s, k, e)[j] = IF j < k THEN s[j] ELSE IF j = k THEN e ELSE s[j - 1]
<1>0. Len(s) \in Nat /\ \A j \in 1..Len(s) : s[j] \in S
  BY LenProperties, ElementOfSeq
<1>a. PICK a : a = SubSeq(s, 1, k - 1)
  OBVIOUS
<1>b. PICK b : b = SubSeq(s, k, Len(s))
  OBVIOUS
<1>c. PICK c : c = <<e>>
  OBVIOUS
<1>1. a \in Seq(S) /\ Len(a) = k - 1 /\ \A j \in 1..(k - 1) : a[j] = s[j]
  <2>1. \A j \in 1..(k - 1) : s[j] \in S
    BY <1>0
  <2>2. /\ SubSeq(s, 1, k - 1) \in Seq(S)
        /\ Len(SubSeq(s, 1, k - 1)) = IF 1 <= k - 1 THEN (k - 1) - 1 + 1 ELSE 0
        /\ \A j \in 1..((k - 1) - 1 + 1) : SubSeq(s, 1, k - 1)[j] = s[1 + j - 1]
    BY <1>0, <2>1, SubSeqProperties
  <2>3. QED
    BY <1>0, <1>a, <2>2
<1>2. b \in Seq(S) /\ Len(b) = Len(s) - k + 1 /\ \A j \in 1..(Len(s) - k + 1) : b[j] = s[k + j - 1]
  <2>1. \A j \in k..Len(s) : s[j] \in S
    BY <1>0
  <2>2. /\ SubSeq(s, k, Len(s)) \in Seq(S)
        /\ Len(SubSeq(s, k, Len(s))) = IF k <= Len(s) THEN Len(s) - k + 1 ELSE 0
        /\ \A j \in 1..(Len(s) - k + 1) : SubSeq(s, k, Len(s))[j] = s[k + j - 1]
    BY <1>0, <2>1, SubSeqProperties
  <2>3. QED
    BY <1>0, <1>b, <2>2
<1>3. c \in Seq(S) /\ Len(c) = 1 /\ c[1] = e
  BY <1>c
<1>4. PICK d : d = a \o c
  OBVIOUS
<1>5. d \in Seq(S) /\ Len(d) = k /\ \A j \in 1..k : d[j] = IF j <= k - 1 THEN a[j] ELSE c[j - (k - 1)]
  <2>1. /\ d \in Seq(S) /\ Len(d) = Len(a) + Len(c)
        /\ \A j \in 1..(Len(a) + Len(c)) : d[j] = IF j <= Len(a) THEN a[j] ELSE c[j - Len(a)]
    BY <1>1, <1>3, <1>4, ConcatProperties
  <2>2. Len(a) = k - 1 /\ Len(a) + Len(c) = k
    BY <1>0, <1>1, <1>3
  <2>3. QED
    BY <2>1, <2>2
<1>6. InsertAt(s, k, e) = d \o b
  BY <1>a, <1>b, <1>c, <1>4 DEF InsertAt
<1>7. /\ d \o b \in Seq(S) /\ Len(d \o b) = Len(d) + Len(b)
      /\ \A j \in 1..(Len(d) + Len(b)) : (d \o b)[j] = IF j <= Len(d) THEN d[j] ELSE b[j - Len(d)]
  BY <1>2, <1>5, ConcatProperties
<1>8. ASSUME NEW j \in 1..(Len(s) + 1)
      PROVE  InsertAt(s, k, e)[j] = IF j < k THEN s[j] ELSE IF j = k THEN e ELSE s[j - 1]
  <2>1. j \in 1..(Len(d) + Len(b)) /\ Len(d) = k
    BY <1>0, <1>5, <1>2
  <2>2. CASE j < k
    <3>1. j \in 1..k /\ j <= k - 1 /\ j \in 1..(k - 1)
      BY <1>0, <2>2
    <3>2. (d \o b)[j] = d[j] /\ d[j] = a[j] /\ a[j] = s[j]
      BY <1>1, <1>5, <1>7, <2>1, <2>2, <3>1
    <3>3. QED
      BY <1>6, <2>2, <3>2
  <2>3. CASE j = k
    <3>1. j \in 1..k /\ ~(j <= k - 1) /\ j - (k - 1) = 1 /\ j <= k
      BY <1>0, <2>3
    <3>2. (d \o b)[j] = d[j] /\ d[j] = c[1]
      BY <1>5, <1>7, <2>1, <3>1
    <3>3. QED
      BY <1>3, <1>6, <2>3, <3>2
  <2>4. CASE j > k
    <3>1. j - k \in 1..(Len(s) - k + 1) /\ k + (j - k) - 1 = j - 1 /\ ~(j <= k)
      BY <1>0, <2>4
    <3>2. (d \o b)[j] = b[j - k]
      BY <1>7, <2>1, <3>1
    <3>3. b[j - k] = s[k + (j - k) - 1]
      BY <1>2, <3>1
    <3>4. QED
      BY <1>0, <1>6, <2>4, <3>1, <3>2, <3>3
  <2>5. QED
    BY <1>0, <2>2, <2>3, <2>4
<1>9. QED
  BY <1>0, <1>2, <1>5, <1>6, <1>7, <1>8

-----------------------------------------------------------------------------
(* The order of next_retry_at.                                             *)

Listed == {retries[i] : i \in DOMAIN retries}

\* Every FAILED row is listed once, and the due ones come first.
RetryInv ==
    /\ retries \in Seq(Event) /\ due \in 0..Len(retries)
    /\ \A i, j \in 1..Len(retries) : retries[i] = retries[j] => i = j

\* Without(e) is the list without e, and its due members come first.
LEMMA WithoutFacts ==
    ASSUME RetryInv, NEW e \in Event
    PROVE  /\ Without(e) \in Seq(Event)
           /\ \A i, j \in 1..Len(Without(e)) : Without(e)[i] = Without(e)[j] => i = j
           /\ {Without(e)[i] : i \in DOMAIN Without(e)} = Listed \ {e}
           /\ DueWithout(e) \in 0..Len(Without(e))
<1>0. /\ retries \in Seq(Event) /\ Len(retries) \in Nat /\ DOMAIN retries = 1..Len(retries)
      /\ due \in 0..Len(retries)
      /\ \A i, j \in 1..Len(retries) : retries[i] = retries[j] => i = j
  BY LenProperties DEF RetryInv
<1>1. CASE \A i \in 1..Len(retries) : retries[i] # e
  <2>1. Without(e) = retries /\ DueWithout(e) = due
    BY <1>0, <1>1 DEF Without, DueWithout
  <2>2. QED
    BY <1>0, <1>1, <2>1 DEF Listed
<1>2. CASE \E i \in 1..Len(retries) : retries[i] = e
  <2>1. PICK p \in 1..Len(retries) : retries[p] = e /\ Without(e) = RemoveAt(retries, p)
    BY <1>2 DEF Without
  <2>2. PICK s : s = Without(e)
    OBVIOUS
  <2>3. /\ s \in Seq(Event) /\ Len(s) = Len(retries) - 1
        /\ \A j \in 1..(Len(retries) - 1) : s[j] = IF j < p THEN retries[j] ELSE retries[j + 1]
    <3>1. /\ RemoveAt(retries, p) \in Seq(Event) /\ Len(RemoveAt(retries, p)) = Len(retries) - 1
          /\ \A j \in 1..(Len(retries) - 1) :
               RemoveAt(retries, p)[j] = IF j < p THEN retries[j] ELSE retries[j + 1]
      BY <1>0, Removed
    <3>2. QED
      BY <2>1, <2>2, <3>1
  <2>4. DOMAIN s = 1..(Len(retries) - 1)
    BY <2>3, LenProperties
  <2>5. ASSUME NEW i \in 1..Len(s), NEW j \in 1..Len(s), s[i] = s[j]
        PROVE  i = j
    <3>1. PICK a \in 1..Len(retries) : s[i] = retries[a] /\ a = IF i < p THEN i ELSE i + 1
      BY <1>0, <2>3
    <3>2. PICK b \in 1..Len(retries) : s[j] = retries[b] /\ b = IF j < p THEN j ELSE j + 1
      BY <1>0, <2>3
    <3>3. a = b
      BY <1>0, <2>5, <3>1, <3>2
    <3>4. QED
      BY <1>0, <2>3, <3>1, <3>2, <3>3
  <2>6. {s[i] : i \in DOMAIN s} = Listed \ {e}
    <3>1. ASSUME NEW i \in 1..(Len(retries) - 1)
          PROVE  s[i] \in Listed \ {e}
      <4>1. PICK a \in 1..Len(retries) : s[i] = retries[a] /\ a # p
        <5>1. CASE i < p
          <6>1. i \in 1..Len(retries) /\ i # p /\ s[i] = retries[i]
            BY <1>0, <2>3, <5>1
          <6>2. QED
            BY <6>1
        <5>2. CASE ~(i < p)
          <6>1. i + 1 \in 1..Len(retries) /\ i + 1 # p /\ s[i] = retries[i + 1]
            BY <1>0, <2>3, <5>2
          <6>2. QED
            BY <6>1
        <5>3. QED
          BY <5>1, <5>2
      <4>2. QED
        BY <1>0, <2>1, <4>1 DEF Listed
    <3>2. ASSUME NEW a \in 1..Len(retries), retries[a] # e
          PROVE  \E i \in 1..(Len(retries) - 1) : s[i] = retries[a]
      <4>1. CASE a < p
        <5>1. a \in 1..(Len(retries) - 1) /\ s[a] = retries[a]
          BY <1>0, <2>3, <4>1
        <5>2. QED
          BY <5>1
      <4>2. CASE a > p
        <5>1. a - 1 \in 1..(Len(retries) - 1) /\ ~(a - 1 < p) /\ (a - 1) + 1 = a
          BY <1>0, <4>2
        <5>2. s[a - 1] = retries[a]
          BY <2>3, <5>1
        <5>3. QED
          BY <5>1, <5>2
      <4>3. a # p
        BY <2>1, <3>2
      <4>4. QED
        BY <4>1, <4>2, <4>3
    <3>3. QED
      <4>1. Listed = {retries[a] : a \in 1..Len(retries)}
        BY <1>0 DEF Listed
      <4>2. {s[i] : i \in DOMAIN s} = {s[i] : i \in 1..(Len(retries) - 1)}
        BY <2>4
      <4>3. ASSUME NEW x \in Listed \ {e}
            PROVE  x \in {s[i] : i \in 1..(Len(retries) - 1)}
        BY <3>2, <4>1, <4>3
      <4>4. QED
        BY <3>1, <4>2, <4>3
  <2>7. DueWithout(e) \in 0..Len(s)
    <3>1. CASE \E i \in 1..due : retries[i] = e
      BY <1>0, <2>3, <3>1 DEF DueWithout
    <3>2. CASE ~\E i \in 1..due : retries[i] = e
      <4>1. DueWithout(e) = due
        BY <3>2 DEF DueWithout
      <4>2. ~(p \in 1..due)
        BY <2>1, <3>2
      <4>3. QED
        BY <1>0, <2>3, <4>1, <4>2
    <3>3. QED
      BY <3>1, <3>2
  <2>8. QED
    BY <2>2, <2>3, <2>5, <2>6, <2>7
<1>3. QED
  BY <1>1, <1>2

\* Forget(e) takes e from the list.
LEMMA ForgetFacts ==
    ASSUME RetryInv, NEW e \in Event, Forget(e)
    PROVE  RetryInv' /\ Listed' = Listed \ {e}
<1>1. PICK s, d : s = Without(e) /\ d = DueWithout(e)
  OBVIOUS
<1>2. /\ s \in Seq(Event)
      /\ \A i, j \in 1..Len(s) : s[i] = s[j] => i = j
      /\ {s[i] : i \in DOMAIN s} = Listed \ {e}
      /\ d \in 0..Len(s)
  BY <1>1, WithoutFacts
<1>3. retries' = s /\ due' = d
  BY <1>1 DEF Forget
<1>4. RetryInv'
  BY <1>2, <1>3 DEF RetryInv
<1>5. Listed' = {s[i] : i \in DOMAIN s}
  BY <1>3 DEF Listed
<1>6. QED
  BY <1>2, <1>4, <1>5

\* Delay(e) puts e behind what is due.
LEMMA DelayFacts ==
    ASSUME RetryInv, NEW e \in Event, Delay(e)
    PROVE  RetryInv' /\ Listed' = Listed \cup {e}
<1>0. PICK s : s = Without(e)
  OBVIOUS
<1>1. /\ s \in Seq(Event) /\ Len(s) \in Nat /\ DOMAIN s = 1..Len(s)
      /\ \A i, j \in 1..Len(s) : s[i] = s[j] => i = j
      /\ {s[i] : i \in DOMAIN s} = Listed \ {e}
      /\ DueWithout(e) \in 0..Len(s)
  BY <1>0, WithoutFacts, LenProperties
<1>2. due' = DueWithout(e)
  BY DEF Delay
<1>3. PICK k \in due' + 1..Len(s) + 1 : retries' = InsertAt(s, k, e)
  BY <1>0 DEF Delay
<1>4. k \in 1..(Len(s) + 1)
  BY <1>1, <1>2, <1>3
<1>5. PICK t : t = retries'
  OBVIOUS
<1>6. /\ t \in Seq(Event) /\ Len(t) = Len(s) + 1
      /\ \A j \in 1..(Len(s) + 1) :
           t[j] = IF j < k THEN s[j] ELSE IF j = k THEN e ELSE s[j - 1]
  <2>1. /\ InsertAt(s, k, e) \in Seq(Event) /\ Len(InsertAt(s, k, e)) = Len(s) + 1
        /\ \A j \in 1..(Len(s) + 1) :
             InsertAt(s, k, e)[j] = IF j < k THEN s[j] ELSE IF j = k THEN e ELSE s[j - 1]
    BY SMTT(30), <1>1, <1>4, Inserted
  <2>2. QED
    BY <1>3, <1>5, <2>1
<1>7. DOMAIN t = 1..(Len(s) + 1)
  BY <1>6, LenProperties
<1>8. \A i \in 1..Len(s) : s[i] # e
  BY <1>1
<1>m. ASSUME NEW i \in 1..(Len(s) + 1), i # k
      PROVE  \E a \in 1..Len(s) : t[i] = s[a] /\ a = IF i < k THEN i ELSE i - 1
  <2>1. CASE i < k
    <3>1. i \in 1..Len(s)
      BY <1>1, <1>4, <2>1
    <3>2. t[i] = s[i]
      BY <1>6, <2>1
    <3>3. QED
      BY <2>1, <3>1, <3>2
  <2>2. CASE ~(i < k)
    <3>1. i - 1 \in 1..Len(s)
      BY <1>1, <1>4, <1>m, <2>2
    <3>2. t[i] = s[i - 1]
      BY <1>6, <1>m, <2>2
    <3>3. QED
      BY <2>2, <3>1, <3>2
  <2>3. QED
    BY <2>1, <2>2
<1>9. ASSUME NEW i \in 1..Len(t), NEW j \in 1..Len(t), t[i] = t[j]
      PROVE  i = j
  <2>1. CASE i = k \/ j = k
    BY <1>1, <1>4, <1>6, <1>8, <1>9, <2>1
  <2>2. CASE i # k /\ j # k
    <3>0. i \in 1..(Len(s) + 1) /\ j \in 1..(Len(s) + 1)
      BY <1>6, <1>9
    <3>1. PICK a \in 1..Len(s) : t[i] = s[a] /\ a = IF i < k THEN i ELSE i - 1
      BY <1>m, <2>2, <3>0
    <3>2. PICK b \in 1..Len(s) : t[j] = s[b] /\ b = IF j < k THEN j ELSE j - 1
      BY <1>m, <2>2, <3>0
    <3>3. a = b
      BY <1>1, <1>9, <3>1, <3>2
    <3>4. QED
      BY <1>1, <1>4, <1>6, <2>2, <3>1, <3>2, <3>3
  <2>3. QED
    BY <2>1, <2>2
<1>10. {t[i] : i \in DOMAIN t} = Listed \cup {e}
  <2>1. ASSUME NEW i \in 1..(Len(s) + 1)
        PROVE  t[i] \in Listed \cup {e}
    <3>1. CASE i = k
      BY <1>4, <1>6, <3>1
    <3>2. CASE i # k
      <4>1. PICK a \in 1..Len(s) : t[i] = s[a]
        BY <1>m, <3>2
      <4>2. QED
        BY <1>1, <4>1
    <3>3. QED
      BY <3>1, <3>2
  <2>2. ASSUME NEW a \in 1..Len(s)
        PROVE  \E i \in 1..(Len(s) + 1) : t[i] = s[a]
    <3>1. CASE a < k
      <4>1. a \in 1..(Len(s) + 1) /\ t[a] = s[a]
        BY <1>1, <1>6, <3>1
      <4>2. QED
        BY <4>1
    <3>2. CASE ~(a < k)
      <4>1. a + 1 \in 1..(Len(s) + 1) /\ ~(a + 1 < k) /\ a + 1 # k /\ (a + 1) - 1 = a
        BY <1>1, <1>4, <3>2
      <4>2. t[a + 1] = s[a]
        BY <1>6, <4>1
      <4>3. QED
        BY <4>1, <4>2
    <3>3. QED
      BY <3>1, <3>2
  <2>3. t[k] = e
    BY <1>4, <1>6
  <2>4. {t[i] : i \in DOMAIN t} = {t[i] : i \in 1..(Len(s) + 1)}
    BY <1>7
  <2>5. {s[a] : a \in 1..Len(s)} = Listed \ {e}
    BY <1>1
  <2>6. ASSUME NEW x \in Listed \ {e}
        PROVE  x \in {t[i] : i \in 1..(Len(s) + 1)}
    BY <2>2, <2>5, <2>6
  <2>7. e \in {t[i] : i \in 1..(Len(s) + 1)}
    BY <1>4, <2>3
  <2>8. QED
    BY <2>1, <2>4, <2>6, <2>7
<1>11. due' \in 0..Len(t)
  BY <1>1, <1>2, <1>6
<1>12. QED
  BY SMTT(30), <1>5, <1>6, <1>9, <1>10, <1>11 DEF RetryInv, Listed

-----------------------------------------------------------------------------
(* The inductive invariant.                                                *)

Idle      == {"down", "idle", "claim", "poll", "list_due"}
Relaying  == {"xadd", "mark_processed", "mark_unpublished"}
AtWork    == {"find_event", "dispatch", "mark_succeeded", "mark_failed"}
Acking    == {"ack", "ack_throw"}
Carrying  == {"try_start"} \cup AtWork \cup Acking

TypeInv ==
    /\ outbox \in [Event -> {"none", "new", "processed"}]
    /\ log \in Seq(Event) /\ Len(log) <= MaxEntries
    /\ first \in 1..MaxEntries + 1
    /\ delivered \in 0..Len(log)
    /\ pel \subseteq 1..delivered
    /\ consumption \in [Event -> ConsumptionRow]
    /\ effects \in [Event -> Nat] /\ dropped \subseteq Event
    /\ wk \in [Worker -> WorkerState]
    /\ faults \in 0..MaxFaults

\* What a worker has read and has in hand: rows and events that exist,
\* entries that were delivered, and in hand the event of the entry; it is at
\* work on events that were started.
WorkerInv(w) ==
    LET u == wk[w] IN
      /\ u.pc \in Idle => u.rows = {} /\ u.entries = {}
      /\ u.pc = "claim" => u.phase = "claim"
      /\ u.pc = "poll" => u.phase = "poll"
      /\ u.pc = "list_due" => u.phase = "retry"
      /\ u.pc \in Relaying => u.phase = "publish"
      /\ u.pc \in Carrying => u.phase # "publish"
      /\ u.pc = "find_event" => u.phase = "retry"
      /\ u.phase \in {"claim", "poll"} => u.rows = {}
      /\ u.phase \in {"publish", "retry"} => u.entries = {}
      /\ u.entries \subseteq 1..delivered
      /\ \A e \in u.rows : outbox[e] # "none"
      /\ u.pc \in Relaying \cup Carrying => u.event \in Event /\ outbox[u.event] # "none"
      /\ u.pc = "mark_processed" => \E n \in 1..Len(log) : log[n] = u.event
      /\ u.pc \in Carrying /\ u.phase # "retry" => u.entry \in 1..delivered /\ log[u.entry] = u.event
      /\ u.pc \in Acking => u.phase # "retry"
      /\ u.pc \in AtWork => consumption[u.event].status # "NONE"
      /\ u.pc = "mark_succeeded" => effects[u.event] > 0

WorkersInv == \A w \in Worker : WorkerInv(w)

Limit == IF MaxAttempts = 0 THEN 1 ELSE MaxAttempts

\* The rows of event_consumptions, and the events of outbox and stream.
BookInv ==
    /\ RetryInv
    /\ Listed = {e \in Event : consumption[e].status = "FAILED"}
    /\ \A n \in 1..Len(log) : outbox[log[n]] # "none"
    /\ \A e \in Event :
         /\ consumption[e].status = "NONE" <=> consumption[e].attempts = 0
         /\ consumption[e].attempts <= Limit
         /\ consumption[e].status # "NONE" => outbox[e] # "none"
         /\ outbox[e] = "processed" => \E n \in 1..Len(log) : log[n] = e

\* Workers that have started an attempt and have not tried the handler yet:
\* each has an attempt of its own to take effect in.
Starters(e) == {w \in Worker : wk[w].event = e /\ wk[w].pc \in {"find_event", "dispatch"}}

EffectInv ==
    \A e \in Event :
      /\ IsFiniteSet(Starters(e))
      /\ effects[e] + Cardinality(Starters(e)) <= consumption[e].attempts

\* A pending entry nobody is about to acknowledge brings its event back.
BringsBack(n) ==
    \/ n < first \/ n > delivered
    \/ n \in pel /\ \A w \in Worker : ~(wk[w].pc \in Acking /\ wk[w].entry = n)

Kept(e) ==
    \/ consumption[e].status \in {"SUCCEEDED", "FAILED"}
    \/ consumption[e].attempts > 0 /\ consumption[e].attempts >= MaxAttempts
    \/ \E n \in 1..Len(log) : log[n] = e /\ BringsBack(n)
    \/ \E w \in Worker : Handling(w, e)
    \/ e \in dropped

KeptInv == \A n \in 1..Len(log) : Kept(log[n])

IndInv == TypeInv /\ WorkersInv /\ BookInv /\ EffectInv /\ KeptInv

-----------------------------------------------------------------------------
(* How the actions change a worker.                                        *)

OthersStill(w) == \A v \in Worker \ {w} : wk'[v] = wk[v]

\* The worker goes to p with everything it has.
Goes(w, p) ==
    /\ wk' \in [Worker -> WorkerState] /\ OthersStill(w)
    /\ wk'[w].pc = p /\ wk'[w].phase = wk[w].phase
    /\ wk'[w].rows = wk[w].rows /\ wk'[w].entries = wk[w].entries
    /\ wk'[w].event = wk[w].event /\ wk'[w].entry = wk[w].entry
    /\ wk'[w].claiming = wk[w].claiming /\ wk'[w].paused = wk[w].paused

\* The worker has nothing and is at p.
Rests(w, p) ==
    /\ wk' \in [Worker -> WorkerState] /\ OthersStill(w)
    /\ wk'[w].pc = p /\ wk'[w].phase = "publish"
    /\ wk'[w].rows = {} /\ wk'[w].entries = {}

\* The initial state of a process.
LEMMA DownFields ==
    /\ Down \in WorkerState /\ Down.pc = "down" /\ Down.phase = "publish"
    /\ Down.rows = {} /\ Down.entries = {} /\ Down.event = None
BY DEF Down, WorkerState, Label, Phase, Await

\* Goto moves the worker and keeps what it has.
LEMMA GotoFields ==
    ASSUME wk \in [Worker -> WorkerState], NEW w \in Worker, NEW p \in Label, Goto(w, p)
    PROVE  Goes(w, p)
BY DEF Goto, Goes, OthersStill, WorkerState

\* A worker whose tick is over has nothing.
LEMMA RestState ==
    ASSUME wk \in [Worker -> WorkerState], NEW w \in Worker, NEW u, u = Rest(w)
    PROVE  /\ u \in WorkerState /\ u.pc = "idle" /\ u.phase = "publish"
           /\ u.rows = {} /\ u.entries = {}
<1>1. u = [pc |-> "idle", phase |-> "publish", rows |-> {}, entries |-> {}, event |-> None,
           entry |-> 0, claiming |-> wk[w].claiming /\ wk[w].phase # "claim",
           paused |-> wk[w].paused]
  BY DEF Rest, Down
<1>2. (wk[w].claiming /\ wk[w].phase # "claim") \in BOOLEAN /\ wk[w].paused \in BOOLEAN
  BY DEF WorkerState
<1>3. QED
  BY <1>1, <1>2 DEF WorkerState, Label, Phase, Await

\* The same of a worker that XAUTOCLAIM has left with its flag set.
LEMMA StuckState ==
    ASSUME wk \in [Worker -> WorkerState], NEW w \in Worker, NEW u,
           u = [Rest(w) EXCEPT !.claiming = TRUE]
    PROVE  /\ u \in WorkerState /\ u.pc = "idle" /\ u.phase = "publish"
           /\ u.rows = {} /\ u.entries = {}
<1>1. PICK r : r = Rest(w)
  OBVIOUS
<1>2. /\ r \in WorkerState /\ r.pc = "idle" /\ r.phase = "publish"
      /\ r.rows = {} /\ r.entries = {}
  BY <1>1, RestState
<1>3. u = [r EXCEPT !.claiming = TRUE]
  BY <1>1
<1>4. QED
  BY <1>2, <1>3 DEF WorkerState

\* A worker that becomes u, the others stay as they are.
LEMMA Becomes ==
    ASSUME wk \in [Worker -> WorkerState], NEW w \in Worker, NEW u \in WorkerState,
           wk' = [wk EXCEPT ![w] = u]
    PROVE  wk' \in [Worker -> WorkerState] /\ OthersStill(w) /\ wk'[w] = u
BY DEF OthersStill

\* A process starts.
LEMMA StartShape ==
    ASSUME TypeInv, NEW w \in Worker, Start(w)
    PROVE  Rests(w, "idle")
<1>1. PICK p \in BOOLEAN : wk' = [wk EXCEPT ![w] = [Down EXCEPT !.pc = "idle", !.paused = p]]
  BY WorkerAssumption DEF Start
<1>2. PICK u : u = [Down EXCEPT !.pc = "idle", !.paused = p]
  OBVIOUS
<1>3. u = [pc |-> "idle", phase |-> "publish", rows |-> {}, entries |-> {}, event |-> None,
           entry |-> 0, claiming |-> FALSE, paused |-> p]
  BY <1>2 DEF Down
<1>4. /\ u \in WorkerState /\ u.pc = "idle" /\ u.phase = "publish"
      /\ u.rows = {} /\ u.entries = {}
  BY <1>3 DEF WorkerState, Label, Phase, Await
<1>5. QED
  BY <1>1, <1>2, <1>4, Becomes DEF TypeInv, Rests

\* A process dies.
LEMMA CrashShape ==
    ASSUME TypeInv, NEW w \in Worker, Crash(w)
    PROVE  Rests(w, "down")
BY DownFields, Becomes DEF TypeInv, Crash, Rests

\* A tick begins with the rows that are not relayed.
LEMMA ListUnprocessedShape ==
    ASSUME TypeInv, NEW w \in Worker, ListUnprocessed(w)
    PROVE  /\ wk' \in [Worker -> WorkerState] /\ OthersStill(w)
           /\ wk'[w].pc = "next" /\ wk'[w].phase = "publish"
           /\ wk'[w].rows = {e \in Event : outbox[e] = "new"}
           /\ wk'[w].entries = wk[w].entries
<1>1. PICK R : R = {e \in Event : outbox[e] = "new"}
  OBVIOUS
<1>2. PICK u : u = [wk[w] EXCEPT !.pc = "next", !.phase = "publish", !.rows = R]
  OBVIOUS
<1>3. R \in SUBSET Event /\ wk[w] \in WorkerState
  BY <1>1 DEF TypeInv
<1>4. /\ u \in WorkerState /\ u.pc = "next" /\ u.phase = "publish" /\ u.rows = R
      /\ u.entries = wk[w].entries
  BY <1>2, <1>3 DEF WorkerState, Label, Phase
<1>5. wk' = [wk EXCEPT ![w] = u]
  BY <1>1, <1>2 DEF ListUnprocessed
<1>6. QED
  BY <1>1, <1>4, <1>5, Becomes DEF TypeInv

\* A phase follows another with nothing left to do.
LEMMA NextPhaseShape ==
    ASSUME TypeInv, NEW w \in Worker, NextPhase(w)
    PROVE  /\ wk' \in [Worker -> WorkerState] /\ OthersStill(w)
           /\ wk'[w].rows = {} /\ wk'[w].entries = {}
           /\ \/ wk'[w].pc = "idle" /\ wk'[w].phase = "publish"
              \/ wk'[w].pc = "claim" /\ wk'[w].phase = "claim"
              \/ wk'[w].pc = "poll" /\ wk'[w].phase = "poll"
              \/ wk'[w].pc = "list_due" /\ wk'[w].phase = "retry"
<1>0. wk[w] \in WorkerState /\ wk[w].rows = {} /\ wk[w].entries = {} /\ wk \in [Worker -> WorkerState]
  BY DEF TypeInv, NextPhase
<1>1. CASE wk' = [wk EXCEPT ![w] = Rest(w)]
  BY <1>0, <1>1, RestState, Becomes
<1>2. CASE wk' = [wk EXCEPT ![w] = [wk[w] EXCEPT !.pc = "claim", !.phase = "claim"]]
  <2>1. PICK u : u = [wk[w] EXCEPT !.pc = "claim", !.phase = "claim"]
    OBVIOUS
  <2>2. /\ u \in WorkerState /\ u.pc = "claim" /\ u.phase = "claim"
        /\ u.rows = wk[w].rows /\ u.entries = wk[w].entries
    BY <1>0, <2>1 DEF WorkerState, Label, Await, Phase
  <2>3. QED
    BY <1>0, <1>2, <2>1, <2>2, Becomes
<1>3. CASE wk' = [wk EXCEPT ![w] = [wk[w] EXCEPT !.pc = "poll", !.phase = "poll", !.claiming = FALSE]]
  <2>1. PICK u : u = [wk[w] EXCEPT !.pc = "poll", !.phase = "poll", !.claiming = FALSE]
    OBVIOUS
  <2>2. /\ u \in WorkerState /\ u.pc = "poll" /\ u.phase = "poll"
        /\ u.rows = wk[w].rows /\ u.entries = wk[w].entries
    BY <1>0, <2>1 DEF WorkerState, Label, Await, Phase
  <2>3. QED
    BY <1>0, <1>3, <2>1, <2>2, Becomes
<1>4. CASE wk' = [wk EXCEPT ![w] = [wk[w] EXCEPT !.pc = "list_due", !.phase = "retry"]]
  <2>1. PICK u : u = [wk[w] EXCEPT !.pc = "list_due", !.phase = "retry"]
    OBVIOUS
  <2>2. /\ u \in WorkerState /\ u.pc = "list_due" /\ u.phase = "retry"
        /\ u.rows = wk[w].rows /\ u.entries = wk[w].entries
    BY <1>0, <2>1 DEF WorkerState, Label, Await, Phase
  <2>3. QED
    BY <1>0, <1>4, <2>1, <2>2, Becomes
<1>5. wk[w].phase \in {"publish", "claim", "poll", "retry"} /\ wk[w].paused \in BOOLEAN
  BY <1>0 DEF WorkerState, Phase
<1>6. QED
  <2>1. CASE wk[w].phase = "publish" /\ wk[w].paused
    BY <1>1, <2>1 DEF NextPhase
  <2>2. CASE wk[w].phase = "publish" /\ ~wk[w].paused
    BY <1>2, <2>2 DEF NextPhase
  <2>3. CASE wk[w].phase = "claim"
    BY <1>3, <2>3 DEF NextPhase
  <2>4. CASE wk[w].phase = "poll"
    BY <1>4, <2>4 DEF NextPhase
  <2>5. CASE wk[w].phase = "retry"
    BY <1>1, <2>5 DEF NextPhase
  <2>6. QED
    BY <1>5, <2>1, <2>2, <2>3, <2>4, <2>5

\* A row is taken up.
LEMMA TakeRowShape ==
    ASSUME TypeInv, NEW w \in Worker, TakeRow(w)
    PROVE  /\ wk' \in [Worker -> WorkerState] /\ OthersStill(w)
           /\ wk[w].pc = "next" /\ wk'[w].event \in wk[w].rows
           /\ wk'[w].pc = IF wk[w].phase = "publish" THEN "xadd" ELSE "try_start"
           /\ wk'[w].phase = wk[w].phase /\ wk'[w].entries = wk[w].entries
           /\ wk'[w].rows \subseteq wk[w].rows
<1>0. wk[w] \in WorkerState /\ wk \in [Worker -> WorkerState] /\ wk[w].pc = "next"
  BY DEF TypeInv, TakeRow, At
<1>1. PICK p : p = IF wk[w].phase = "publish" THEN "xadd" ELSE "try_start"
  OBVIOUS
<1>2. PICK e \in wk[w].rows :
         wk' = [wk EXCEPT ![w] = [@ EXCEPT !.rows = wk[w].rows \ {e}, !.event = e,
                  !.pc = IF wk[w].phase = "publish" THEN "xadd" ELSE "try_start"]]
  BY DEF TakeRow
<1>3. PICK u : u = [wk[w] EXCEPT !.rows = wk[w].rows \ {e}, !.event = e,
                 !.pc = IF wk[w].phase = "publish" THEN "xadd" ELSE "try_start"]
  OBVIOUS
<1>4. p \in Label /\ e \in Event \cup {None} /\ wk[w].rows \ {e} \in SUBSET Event
  BY <1>0, <1>1 DEF Label, Await, WorkerState
<1>5. /\ u \in WorkerState /\ u.pc = p /\ u.event = e /\ u.rows = wk[w].rows \ {e}
      /\ u.phase = wk[w].phase /\ u.entries = wk[w].entries
  BY <1>0, <1>1, <1>3, <1>4 DEF WorkerState
<1>6. wk' = [wk EXCEPT ![w] = u]
  BY <1>2, <1>3
<1>7. wk' \in [Worker -> WorkerState] /\ OthersStill(w) /\ wk'[w] = u
  BY <1>0, <1>5, <1>6, Becomes
<1>8. QED
  BY <1>0, <1>1, <1>5, <1>7

\* An entry is taken up.
LEMMA TakeEntryShape ==
    ASSUME TypeInv, NEW w \in Worker, WorkerInv(w), TakeEntry(w)
    PROVE  /\ wk' \in [Worker -> WorkerState] /\ OthersStill(w)
           /\ wk[w].pc = "next" /\ wk'[w].entry \in wk[w].entries
           /\ wk'[w].event = log[wk'[w].entry] /\ wk'[w].pc = "try_start"
           /\ wk'[w].phase = wk[w].phase /\ wk'[w].rows = wk[w].rows
           /\ wk'[w].entries \subseteq wk[w].entries
<1>0. wk[w] \in WorkerState /\ wk \in [Worker -> WorkerState] /\ wk[w].pc = "next"
  BY DEF TypeInv, TakeEntry, At
<1>1. PICK n \in wk[w].entries :
         wk' = [wk EXCEPT ![w] = [@ EXCEPT !.entries = wk[w].entries \ {n}, !.entry = n,
                                           !.event = log[n], !.pc = "try_start"]]
  BY DEF TakeEntry
<1>2. PICK u : u = [wk[w] EXCEPT !.entries = wk[w].entries \ {n}, !.entry = n,
                                 !.event = log[n], !.pc = "try_start"]
  OBVIOUS
<1>3. log[n] \in Event /\ n \in Nat
  BY DEF TypeInv, WorkerInv
<1>4. /\ u \in WorkerState /\ u.pc = "try_start" /\ u.event = log[n] /\ u.entry = n
      /\ u.entries = wk[w].entries \ {n}
      /\ u.phase = wk[w].phase /\ u.rows = wk[w].rows
  BY <1>0, <1>2, <1>3 DEF WorkerState, Label, Await
<1>5. wk' = [wk EXCEPT ![w] = u]
  BY <1>1, <1>2
<1>6. wk' \in [Worker -> WorkerState] /\ OthersStill(w) /\ wk'[w] = u
  BY <1>0, <1>4, <1>5, Becomes
<1>7. QED
  BY <1>0, <1>4, <1>6

\* Entries are reclaimed, or the phase is skipped.
LEMMA AutoClaimShape ==
    ASSUME TypeInv, NEW w \in Worker, NEW C \in SUBSET Claimable, AutoClaim(w, C)
    PROVE  /\ wk' \in [Worker -> WorkerState] /\ OthersStill(w)
           /\ wk'[w].rows = wk[w].rows /\ wk'[w].pc \in {"poll", "next"}
           /\ \/ wk'[w].pc = "poll" /\ wk'[w].phase = "poll" /\ wk'[w].entries = wk[w].entries
              \/ wk'[w].pc = "next" /\ wk'[w].phase = wk[w].phase /\ wk'[w].entries = C
<1>0. wk[w] \in WorkerState /\ wk \in [Worker -> WorkerState]
  BY DEF TypeInv
<1>1. CASE wk' = [wk EXCEPT ![w] = [wk[w] EXCEPT !.pc = "poll", !.phase = "poll"]]
  <2>1. PICK u : u = [wk[w] EXCEPT !.pc = "poll", !.phase = "poll"]
    OBVIOUS
  <2>2. /\ u \in WorkerState /\ u.pc = "poll" /\ u.phase = "poll"
        /\ u.rows = wk[w].rows /\ u.entries = wk[w].entries
    BY <1>0, <2>1 DEF WorkerState, Label, Await, Phase
  <2>3. QED
    BY <1>0, <1>1, <2>1, <2>2, Becomes
<1>2. CASE wk' = [wk EXCEPT ![w] = [wk[w] EXCEPT !.pc = "next", !.entries = C, !.claiming = TRUE]]
  <2>1. PICK u : u = [wk[w] EXCEPT !.pc = "next", !.entries = C, !.claiming = TRUE]
    OBVIOUS
  <2>2. C \in SUBSET Entry
    BY WorkerAssumption, LenProperties DEF TypeInv, Claimable, Entry
  <2>3. /\ u \in WorkerState /\ u.pc = "next" /\ u.phase = wk[w].phase
        /\ u.rows = wk[w].rows /\ u.entries = C
    BY <1>0, <2>1, <2>2 DEF WorkerState, Label
  <2>4. QED
    BY <1>0, <1>2, <2>1, <2>3, Becomes
<1>3. QED
  BY <1>1, <1>2 DEF AutoClaim

\* The rows that are due are listed.
LEMMA ListDueShape ==
    ASSUME TypeInv, RetryInv, NEW w \in Worker, ListDueRetries(w)
    PROVE  /\ wk' \in [Worker -> WorkerState] /\ OthersStill(w)
           /\ wk'[w].rows \subseteq Listed /\ wk'[w].pc = "next"
           /\ wk'[w].phase = wk[w].phase /\ wk'[w].entries = wk[w].entries
<1>0. wk[w] \in WorkerState /\ wk \in [Worker -> WorkerState]
  BY DEF TypeInv
<1>1. PICK R : R = {retries[i] : i \in {j \in 1..due : j <= RetryLimit}}
  OBVIOUS
<1>2. /\ Len(retries) \in Nat /\ DOMAIN retries = 1..Len(retries) /\ due \in 0..Len(retries)
      /\ \A i \in 1..Len(retries) : retries[i] \in Event
  BY LenProperties, ElementOfSeq DEF RetryInv
<1>3. R \subseteq Listed /\ R \in SUBSET Event
  BY <1>1, <1>2 DEF Listed
<1>4. PICK u : u = [wk[w] EXCEPT !.pc = "next", !.rows = R]
  OBVIOUS
<1>5. /\ u \in WorkerState /\ u.pc = "next" /\ u.rows = R
      /\ u.phase = wk[w].phase /\ u.entries = wk[w].entries
  BY <1>0, <1>3, <1>4 DEF WorkerState, Label
<1>6. wk' = [wk EXCEPT ![w] = u]
  BY <1>1, <1>4 DEF ListDueRetries
<1>7. wk' \in [Worker -> WorkerState] /\ OthersStill(w) /\ wk'[w] = u
  BY <1>0, <1>5, <1>6, Becomes
<1>8. QED
  BY <1>3, <1>5, <1>7

\* New entries are delivered: none that is unread is passed over.
LEMMA PollShape ==
    ASSUME TypeInv, NEW w \in Worker, PollOnce(w)
    PROVE  /\ wk' \in [Worker -> WorkerState] /\ OthersStill(w)
           /\ wk'[w].pc = "next" /\ wk'[w].phase = wk[w].phase /\ wk'[w].rows = wk[w].rows
           /\ delivered' \in delivered..Len(log)
           /\ wk'[w].entries \subseteq 1..delivered'
           /\ pel \subseteq pel' /\ pel' \subseteq 1..delivered'
           /\ \A n \in 1..Len(log) : n > delivered => n < first \/ n > delivered' \/ n \in pel'
<1>0. /\ wk[w] \in WorkerState /\ wk \in [Worker -> WorkerState]
      /\ Len(log) \in Nat /\ Len(log) <= MaxEntries /\ MaxEntries \in Nat
      /\ first \in 1..MaxEntries + 1 /\ delivered \in 0..Len(log) /\ pel \subseteq 1..delivered
      /\ ReadCount \in Nat
  BY WorkerAssumption, LenProperties DEF TypeInv
<1>1. PICK from : from = IF delivered < first THEN first ELSE delivered + 1
  OBVIOUS
<1>2. PICK to : to = IF from + ReadCount - 1 < Len(log) THEN from + ReadCount - 1 ELSE Len(log)
  OBVIOUS
<1>3. from \in Nat
  BY <1>0, <1>1
<1>4. /\ from \in Nat /\ from > delivered /\ from >= 1 /\ to \in Int /\ to <= Len(log)
      /\ \A n \in 1..Len(log) : n > delivered /\ n >= first => n >= from
  BY <1>0, <1>1, <1>2
<1>5. PICK R : R = from..to
  OBVIOUS
<1>6. /\ delivered' = (IF from <= to THEN to ELSE delivered) /\ pel' = pel \cup R
      /\ wk' = [wk EXCEPT ![w] = [wk[w] EXCEPT !.pc = "next", !.entries = R]]
  BY <1>0, <1>1, <1>2, <1>5 DEF PollOnce
<1>7. R \in SUBSET Entry
  BY <1>0, <1>4, <1>5 DEF Entry
<1>8. PICK u : u = [wk[w] EXCEPT !.pc = "next", !.entries = R]
  OBVIOUS
<1>9. /\ u \in WorkerState /\ u.pc = "next" /\ u.phase = wk[w].phase
      /\ u.rows = wk[w].rows /\ u.entries = R
  BY <1>0, <1>7, <1>8 DEF WorkerState, Label
<1>10. wk' \in [Worker -> WorkerState] /\ OthersStill(w) /\ wk'[w] = u
  BY <1>0, <1>6, <1>8, <1>9, Becomes
<1>11. delivered' \in delivered..Len(log) /\ R \subseteq 1..delivered'
  BY <1>0, <1>4, <1>5, <1>6
<1>12. pel \subseteq pel' /\ pel' \subseteq 1..delivered'
  BY <1>0, <1>6, <1>11
<1>13. ASSUME NEW n \in 1..Len(log), n > delivered
       PROVE  n < first \/ n > delivered' \/ n \in pel'
  BY <1>0, <1>4, <1>5, <1>6, <1>13
<1>14. QED
  BY <1>9, <1>10, <1>11, <1>12, <1>13

\* The worker acknowledges its entry and goes on, or throws.
LEMMA AckShape ==
    ASSUME TypeInv, NEW w \in Worker, Ack(w)
    PROVE  /\ wk[w].pc \in Acking
           /\ Goes(w, "next") \/ Rests(w, "idle")
<1>0. wk[w] \in WorkerState /\ wk \in [Worker -> WorkerState] /\ wk[w].pc \in Acking
  BY DEF TypeInv, Ack, Acking
<1>1. CASE At(w, "ack")
  <2>1. wk' = [wk EXCEPT ![w] = [wk[w] EXCEPT !.pc = "next"]]
    BY <1>0, <1>1 DEF Ack
  <2>2. PICK u : u = [wk[w] EXCEPT !.pc = "next"]
    OBVIOUS
  <2>3. /\ u \in WorkerState /\ u.pc = "next" /\ u.phase = wk[w].phase
        /\ u.rows = wk[w].rows /\ u.entries = wk[w].entries /\ u.event = wk[w].event
        /\ u.entry = wk[w].entry /\ u.claiming = wk[w].claiming /\ u.paused = wk[w].paused
    BY <1>0, <2>2 DEF WorkerState, Label
  <2>4. wk' \in [Worker -> WorkerState] /\ OthersStill(w) /\ wk'[w] = u
    BY <1>0, <2>1, <2>2, <2>3, Becomes
  <2>5. QED
    BY <1>0, <2>3, <2>4 DEF Goes
<1>2. CASE ~At(w, "ack")
  <2>1. wk' = [wk EXCEPT ![w] = Rest(w)]
    BY <1>2 DEF Ack
  <2>2. PICK u : u = Rest(w)
    OBVIOUS
  <2>3. u \in WorkerState /\ u.pc = "idle" /\ u.phase = "publish" /\ u.rows = {} /\ u.entries = {}
    BY <1>0, <2>2, RestState
  <2>4. wk' \in [Worker -> WorkerState] /\ OthersStill(w) /\ wk'[w] = u
    BY <1>0, <2>1, <2>2, <2>3, Becomes
  <2>5. QED
    BY <1>0, <2>3, <2>4 DEF Rests
<1>3. QED
  BY <1>1, <1>2

\* Where a throw leads.
LEMMA ThrowsShape ==
    ASSUME TypeInv, NEW w \in Worker, Throws(w)
    PROVE  \/ wk[w].pc \in {"xadd", "mark_processed"} /\ Goes(w, "mark_unpublished")
           \/ wk[w].pc \in {"dispatch", "mark_succeeded"} /\ Goes(w, "mark_failed")
           \/ wk[w].pc = "mark_failed" /\ wk[w].phase # "retry" /\ Goes(w, "ack_throw")
           \/ wk[w].pc \notin {"dispatch", "mark_succeeded"} /\ Rests(w, "idle")
<1>0. wk[w] \in WorkerState /\ wk \in [Worker -> WorkerState] /\ wk' = [wk EXCEPT ![w] = Thrown(w)]
  BY DEF TypeInv, Throws
<1>1. ASSUME NEW p \in {"mark_unpublished", "mark_failed", "ack_throw"},
             Thrown(w) = [wk[w] EXCEPT !.pc = p]
      PROVE  Goes(w, p)
  <2>1. Goto(w, p)
    BY <1>0, <1>1 DEF Goto
  <2>2. p \in Label
    BY DEF Label, Await
  <2>3. QED
    BY <1>0, <2>1, <2>2, GotoFields
<1>2. ASSUME NEW u, u = Thrown(w), u = Rest(w) \/ u = [Rest(w) EXCEPT !.claiming = TRUE]
      PROVE  Rests(w, "idle")
  <2>1. u \in WorkerState /\ u.pc = "idle" /\ u.phase = "publish" /\ u.rows = {} /\ u.entries = {}
    BY <1>0, <1>2, RestState, StuckState
  <2>2. wk' \in [Worker -> WorkerState] /\ OthersStill(w) /\ wk'[w] = u
    BY <1>0, <1>2, <2>1, Becomes
  <2>3. QED
    BY <2>1, <2>2 DEF Rests
<1>3. CASE wk[w].pc \in {"xadd", "mark_processed"}
  <2>1. Thrown(w) = [wk[w] EXCEPT !.pc = "mark_unpublished"]
    BY <1>3 DEF Thrown, At
  <2>2. QED
    BY <1>1, <1>3, <2>1
<1>4. CASE wk[w].pc \in {"dispatch", "mark_succeeded"}
  <2>1. Thrown(w) = [wk[w] EXCEPT !.pc = "mark_failed"]
    BY <1>4 DEF Thrown, At
  <2>2. QED
    BY <1>1, <1>4, <2>1
<1>5. CASE At(w, "mark_failed") /\ wk[w].phase # "retry"
  <2>1. Thrown(w) = [wk[w] EXCEPT !.pc = "ack_throw"]
    BY <1>5 DEF Thrown, At
  <2>2. QED
    BY <1>1, <1>5, <2>1 DEF At
<1>6. CASE /\ wk[w].pc \notin {"xadd", "mark_processed"} /\ wk[w].pc \notin {"dispatch", "mark_succeeded"}
           /\ ~(At(w, "mark_failed") /\ wk[w].phase # "retry")
  <2>1. Thrown(w) = Rest(w) \/ Thrown(w) = [Rest(w) EXCEPT !.claiming = TRUE]
    BY <1>6 DEF Thrown, At
  <2>2. QED
    BY <1>2, <1>6, <2>1
<1>7. QED
  BY <1>3, <1>4, <1>5, <1>6

-----------------------------------------------------------------------------
(* What every step keeps of the workers it does not move.                  *)

\* Rows and entries are added, rows of outbox_events and event_consumptions
\* stay, and effects are not undone.
Grows ==
    /\ delivered' >= delivered
    /\ Len(log') >= Len(log)
    /\ \A n \in 1..Len(log) : log'[n] = log[n]
    /\ \A e \in Event :
         /\ outbox[e] # "none" => outbox'[e] # "none"
         /\ consumption[e].status # "NONE" => consumption'[e].status # "NONE"
         /\ effects'[e] >= effects[e]

\* What TypeInv says of the stream, as the provers use it.
LEMMA StreamType ==
    ASSUME TypeInv
    PROVE  /\ Len(log) \in Nat /\ MaxEntries \in Nat /\ Len(log) <= MaxEntries
           /\ \A n \in 1..Len(log) : log[n] \in Event
           /\ first \in Nat /\ delivered \in Nat /\ delivered <= Len(log)
           /\ \A n \in pel : n \in Nat /\ n >= 1 /\ n <= delivered
<1>1. Len(log) \in Nat /\ \A n \in 1..Len(log) : log[n] \in Event
  BY LenProperties, ElementOfSeq DEF TypeInv
<1>2. QED
  BY <1>1, WorkerAssumption DEF TypeInv

\* The stream before and after a step.
LEMMA StreamGrows ==
    ASSUME TypeInv, TypeInv', Grows
    PROVE  /\ Len(log) \in Nat /\ delivered \in Nat /\ delivered <= Len(log)
           /\ Len(log') \in Nat /\ delivered' \in Nat /\ delivered' <= Len(log')
           /\ delivered' >= delivered /\ Len(log') >= Len(log)
           /\ \A n \in 1..Len(log) : log'[n] = log[n]
<1>1. Len(log') \in Nat
  BY LenProperties DEF TypeInv
<1>2. QED
  BY <1>1, StreamType DEF Grows, TypeInv

\* A worker that stays as it is keeps its invariant.
LEMMA OtherKept ==
    ASSUME TypeInv, TypeInv', Grows, NEW v \in Worker, WorkerInv(v), wk'[v] = wk[v]
    PROVE  WorkerInv(v)'
<1>0. /\ Len(log) \in Nat /\ delivered \in Nat /\ delivered <= Len(log)
      /\ Len(log') \in Nat /\ delivered' \in Nat /\ delivered' <= Len(log')
      /\ delivered' >= delivered /\ Len(log') >= Len(log)
      /\ \A n \in 1..Len(log) : log'[n] = log[n]
  BY StreamGrows
<1>a. /\ effects \in [Event -> Nat] /\ effects' \in [Event -> Nat]
      /\ wk[v].rows \subseteq Event /\ wk[v].event \in Event \cup {None}
  BY DEF TypeInv, WorkerState
<1>1. /\ wk[v].pc \in Idle => wk[v].rows = {} /\ wk[v].entries = {}
      /\ wk[v].pc = "claim" => wk[v].phase = "claim"
      /\ wk[v].pc = "poll" => wk[v].phase = "poll"
      /\ wk[v].pc = "list_due" => wk[v].phase = "retry"
      /\ wk[v].pc \in Relaying => wk[v].phase = "publish"
      /\ wk[v].pc \in Carrying => wk[v].phase # "publish"
      /\ wk[v].pc = "find_event" => wk[v].phase = "retry"
      /\ wk[v].phase \in {"claim", "poll"} => wk[v].rows = {}
      /\ wk[v].phase \in {"publish", "retry"} => wk[v].entries = {}
      /\ wk[v].pc \in Acking => wk[v].phase # "retry"
  BY DEF WorkerInv
<1>2. wk[v].entries \subseteq 1..delivered'
  <2>1. wk[v].entries \subseteq 1..delivered
    BY DEF WorkerInv
  <2>2. QED
    BY <1>0, <2>1
<1>3. \A e \in wk[v].rows : outbox'[e] # "none"
  BY <1>a DEF WorkerInv, Grows
<1>4. wk[v].pc \in Relaying \cup Carrying => wk[v].event \in Event /\ outbox'[wk[v].event] # "none"
  BY DEF WorkerInv, Grows
<1>5. wk[v].pc = "mark_processed" => \E n \in 1..Len(log') : log'[n] = wk[v].event
  <2>1. SUFFICES ASSUME wk[v].pc = "mark_processed"
                 PROVE  \E n \in 1..Len(log') : log'[n] = wk[v].event
    OBVIOUS
  <2>2. PICK n \in 1..Len(log) : log[n] = wk[v].event
    BY <2>1 DEF WorkerInv
  <2>3. n \in 1..Len(log') /\ log'[n] = wk[v].event
    BY <1>0, <2>2
  <2>4. QED
    BY <2>3
<1>6. wk[v].pc \in Carrying /\ wk[v].phase # "retry" =>
        wk[v].entry \in 1..delivered' /\ log'[wk[v].entry] = wk[v].event
  <2>1. SUFFICES ASSUME wk[v].pc \in Carrying /\ wk[v].phase # "retry"
                 PROVE  wk[v].entry \in 1..delivered' /\ log'[wk[v].entry] = wk[v].event
    OBVIOUS
  <2>2. wk[v].entry \in 1..delivered /\ log[wk[v].entry] = wk[v].event
    BY <2>1 DEF WorkerInv
  <2>3. QED
    BY <1>0, <2>2
<1>7. wk[v].pc \in AtWork => consumption'[wk[v].event].status # "NONE"
  <2>1. wk[v].pc \in AtWork => wk[v].event \in Event /\ consumption[wk[v].event].status # "NONE"
    BY DEF WorkerInv, Carrying
  <2>2. QED
    BY <2>1 DEF Grows
<1>8. wk[v].pc = "mark_succeeded" => effects'[wk[v].event] > 0
  <2>1. wk[v].pc = "mark_succeeded" => wk[v].event \in Event /\ effects[wk[v].event] > 0
    BY DEF WorkerInv, Carrying, AtWork
  <2>2. QED
    BY <1>a, <2>1 DEF Grows
<1>9. QED
  BY <1>1, <1>2, <1>3, <1>4, <1>5, <1>6, <1>7, <1>8 DEF WorkerInv

\* A step of w keeps the invariant of the workers when it keeps that of w.
LEMMA WorkersKept ==
    ASSUME TypeInv, TypeInv', Grows, WorkersInv, NEW w \in Worker, OthersStill(w), WorkerInv(w)'
    PROVE  WorkersInv'
<1>1. ASSUME NEW v \in Worker
      PROVE  WorkerInv(v)'
  <2>1. CASE v = w
    BY <2>1
  <2>2. CASE v # w
    BY <2>2, OtherKept DEF WorkersInv, OthersStill
  <2>3. QED
    BY <2>1, <2>2
<1>2. QED
  BY <1>1 DEF WorkersInv

\* A step that moves no worker keeps the invariant of the workers.
LEMMA NoneMoves ==
    ASSUME TypeInv, TypeInv', Grows, WorkersInv, wk' = wk
    PROVE  WorkersInv'
<1>1. ASSUME NEW v \in Worker
      PROVE  WorkerInv(v)'
  BY OtherKept DEF WorkersInv
<1>2. QED
  BY <1>1 DEF WorkersInv

\* A worker with nothing in hand has nothing to keep.
LEMMA RestsKept ==
    ASSUME NEW w \in Worker, NEW p \in {"idle", "down"}, Rests(w, p)
    PROVE  WorkerInv(w)'
BY DEF Rests, WorkerInv, Idle, Relaying, AtWork, Acking, Carrying

\* A worker that goes on with what it has in hand.
LEMMA GoesKept ==
    ASSUME TypeInv, TypeInv', Grows, NEW w \in Worker, WorkerInv(w),
           NEW p \in Relaying \cup Carrying \cup {"next"}, Goes(w, p),
           p \in Relaying => wk[w].pc \in Relaying,
           p \in Carrying => wk[w].pc \in Carrying,
           p = "find_event" => wk[w].phase = "retry",
           p = "mark_processed" => \E n \in 1..Len(log') : log'[n] = wk[w].event,
           p \in Acking => wk[w].phase # "retry",
           p \in AtWork => consumption'[wk[w].event].status # "NONE",
           p = "mark_succeeded" => effects'[wk[w].event] > 0
    PROVE  WorkerInv(w)'
<1>0. /\ Len(log) \in Nat /\ delivered \in Nat /\ delivered <= Len(log)
      /\ Len(log') \in Nat /\ delivered' \in Nat /\ delivered' <= Len(log')
      /\ delivered' >= delivered /\ Len(log') >= Len(log)
      /\ \A n \in 1..Len(log) : log'[n] = log[n]
  BY StreamGrows
<1>a. wk[w].rows \subseteq Event /\ wk[w].event \in Event \cup {None}
  BY DEF TypeInv, WorkerState
<1>b. PICK u : u = wk'[w]
  OBVIOUS
<1>c. /\ u.pc = p /\ u.phase = wk[w].phase /\ u.rows = wk[w].rows /\ u.entries = wk[w].entries
      /\ u.event = wk[w].event /\ u.entry = wk[w].entry
  BY <1>b DEF Goes
<1>d. p \notin Idle
  BY DEF Idle, Relaying, Carrying, AtWork, Acking
<1>1. /\ u.pc \in Idle => u.rows = {} /\ u.entries = {}
      /\ u.pc = "claim" => u.phase = "claim"
      /\ u.pc = "poll" => u.phase = "poll"
      /\ u.pc = "list_due" => u.phase = "retry"
      /\ u.pc \in Relaying => u.phase = "publish"
      /\ u.pc \in Carrying => u.phase # "publish"
      /\ u.pc = "find_event" => u.phase = "retry"
      /\ u.phase \in {"claim", "poll"} => u.rows = {}
      /\ u.phase \in {"publish", "retry"} => u.entries = {}
      /\ u.pc \in Acking => u.phase # "retry"
  BY <1>c, <1>d DEF WorkerInv, Idle
<1>2. u.entries \subseteq 1..delivered'
  <2>1. wk[w].entries \subseteq 1..delivered
    BY DEF WorkerInv
  <2>2. QED
    BY <1>0, <1>c, <2>1
<1>3. \A e \in u.rows : outbox'[e] # "none"
  BY <1>a, <1>c DEF WorkerInv, Grows
<1>4. u.pc \in Relaying \cup Carrying => u.event \in Event /\ outbox'[u.event] # "none"
  BY <1>c DEF WorkerInv, Grows
<1>5. u.pc = "mark_processed" => \E n \in 1..Len(log') : log'[n] = u.event
  BY <1>c
<1>6. u.pc \in Carrying /\ u.phase # "retry" => u.entry \in 1..delivered' /\ log'[u.entry] = u.event
  <2>1. SUFFICES ASSUME u.pc \in Carrying /\ u.phase # "retry"
                 PROVE  u.entry \in 1..delivered' /\ log'[u.entry] = u.event
    OBVIOUS
  <2>2. wk[w].entry \in 1..delivered /\ log[wk[w].entry] = wk[w].event
    BY <1>c, <2>1 DEF WorkerInv
  <2>3. QED
    BY <1>0, <1>c, <2>2
<1>7. u.pc \in AtWork => consumption'[u.event].status # "NONE"
  BY <1>c
<1>8. u.pc = "mark_succeeded" => effects'[u.event] > 0
  BY <1>c
<1>9. QED
  BY <1>b, <1>1, <1>2, <1>3, <1>4, <1>5, <1>6, <1>7, <1>8 DEF WorkerInv

-----------------------------------------------------------------------------
(* Attempts and effects.                                                   *)

\* A step that starts no attempt and has no effect.
LEMMA StartersShrink ==
    ASSUME TypeInv, TypeInv', EffectInv, NEW w \in Worker, OthersStill(w),
           \A e \in Event : effects'[e] = effects[e] /\ consumption'[e].attempts >= consumption[e].attempts,
           wk'[w].pc \in {"find_event", "dispatch"} =>
             wk[w].pc \in {"find_event", "dispatch"} /\ wk'[w].event = wk[w].event
    PROVE  EffectInv'
<1>1. ASSUME NEW e \in Event
      PROVE  /\ IsFiniteSet(Starters(e)')
             /\ effects'[e] + Cardinality(Starters(e)') <= consumption'[e].attempts
  <2>1. PICK S : S = Starters(e)
    OBVIOUS
  <2>2. PICK T : T = Starters(e)'
    OBVIOUS
  <2>3. T \subseteq S
    BY <2>1, <2>2 DEF Starters, OthersStill
  <2>4. IsFiniteSet(S) /\ effects[e] + Cardinality(S) <= consumption[e].attempts
    BY <2>1 DEF EffectInv
  <2>5. IsFiniteSet(T) /\ Cardinality(T) <= Cardinality(S)
    BY <2>3, <2>4, FS_Subset
  <2>6. Cardinality(S) \in Nat /\ Cardinality(T) \in Nat
    BY <2>4, <2>5, FS_CardinalityType
  <2>7. effects[e] \in Nat /\ consumption[e].attempts \in Nat /\ consumption'[e].attempts \in Nat
    BY DEF TypeInv, ConsumptionRow
  <2>8. effects'[e] + Cardinality(T) <= consumption'[e].attempts
    BY <2>4, <2>5, <2>6, <2>7
  <2>9. QED
    BY <2>2, <2>5, <2>8
<1>2. QED
  BY <1>1 DEF EffectInv

\* A step of w that starts an attempt at the event it has.
LEMMA StarterAdded ==
    ASSUME TypeInv, TypeInv', EffectInv, NEW w \in Worker, OthersStill(w), effects' = effects,
           NEW d \in Event, wk'[w].event = d, wk[w].pc = "try_start",
           wk'[w].pc \in {"find_event", "dispatch"},
           consumption'[d].attempts = consumption[d].attempts + 1,
           \A e \in Event \ {d} : consumption'[e] = consumption[e]
    PROVE  EffectInv'
<1>1. ASSUME NEW e \in Event
      PROVE  /\ IsFiniteSet(Starters(e)')
             /\ effects'[e] + Cardinality(Starters(e)') <= consumption'[e].attempts
  <2>1. PICK S : S = Starters(e)
    OBVIOUS
  <2>2. PICK T : T = Starters(e)'
    OBVIOUS
  <2>3. T = IF e = d THEN S \cup {w} ELSE S
    BY <2>1, <2>2 DEF Starters, OthersStill
  <2>4. IsFiniteSet(S) /\ effects[e] + Cardinality(S) <= consumption[e].attempts /\ w \notin S
    BY <2>1 DEF EffectInv, Starters
  <2>5. IsFiniteSet(T) /\ Cardinality(T) = IF e = d THEN Cardinality(S) + 1 ELSE Cardinality(S)
    BY <2>3, <2>4, FS_AddElement
  <2>6. Cardinality(S) \in Nat
    BY <2>4, FS_CardinalityType
  <2>7. effects[e] \in Nat /\ consumption[e].attempts \in Nat
    BY DEF TypeInv, ConsumptionRow
  <2>8. effects'[e] + Cardinality(T) <= consumption'[e].attempts
    BY <2>4, <2>5, <2>6, <2>7
  <2>9. QED
    BY <2>2, <2>5, <2>8
<1>2. QED
  BY <1>1 DEF EffectInv

\* A handler that takes effect does so in the attempt of its worker.
LEMMA StarterTried ==
    ASSUME TypeInv, TypeInv', EffectInv, NEW w \in Worker, OthersStill(w), consumption' = consumption,
           NEW d \in Event, wk[w].event = d, wk[w].pc = "dispatch",
           wk'[w].pc \notin {"find_event", "dispatch"},
           effects' = [effects EXCEPT ![d] = @ + 1]
    PROVE  EffectInv'
<1>1. ASSUME NEW e \in Event
      PROVE  /\ IsFiniteSet(Starters(e)')
             /\ effects'[e] + Cardinality(Starters(e)') <= consumption'[e].attempts
  <2>1. PICK S : S = Starters(e)
    OBVIOUS
  <2>2. PICK T : T = Starters(e)'
    OBVIOUS
  <2>3. T = IF e = d THEN S \ {w} ELSE S
    BY <2>1, <2>2 DEF Starters, OthersStill
  <2>4. IsFiniteSet(S) /\ effects[e] + Cardinality(S) <= consumption[e].attempts /\ (e = d => w \in S)
    BY <2>1 DEF EffectInv, Starters
  <2>5. IsFiniteSet(T) /\ Cardinality(T) = IF e = d THEN Cardinality(S) - 1 ELSE Cardinality(S)
    BY <2>3, <2>4, FS_RemoveElement
  <2>6. Cardinality(S) \in Nat
    BY <2>4, FS_CardinalityType
  <2>7. /\ effects[e] \in Nat /\ consumption[e].attempts \in Nat
        /\ effects'[e] = IF e = d THEN effects[e] + 1 ELSE effects[e]
    BY DEF TypeInv, ConsumptionRow
  <2>8. effects'[e] + Cardinality(T) <= consumption'[e].attempts
    BY <2>4, <2>5, <2>6, <2>7
  <2>9. QED
    BY <2>2, <2>5, <2>8
<1>2. QED
  BY <1>1 DEF EffectInv

-----------------------------------------------------------------------------
(* What keeps an event.                                                    *)

\* A step of w that leaves the stream alone keeps every event of which it
\* says nothing new, whose work w does not leave and whose entry w does not
\* come to acknowledge.
LEMMA KeptMove ==
    ASSUME TypeInv, WorkersInv, KeptInv, NEW w \in Worker, OthersStill(w), UNCHANGED redis,
           dropped \subseteq dropped',
           \A e \in Event :
             \/ Kept(e)'
             \/ /\ consumption'[e] = consumption[e]
                /\ Handling(w, e) => Handling(w, e)'
                /\ wk'[w].pc \in Acking => log[wk'[w].entry] # e
    PROVE  KeptInv'
<1>0. UNCHANGED <<log, first, delivered, pel>>
  BY DEF redis
<1>1. ASSUME NEW m \in 1..Len(log)
      PROVE  Kept(log[m])'
  <2>1. PICK e \in Event : e = log[m]
    BY StreamType
  <2>2. Kept(e)
    BY <2>1 DEF KeptInv
  <2>3. ASSUME ~Kept(e)'
        PROVE  Kept(e)'
    <3>0. /\ consumption'[e] = consumption[e]
          /\ Handling(w, e) => Handling(w, e)'
          /\ wk'[w].pc \in Acking => log[wk'[w].entry] # e
      BY <2>3
    <3>1. CASE consumption[e].status \in {"SUCCEEDED", "FAILED"}
      BY <3>0, <3>1 DEF Kept
    <3>2. CASE consumption[e].attempts > 0 /\ consumption[e].attempts >= MaxAttempts
      BY <3>0, <3>2 DEF Kept
    <3>3. CASE \E n \in 1..Len(log) : log[n] = e /\ BringsBack(n)
      <4>1. PICK n \in 1..Len(log) : log[n] = e /\ BringsBack(n)
        BY <3>3
      <4>2. CASE n < first \/ n > delivered
        <5>1. BringsBack(n)'
          BY <1>0, <4>2 DEF BringsBack
        <5>2. QED
          BY <1>0, <4>1, <5>1 DEF Kept
      <4>3. CASE n \in pel /\ \A v \in Worker : ~(wk[v].pc \in Acking /\ wk[v].entry = n)
        <5>1. ASSUME NEW v \in Worker
              PROVE  ~(wk'[v].pc \in Acking /\ wk'[v].entry = n)
          <6>1. CASE v = w
            BY <3>0, <4>1, <6>1
          <6>2. CASE v # w
            BY <4>3, <6>2 DEF OthersStill
          <6>3. QED
            BY <6>1, <6>2
        <5>2. BringsBack(n)'
          BY <1>0, <4>3, <5>1 DEF BringsBack
        <5>3. QED
          BY <1>0, <4>1, <5>2 DEF Kept
      <4>4. QED
        BY <4>1, <4>2, <4>3 DEF BringsBack
    <3>4. CASE \E v \in Worker : Handling(v, e)
      <4>1. PICK v \in Worker : Handling(v, e)
        BY <3>4
      <4>2. Handling(v, e)'
        <5>1. CASE v = w
          BY <3>0, <4>1, <5>1
        <5>2. CASE v # w
          BY <4>1, <5>2 DEF Handling, OthersStill
        <5>3. QED
          BY <5>1, <5>2
      <4>3. QED
        BY <4>2 DEF Kept
    <3>5. CASE e \in dropped
      BY <3>5 DEF Kept
    <3>6. QED
      BY <2>2, <3>1, <3>2, <3>3, <3>4, <3>5 DEF Kept
  <2>4. Kept(e)'
    BY <2>3
  <2>5. log'[m] = e /\ log' = log
    BY <1>0, <2>1
  <2>6. QED
    BY <2>1, <2>4, <2>5
<1>2. QED
  BY <1>0, <1>1 DEF KeptInv

-----------------------------------------------------------------------------
(* The steps that only move a worker.                                      *)

\* Such a step keeps the types and the tables.
LEMMA QuietFacts ==
    ASSUME IndInv, UNCHANGED <<outbox, redis, table, effects>>, dropped' \in SUBSET Event,
           faults' \in 0..MaxFaults, wk' \in [Worker -> WorkerState]
    PROVE  TypeInv' /\ Grows /\ BookInv'
<1>0. /\ UNCHANGED <<outbox, log, first, delivered, pel>>
      /\ UNCHANGED <<consumption, retries, due, effects>>
      /\ TypeInv /\ BookInv
  BY DEF redis, table, IndInv
<1>1. TypeInv'
  BY <1>0 DEF TypeInv
<1>2. Grows
  <2>1. Len(log) \in Nat /\ delivered \in Nat /\ effects \in [Event -> Nat]
    BY <1>0, StreamType DEF TypeInv
  <2>2. QED
    BY <1>0, <2>1 DEF Grows
<1>3. BookInv'
  BY <1>0 DEF BookInv, RetryInv, Listed
<1>4. QED
  BY <1>1, <1>2, <1>3

\* Such a step keeps the invariant when the worker's own part is kept and it
\* neither starts an attempt, nor leaves its work, nor comes to acknowledge.
LEMMA QuietStep ==
    ASSUME IndInv, NEW w \in Worker, UNCHANGED <<outbox, redis, table, effects>>,
           dropped' \in SUBSET Event, dropped \subseteq dropped', faults' \in 0..MaxFaults,
           wk' \in [Worker -> WorkerState], OthersStill(w), WorkerInv(w)',
           wk'[w].pc \in {"find_event", "dispatch"} =>
             wk[w].pc \in {"find_event", "dispatch"} /\ wk'[w].event = wk[w].event,
           \A e \in Event :
             \/ Kept(e)'
             \/ /\ Handling(w, e) => Handling(w, e)'
                /\ wk'[w].pc \in Acking => log[wk'[w].entry] # e
    PROVE  IndInv'
<1>0. TypeInv /\ WorkersInv /\ BookInv /\ EffectInv /\ KeptInv
  BY DEF IndInv
<1>1. TypeInv' /\ Grows /\ BookInv'
  BY QuietFacts
<1>2. WorkersInv'
  BY <1>0, <1>1, WorkersKept
<1>3. consumption' = consumption /\ effects' = effects /\ UNCHANGED redis
  BY DEF table
<1>4. EffectInv'
  <2>1. \A e \in Event : effects'[e] = effects[e] /\ consumption'[e].attempts >= consumption[e].attempts
    BY <1>0, <1>3 DEF TypeInv, ConsumptionRow
  <2>2. QED
    BY <1>0, <1>1, <2>1, StartersShrink
<1>5. KeptInv'
  <2>1. \A e \in Event : consumption'[e] = consumption[e]
    BY <1>3
  <2>2. QED
    BY <1>0, <1>3, <2>1, KeptMove
<1>6. QED
  BY <1>1, <1>2, <1>4, <1>5 DEF IndInv

\* A step that leaves the history alone too, of a worker that is not at work
\* and does not come to acknowledge.
LEMMA IdleStep ==
    ASSUME IndInv, NEW w \in Worker, UNCHANGED <<outbox, redis, table, history, faults>>,
           wk' \in [Worker -> WorkerState], OthersStill(w), WorkerInv(w)',
           wk[w].pc \notin AtWork, wk'[w].pc \notin {"find_event", "dispatch"} \cup Acking
    PROVE  IndInv'
<1>1. /\ UNCHANGED <<outbox, redis, table, effects>> /\ dropped' = dropped
      /\ dropped \in SUBSET Event /\ faults' \in 0..MaxFaults
  BY DEF history, IndInv, TypeInv
<1>2. \A e \in Event : ~Handling(w, e)
  BY DEF Handling, AtWork
<1>3. QED
  BY <1>1, <1>2, QuietStep

\* A process starts.
LEMMA StartStep ==
    ASSUME IndInv, NEW w \in Worker, Start(w)
    PROVE  IndInv'
<1>1. Rests(w, "idle")
  BY StartShape DEF IndInv
<1>2. WorkerInv(w)'
  BY <1>1, RestsKept
<1>3. /\ UNCHANGED <<outbox, redis, table, history, faults>>
      /\ wk[w].pc \notin AtWork /\ wk'[w].pc \notin {"find_event", "dispatch"} \cup Acking
  BY <1>1 DEF Start, At, AtWork, Acking, Rests
<1>4. QED
  BY <1>1, <1>2, <1>3, IdleStep DEF Rests

\* A tick begins.
LEMMA ListUnprocessedStep ==
    ASSUME IndInv, NEW w \in Worker, ListUnprocessed(w)
    PROVE  IndInv'
<1>0. TypeInv /\ WorkerInv(w) /\ wk[w].pc = "idle"
  BY DEF IndInv, WorkersInv, ListUnprocessed, At
<1>1. /\ wk' \in [Worker -> WorkerState] /\ OthersStill(w)
      /\ wk'[w].pc = "next" /\ wk'[w].phase = "publish"
      /\ wk'[w].rows = {e \in Event : outbox[e] = "new"}
      /\ wk'[w].entries = wk[w].entries
  BY <1>0, ListUnprocessedShape
<1>2. /\ UNCHANGED <<outbox, redis, table, history, faults>>
      /\ wk[w].pc \notin AtWork /\ wk'[w].pc \notin {"find_event", "dispatch"} \cup Acking
  BY <1>0, <1>1 DEF ListUnprocessed, AtWork, Acking
<1>3. wk'[w].entries = {} /\ \A e \in wk'[w].rows : outbox'[e] # "none"
  BY <1>0, <1>1, <1>2 DEF WorkerInv, Idle
<1>4. WorkerInv(w)'
  BY <1>1, <1>3 DEF WorkerInv, Idle, Relaying, AtWork, Acking, Carrying
<1>5. QED
  BY <1>1, <1>2, <1>4, IdleStep

\* A phase ends.
LEMMA NextPhaseStep ==
    ASSUME IndInv, NEW w \in Worker, NextPhase(w)
    PROVE  IndInv'
<1>0. TypeInv /\ wk[w].pc = "next"
  BY DEF IndInv, NextPhase, At
<1>1. /\ wk' \in [Worker -> WorkerState] /\ OthersStill(w)
      /\ wk'[w].rows = {} /\ wk'[w].entries = {}
      /\ \/ wk'[w].pc = "idle" /\ wk'[w].phase = "publish"
         \/ wk'[w].pc = "claim" /\ wk'[w].phase = "claim"
         \/ wk'[w].pc = "poll" /\ wk'[w].phase = "poll"
         \/ wk'[w].pc = "list_due" /\ wk'[w].phase = "retry"
  BY <1>0, NextPhaseShape
<1>2. /\ UNCHANGED <<outbox, redis, table, history, faults>>
      /\ wk[w].pc \notin AtWork /\ wk'[w].pc \notin {"find_event", "dispatch"} \cup Acking
  BY <1>0, <1>1 DEF NextPhase, AtWork, Acking
<1>3. WorkerInv(w)'
  BY <1>1 DEF WorkerInv, Idle, Relaying, AtWork, Acking, Carrying
<1>4. QED
  BY <1>1, <1>2, <1>3, IdleStep

\* A row is taken up.
LEMMA TakeRowStep ==
    ASSUME IndInv, NEW w \in Worker, TakeRow(w)
    PROVE  IndInv'
<1>0. TypeInv /\ WorkerInv(w)
  BY DEF IndInv, WorkersInv
<1>1. /\ wk' \in [Worker -> WorkerState] /\ OthersStill(w)
      /\ wk[w].pc = "next" /\ wk'[w].event \in wk[w].rows
      /\ wk'[w].pc = IF wk[w].phase = "publish" THEN "xadd" ELSE "try_start"
      /\ wk'[w].phase = wk[w].phase /\ wk'[w].entries = wk[w].entries
      /\ wk'[w].rows \subseteq wk[w].rows
  BY <1>0, TakeRowShape
<1>2. /\ UNCHANGED <<outbox, redis, table, history, faults>>
      /\ wk[w].pc \notin AtWork /\ wk'[w].pc \notin {"find_event", "dispatch"} \cup Acking
  BY <1>1 DEF TakeRow, AtWork, Acking
<1>3. delivered' = delivered /\ outbox' = outbox
  BY <1>2 DEF redis
<1>4. /\ wk[w].rows \subseteq Event /\ wk[w].phase \in {"publish", "retry"}
      /\ wk'[w].entries = {} /\ outbox[wk'[w].event] # "none"
  BY <1>0, <1>1 DEF WorkerInv, TypeInv, WorkerState, Phase
<1>5. \A e \in wk'[w].rows : outbox'[e] # "none"
  BY <1>0, <1>1, <1>3 DEF WorkerInv
<1>6. WorkerInv(w)'
  <2>1. CASE wk[w].phase = "publish"
    BY <1>1, <1>3, <1>4, <1>5, <2>1 DEF WorkerInv, Idle, Relaying, AtWork, Acking, Carrying
  <2>2. CASE wk[w].phase = "retry"
    BY <1>1, <1>3, <1>4, <1>5, <2>2 DEF WorkerInv, Idle, Relaying, AtWork, Acking, Carrying
  <2>3. QED
    BY <1>4, <2>1, <2>2
<1>7. QED
  BY <1>1, <1>2, <1>6, IdleStep

\* An entry is taken up.
LEMMA TakeEntryStep ==
    ASSUME IndInv, NEW w \in Worker, TakeEntry(w)
    PROVE  IndInv'
<1>0. TypeInv /\ WorkerInv(w) /\ BookInv
  BY DEF IndInv, WorkersInv
<1>1. /\ wk' \in [Worker -> WorkerState] /\ OthersStill(w)
      /\ wk[w].pc = "next" /\ wk'[w].entry \in wk[w].entries
      /\ wk'[w].event = log[wk'[w].entry] /\ wk'[w].pc = "try_start"
      /\ wk'[w].phase = wk[w].phase /\ wk'[w].rows = wk[w].rows
      /\ wk'[w].entries \subseteq wk[w].entries
  BY <1>0, TakeEntryShape
<1>2. /\ UNCHANGED <<outbox, redis, table, history, faults>>
      /\ wk[w].pc \notin AtWork /\ wk'[w].pc \notin {"find_event", "dispatch"} \cup Acking
  BY <1>1 DEF TakeEntry, AtWork, Acking
<1>3. delivered' = delivered /\ outbox' = outbox /\ log' = log
  BY <1>2 DEF redis
<1>4. /\ wk[w].phase \in {"claim", "poll"} /\ wk'[w].rows = {}
      /\ wk[w].entries \subseteq 1..delivered
  BY <1>0, <1>1 DEF WorkerInv, TypeInv, WorkerState, Phase
<1>5. wk'[w].entry \in 1..Len(log) /\ wk'[w].entry \in 1..delivered
  <2>1. delivered \in Nat /\ Len(log) \in Nat /\ delivered <= Len(log)
    BY <1>0, StreamType
  <2>2. QED
    BY <1>1, <1>4, <2>1
<1>6. wk'[w].event \in Event /\ outbox[wk'[w].event] # "none"
  <2>1. log[wk'[w].entry] \in Event
    BY <1>0, <1>5, StreamType
  <2>2. outbox[log[wk'[w].entry]] # "none"
    BY <1>0, <1>5 DEF BookInv
  <2>3. QED
    BY <1>1, <2>1, <2>2
<1>7. WorkerInv(w)'
  BY <1>1, <1>3, <1>4, <1>5, <1>6 DEF WorkerInv, Idle, Relaying, AtWork, Acking, Carrying
<1>8. QED
  BY <1>1, <1>2, <1>7, IdleStep

\* The retries that are due are listed.
LEMMA ListDueStep ==
    ASSUME IndInv, NEW w \in Worker, ListDueRetries(w)
    PROVE  IndInv'
<1>0. TypeInv /\ WorkerInv(w) /\ BookInv /\ wk[w].pc = "list_due"
  BY DEF IndInv, WorkersInv, ListDueRetries, At
<1>1. /\ wk' \in [Worker -> WorkerState] /\ OthersStill(w)
      /\ wk'[w].rows \subseteq Listed /\ wk'[w].pc = "next"
      /\ wk'[w].phase = wk[w].phase /\ wk'[w].entries = wk[w].entries
  BY <1>0, ListDueShape DEF BookInv
<1>2. /\ UNCHANGED <<outbox, redis, table, history, faults>>
      /\ wk[w].pc \notin AtWork /\ wk'[w].pc \notin {"find_event", "dispatch"} \cup Acking
  BY <1>0, <1>1 DEF ListDueRetries, AtWork, Acking
<1>3. outbox' = outbox
  BY <1>2
<1>4. wk[w].phase = "retry" /\ wk'[w].entries = {}
  BY <1>0, <1>1 DEF WorkerInv, Idle
<1>5. \A e \in wk'[w].rows : outbox'[e] # "none"
  BY <1>0, <1>1, <1>3 DEF BookInv
<1>6. WorkerInv(w)'
  BY <1>1, <1>4, <1>5 DEF WorkerInv, Idle, Relaying, AtWork, Acking, Carrying
<1>7. QED
  BY <1>1, <1>2, <1>6, IdleStep

\* A row whose relay failed is left.
LEMMA MarkUnpublishedStep ==
    ASSUME IndInv, NEW w \in Worker, MarkUnpublished(w)
    PROVE  IndInv'
<1>0. TypeInv /\ WorkerInv(w) /\ wk[w].pc = "mark_unpublished"
  BY DEF IndInv, WorkersInv, MarkUnpublished, At
<1>1. Goes(w, "next")
  BY <1>0, GotoFields DEF TypeInv, MarkUnpublished, Label
<1>2. /\ UNCHANGED <<outbox, redis, table, history, faults>>
      /\ wk[w].pc \notin AtWork /\ wk'[w].pc \notin {"find_event", "dispatch"} \cup Acking
  BY <1>0, <1>1 DEF MarkUnpublished, AtWork, Acking, Goes
<1>3. TypeInv' /\ Grows
  BY <1>0, <1>1, <1>2, QuietFacts DEF Goes, history, TypeInv
<1>4. WorkerInv(w)'
  BY <1>0, <1>1, <1>3, GoesKept DEF Relaying, Carrying, AtWork, Acking
<1>5. QED
  BY <1>1, <1>2, <1>4, IdleStep DEF Goes

\* The event of a retry is found.
LEMMA FindEventStep ==
    ASSUME IndInv, NEW w \in Worker, FindEvent(w)
    PROVE  IndInv'
<1>0. TypeInv /\ WorkerInv(w) /\ wk[w].pc = "find_event"
  BY DEF IndInv, WorkersInv, FindEvent, At
<1>1. Goes(w, "dispatch")
  BY <1>0, GotoFields DEF TypeInv, FindEvent, Label, Await
<1>2. /\ UNCHANGED <<outbox, redis, table, effects>> /\ consumption' = consumption
      /\ dropped' = dropped /\ dropped \in SUBSET Event /\ faults' \in 0..MaxFaults
  BY <1>0 DEF FindEvent, history, table, TypeInv
<1>3. TypeInv' /\ Grows
  BY <1>1, <1>2, QuietFacts DEF Goes
<1>4. consumption'[wk[w].event].status # "NONE"
  BY <1>0, <1>2 DEF WorkerInv, AtWork
<1>5. WorkerInv(w)'
  BY <1>0, <1>1, <1>3, <1>4, GoesKept DEF Relaying, Carrying, AtWork, Acking
<1>6. \A e \in Event : (Handling(w, e) => Handling(w, e)') /\ wk'[w].pc \notin Acking
  BY <1>1 DEF Handling, Goes, Acking
<1>7. QED
  BY <1>0, <1>1, <1>2, <1>5, <1>6, QuietStep DEF Goes

-----------------------------------------------------------------------------
(* The steps that write a table or the stream.                             *)

\* A step of the stream keeps the events of its entries when every entry
\* that brought its event back still does.
LEMMA KeptStream ==
    ASSUME TypeInv, TypeInv', KeptInv, Grows, NEW w \in Worker, OthersStill(w), wk[w].pc \notin AtWork,
           consumption' = consumption, dropped' = dropped,
           \A n \in 1..Len(log) : BringsBack(n) => BringsBack(n)'
    PROVE  \A m \in 1..Len(log) : Kept(log[m])'
<1>0. /\ Len(log) \in Nat /\ Len(log') \in Nat /\ Len(log') >= Len(log)
      /\ \A n \in 1..Len(log) : log'[n] = log[n]
  BY StreamGrows
<1>1. SUFFICES ASSUME NEW m \in 1..Len(log)
               PROVE  Kept(log[m])'
  OBVIOUS
<1>2. PICK e : e = log[m]
  OBVIOUS
<1>3. Kept(e)
  BY <1>2 DEF KeptInv
<1>4. Kept(e)'
  <2>1. CASE consumption[e].status \in {"SUCCEEDED", "FAILED"}
    BY <2>1 DEF Kept
  <2>2. CASE consumption[e].attempts > 0 /\ consumption[e].attempts >= MaxAttempts
    BY <2>2 DEF Kept
  <2>3. CASE \E n \in 1..Len(log) : log[n] = e /\ BringsBack(n)
    <3>1. PICK n \in 1..Len(log) : log[n] = e /\ BringsBack(n)
      BY <2>3
    <3>2. n \in 1..Len(log') /\ log'[n] = e /\ BringsBack(n)'
      BY <1>0, <3>1
    <3>3. QED
      BY <3>2 DEF Kept
  <2>4. CASE \E v \in Worker : Handling(v, e)
    <3>1. PICK v \in Worker : Handling(v, e)
      BY <2>4
    <3>2. v # w
      BY <3>1 DEF Handling, AtWork
    <3>3. Handling(v, e)'
      BY <3>1, <3>2 DEF Handling, OthersStill
    <3>4. QED
      BY <3>3 DEF Kept
  <2>5. CASE e \in dropped
    BY <2>5 DEF Kept
  <2>6. QED
    BY <1>3, <2>1, <2>2, <2>3, <2>4, <2>5 DEF Kept
<1>5. log'[m] = e
  BY <1>0, <1>2
<1>6. QED
  BY <1>4, <1>5

\* A request inserts an event.
LEMMA InsertStep ==
    ASSUME IndInv, NEW d \in Event, Insert(d)
    PROVE  IndInv'
<1>0. /\ TypeInv /\ WorkersInv /\ BookInv /\ EffectInv /\ KeptInv
      /\ outbox[d] = "none" /\ outbox' = [outbox EXCEPT ![d] = "new"]
      /\ UNCHANGED <<log, first, delivered, pel, consumption, retries, due, effects, dropped, wk, faults>>
  BY DEF IndInv, Insert, redis, table, history
<1>1. TypeInv'
  BY <1>0 DEF TypeInv
<1>2. \A e \in Event : outbox'[e] = IF e = d THEN "new" ELSE outbox[e]
  BY <1>0 DEF TypeInv
<1>3. Grows
  <2>1. Len(log) \in Nat /\ delivered \in Nat /\ effects \in [Event -> Nat]
    BY <1>0, StreamType DEF TypeInv
  <2>2. QED
    BY <1>0, <1>2, <2>1 DEF Grows
<1>4. WorkersInv'
  BY <1>0, <1>1, <1>3, NoneMoves
<1>5. BookInv'
  <2>1. RetryInv' /\ Listed' = {e \in Event : consumption'[e].status = "FAILED"}
    BY <1>0 DEF BookInv, RetryInv, Listed
  <2>2. \A n \in 1..Len(log) : log[n] \in Event /\ outbox'[log[n]] # "none"
    BY <1>0, <1>2, StreamType DEF BookInv
  <2>3. \A e \in Event : outbox'[e] = "processed" => outbox[e] = "processed"
    BY <1>2
  <2>4. \A e \in Event : outbox[e] # "none" => outbox'[e] # "none"
    BY <1>2
  <2>5. QED
    BY <1>0, <2>1, <2>2, <2>3, <2>4 DEF BookInv
<1>6. EffectInv'
  BY <1>0 DEF EffectInv, Starters
<1>7. KeptInv'
  BY <1>0 DEF KeptInv, Kept, BringsBack, Handling
<1>8. QED
  BY <1>1, <1>4, <1>5, <1>6, <1>7 DEF IndInv

\* A backoff elapses.
LEMMA BackoffStep ==
    ASSUME IndInv, BackoffElapses
    PROVE  IndInv'
<1>0. /\ TypeInv /\ WorkersInv /\ BookInv /\ EffectInv /\ KeptInv
      /\ due < Len(retries) /\ due' = due + 1
      /\ UNCHANGED <<outbox, log, first, delivered, pel, consumption, retries, effects, dropped, wk, faults>>
  BY DEF IndInv, BackoffElapses, redis, history
<1>1. TypeInv'
  BY <1>0 DEF TypeInv
<1>2. Grows
  <2>1. Len(log) \in Nat /\ delivered \in Nat /\ effects \in [Event -> Nat]
    BY <1>0, StreamType DEF TypeInv
  <2>2. QED
    BY <1>0, <2>1 DEF Grows
<1>3. WorkersInv'
  BY <1>0, <1>1, <1>2, NoneMoves
<1>4. BookInv'
  <2>1. RetryInv'
    <3>1. Len(retries) \in Nat
      BY <1>0, LenProperties DEF BookInv, RetryInv
    <3>2. due' \in 0..Len(retries)
      BY <1>0, <3>1 DEF BookInv, RetryInv
    <3>3. QED
      BY <1>0, <3>2 DEF BookInv, RetryInv
  <2>2. QED
    BY <1>0, <2>1 DEF BookInv, Listed
<1>5. EffectInv'
  BY <1>0 DEF EffectInv, Starters
<1>6. KeptInv'
  BY <1>0 DEF KeptInv, Kept, BringsBack, Handling
<1>7. QED
  BY <1>1, <1>3, <1>4, <1>5, <1>6 DEF IndInv

\* A row is added to the stream.
LEMMA XAddStep ==
    ASSUME IndInv, NEW w \in Worker, XAdd(w)
    PROVE  IndInv'
<1>0. /\ TypeInv /\ WorkersInv /\ WorkerInv(w) /\ BookInv /\ EffectInv /\ KeptInv
      /\ wk[w].pc = "xadd" /\ Len(log) < MaxEntries /\ log' = Append(log, wk[w].event)
      /\ first' \in first..Len(log) + 1
      /\ UNCHANGED <<outbox, delivered, pel, consumption, retries, due, effects, dropped, faults>>
  BY DEF IndInv, WorkersInv, XAdd, At, table, history
<1>1. Goes(w, "mark_processed")
  BY <1>0, GotoFields DEF TypeInv, XAdd, Label, Await
<1>2. PICK d \in Event : d = wk[w].event /\ outbox[d] # "none"
  BY <1>0 DEF WorkerInv, Relaying
<1>3. /\ Len(log) \in Nat /\ MaxEntries \in Nat /\ first \in Nat /\ delivered \in Nat
      /\ delivered <= Len(log) /\ \A n \in 1..Len(log) : log[n] \in Event
  BY <1>0, StreamType
<1>4. /\ log' \in Seq(Event) /\ Len(log') = Len(log) + 1 /\ log'[Len(log) + 1] = d
      /\ \A n \in 1..Len(log) : log'[n] = log[n]
  <2>1. log \in Seq(Event)
    BY <1>0 DEF TypeInv
  <2>2. QED
    BY <1>0, <1>2, <2>1, AppendProperties
<1>5. TypeInv'
  <2>1. Len(log') <= MaxEntries /\ delivered' \in 0..Len(log') /\ first' \in 1..MaxEntries + 1
    BY <1>0, <1>3, <1>4 DEF TypeInv
  <2>2. QED
    BY <1>0, <1>1, <1>4, <2>1 DEF TypeInv, Goes
<1>6. Grows
  <2>1. effects \in [Event -> Nat]
    BY <1>0 DEF TypeInv
  <2>2. QED
    BY <1>0, <1>3, <1>4, <2>1 DEF Grows
<1>7. WorkersInv'
  <2>1. \E n \in 1..Len(log') : log'[n] = wk[w].event
    BY <1>2, <1>3, <1>4
  <2>2. WorkerInv(w)'
    BY <1>0, <1>1, <1>5, <1>6, <2>1, GoesKept DEF Relaying, Carrying, AtWork, Acking
  <2>3. QED
    BY <1>0, <1>1, <1>5, <1>6, <2>2, WorkersKept DEF Goes
<1>8. BookInv'
  <2>1. RetryInv' /\ Listed' = {e \in Event : consumption'[e].status = "FAILED"}
    BY <1>0 DEF BookInv, RetryInv, Listed
  <2>2. ASSUME NEW n \in 1..Len(log')
        PROVE  outbox'[log'[n]] # "none"
    <3>1. CASE n \in 1..Len(log)
      BY <1>0, <1>4, <3>1 DEF BookInv
    <3>2. CASE n = Len(log) + 1
      BY <1>0, <1>2, <1>4, <3>2
    <3>3. QED
      BY <1>3, <1>4, <3>1, <3>2
  <2>3. ASSUME NEW e \in Event, outbox'[e] = "processed"
        PROVE  \E n \in 1..Len(log') : log'[n] = e
    <3>1. PICK n \in 1..Len(log) : log[n] = e
      BY <1>0, <2>3 DEF BookInv
    <3>2. n \in 1..Len(log') /\ log'[n] = e
      BY <1>3, <1>4, <3>1
    <3>3. QED
      BY <3>2
  <2>4. QED
    BY <1>0, <2>1, <2>2, <2>3 DEF BookInv
<1>9. EffectInv'
  <2>1. \A e \in Event : effects'[e] = effects[e] /\ consumption'[e].attempts >= consumption[e].attempts
    BY <1>0 DEF TypeInv, ConsumptionRow
  <2>2. wk'[w].pc \notin {"find_event", "dispatch"}
    BY <1>1 DEF Goes
  <2>3. QED
    BY <1>0, <1>1, <1>5, <2>1, <2>2, StartersShrink DEF Goes
<1>10. KeptInv'
  <2>1. ASSUME NEW n \in 1..Len(log), BringsBack(n)
        PROVE  BringsBack(n)'
    <3>1. CASE n < first \/ n > delivered
      BY <1>0, <1>3, <3>1 DEF BringsBack
    <3>2. CASE n \in pel /\ \A v \in Worker : ~(wk[v].pc \in Acking /\ wk[v].entry = n)
      <4>1. ASSUME NEW v \in Worker
            PROVE  ~(wk'[v].pc \in Acking /\ wk'[v].entry = n)
        BY <1>1, <3>2 DEF Goes, OthersStill, Acking
      <4>2. QED
        BY <1>0, <3>2, <4>1 DEF BringsBack
    <3>3. QED
      BY <2>1, <3>1, <3>2 DEF BringsBack
  <2>2. wk[w].pc \notin AtWork
    BY <1>0 DEF AtWork
  <2>3. \A m \in 1..Len(log) : Kept(log[m])'
    BY <1>0, <1>1, <1>5, <1>6, <2>1, <2>2, KeptStream DEF Goes
  <2>4. Kept(d)'
    <3>1. PICK n : n = Len(log) + 1
      OBVIOUS
    <3>2. n \in 1..Len(log') /\ log'[n] = d /\ n > delivered'
      BY <1>0, <1>3, <1>4, <3>1
    <3>3. BringsBack(n)'
      BY <3>2 DEF BringsBack
    <3>4. QED
      BY <3>2, <3>3 DEF Kept
  <2>5. ASSUME NEW m \in 1..Len(log')
        PROVE  Kept(log[m])'
    <3>1. CASE m \in 1..Len(log)
      BY <2>3, <3>1
    <3>2. CASE m = Len(log) + 1
      BY <1>4, <2>4, <3>2
    <3>3. QED
      BY <1>3, <1>4, <3>1, <3>2
  <2>6. QED
    BY <2>5 DEF KeptInv
<1>11. QED
  BY <1>5, <1>7, <1>8, <1>9, <1>10 DEF IndInv

\* A row is marked as relayed.
LEMMA MarkProcessedStep ==
    ASSUME IndInv, NEW w \in Worker, MarkProcessed(w)
    PROVE  IndInv'
<1>0. /\ TypeInv /\ WorkersInv /\ WorkerInv(w) /\ BookInv /\ EffectInv /\ KeptInv
      /\ wk[w].pc = "mark_processed" /\ outbox' = [outbox EXCEPT ![wk[w].event] = "processed"]
      /\ UNCHANGED <<log, first, delivered, pel, consumption, retries, due, effects, dropped, faults>>
  BY DEF IndInv, WorkersInv, MarkProcessed, At, redis, table, history
<1>1. Goes(w, "next")
  BY <1>0, GotoFields DEF TypeInv, MarkProcessed, Label
<1>2. PICK d \in Event : d = wk[w].event
  BY <1>0 DEF WorkerInv, Relaying
<1>3. \A e \in Event : outbox'[e] = IF e = d THEN "processed" ELSE outbox[e]
  BY <1>0, <1>2 DEF TypeInv
<1>4. TypeInv'
  BY <1>0, <1>1 DEF TypeInv, Goes
<1>5. Grows
  <2>1. Len(log) \in Nat /\ delivered \in Nat /\ effects \in [Event -> Nat]
    BY <1>0, StreamType DEF TypeInv
  <2>2. QED
    BY <1>0, <1>3, <2>1 DEF Grows
<1>6. WorkersInv'
  <2>1. WorkerInv(w)'
    BY <1>0, <1>1, <1>4, <1>5, GoesKept DEF Relaying, Carrying, AtWork, Acking
  <2>2. QED
    BY <1>0, <1>1, <1>4, <1>5, <2>1, WorkersKept DEF Goes
<1>7. BookInv'
  <2>1. RetryInv' /\ Listed' = {e \in Event : consumption'[e].status = "FAILED"}
    BY <1>0 DEF BookInv, RetryInv, Listed
  <2>2. \A n \in 1..Len(log) : log[n] \in Event /\ outbox'[log[n]] # "none"
    BY <1>0, <1>3, StreamType DEF BookInv
  <2>3. \E n \in 1..Len(log) : log[n] = d
    BY <1>0, <1>2 DEF WorkerInv
  <2>4. \A e \in Event : outbox'[e] = "processed" => \E n \in 1..Len(log) : log[n] = e
    BY <1>0, <1>3, <2>3 DEF BookInv
  <2>5. \A e \in Event : outbox[e] # "none" => outbox'[e] # "none"
    BY <1>3
  <2>6. QED
    BY <1>0, <2>1, <2>2, <2>4, <2>5 DEF BookInv
<1>8. EffectInv'
  <2>1. \A e \in Event : effects'[e] = effects[e] /\ consumption'[e].attempts >= consumption[e].attempts
    BY <1>0 DEF TypeInv, ConsumptionRow
  <2>2. wk'[w].pc \notin {"find_event", "dispatch"}
    BY <1>1 DEF Goes
  <2>3. QED
    BY <1>0, <1>1, <1>4, <2>1, <2>2, StartersShrink DEF Goes
<1>9. KeptInv'
  <2>1. UNCHANGED redis
    BY <1>0 DEF redis
  <2>2. \A e \in Event : consumption'[e] = consumption[e] /\ ~Handling(w, e) /\ wk'[w].pc \notin Acking
    BY <1>0, <1>1 DEF Handling, Goes, Acking
  <2>3. QED
    BY <1>0, <1>1, <2>1, <2>2, KeptMove DEF Goes
<1>10. QED
  BY <1>4, <1>6, <1>7, <1>8, <1>9 DEF IndInv

\* Entries are reclaimed.
LEMMA AutoClaimStep ==
    ASSUME IndInv, NEW w \in Worker, NEW C \in SUBSET Claimable, AutoClaim(w, C)
    PROVE  IndInv'
<1>0. /\ TypeInv /\ WorkersInv /\ WorkerInv(w) /\ BookInv /\ EffectInv /\ KeptInv
      /\ wk[w].pc = "claim" /\ pel' \in {pel, {n \in pel : Live(n)}}
      /\ UNCHANGED <<outbox, log, first, delivered, consumption, retries, due, effects, dropped, faults>>
  BY DEF IndInv, WorkersInv, AutoClaim, At, table, history
<1>1. /\ wk' \in [Worker -> WorkerState] /\ OthersStill(w)
      /\ wk'[w].rows = wk[w].rows /\ wk'[w].pc \in {"poll", "next"}
      /\ \/ wk'[w].pc = "poll" /\ wk'[w].phase = "poll" /\ wk'[w].entries = wk[w].entries
         \/ wk'[w].pc = "next" /\ wk'[w].phase = wk[w].phase /\ wk'[w].entries = C
  BY <1>0, AutoClaimShape
<1>2. /\ Len(log) \in Nat /\ first \in Nat /\ delivered \in Nat /\ delivered <= Len(log)
      /\ \A n \in pel : n \in Nat /\ n >= 1 /\ n <= delivered
  BY <1>0, StreamType
<1>3. TypeInv'
  <2>1. pel' \subseteq 1..delivered
    BY <1>0, <1>2
  <2>2. QED
    BY <1>0, <1>1, <2>1 DEF TypeInv
<1>4. Grows
  <2>1. effects \in [Event -> Nat]
    BY <1>0 DEF TypeInv
  <2>2. QED
    BY <1>0, <1>2, <2>1 DEF Grows
<1>5. WorkersInv'
  <2>1. wk[w].phase = "claim" /\ wk[w].rows = {} /\ wk[w].entries = {}
    BY <1>0 DEF WorkerInv, Idle
  <2>2. C \subseteq 1..delivered
    BY <1>2 DEF Claimable
  <2>3. WorkerInv(w)'
    BY <1>0, <1>1, <2>1, <2>2 DEF WorkerInv, Idle, Relaying, AtWork, Acking, Carrying
  <2>4. QED
    BY <1>0, <1>1, <1>3, <1>4, <2>3, WorkersKept
<1>6. BookInv'
  BY <1>0 DEF BookInv, RetryInv, Listed
<1>7. EffectInv'
  <2>1. \A e \in Event : effects'[e] = effects[e] /\ consumption'[e].attempts >= consumption[e].attempts
    BY <1>0 DEF TypeInv, ConsumptionRow
  <2>2. QED
    BY <1>0, <1>1, <1>3, <2>1, StartersShrink
<1>8. KeptInv'
  <2>1. ASSUME NEW n \in 1..Len(log), BringsBack(n)
        PROVE  BringsBack(n)'
    <3>1. CASE n < first \/ n > delivered
      BY <1>0, <3>1 DEF BringsBack
    <3>2. CASE /\ ~(n < first) /\ n \in pel
               /\ \A v \in Worker : ~(wk[v].pc \in Acking /\ wk[v].entry = n)
      <4>1. ASSUME NEW v \in Worker
            PROVE  ~(wk'[v].pc \in Acking /\ wk'[v].entry = n)
        BY <1>1, <3>2 DEF OthersStill, Acking
      <4>2. Live(n)
        BY <1>2, <3>2 DEF Live
      <4>3. n \in pel'
        BY <1>0, <3>2, <4>2
      <4>4. QED
        BY <4>1, <4>3 DEF BringsBack
    <3>3. QED
      BY <2>1, <3>1, <3>2 DEF BringsBack
  <2>2. wk[w].pc \notin AtWork
    BY <1>0 DEF AtWork
  <2>3. \A m \in 1..Len(log) : Kept(log[m])'
    BY <1>0, <1>1, <1>3, <1>4, <2>1, <2>2, KeptStream
  <2>4. QED
    BY <1>0, <2>3 DEF KeptInv
<1>9. QED
  BY <1>3, <1>5, <1>6, <1>7, <1>8 DEF IndInv

\* New entries are read.
LEMMA PollStep ==
    ASSUME IndInv, NEW w \in Worker, PollOnce(w)
    PROVE  IndInv'
<1>0. /\ TypeInv /\ WorkersInv /\ WorkerInv(w) /\ BookInv /\ EffectInv /\ KeptInv /\ wk[w].pc = "poll"
      /\ UNCHANGED <<outbox, log, first, consumption, retries, due, effects, dropped, faults>>
  BY DEF IndInv, WorkersInv, PollOnce, At, table, history
<1>1. /\ wk' \in [Worker -> WorkerState] /\ OthersStill(w)
      /\ wk'[w].pc = "next" /\ wk'[w].phase = wk[w].phase /\ wk'[w].rows = wk[w].rows
      /\ delivered' \in delivered..Len(log)
      /\ wk'[w].entries \subseteq 1..delivered'
      /\ pel \subseteq pel' /\ pel' \subseteq 1..delivered'
      /\ \A n \in 1..Len(log) : n > delivered => n < first \/ n > delivered' \/ n \in pel'
  BY <1>0, PollShape
<1>2. /\ Len(log) \in Nat /\ first \in Nat /\ delivered \in Nat /\ delivered <= Len(log)
      /\ \A n \in pel : n \in Nat /\ n >= 1 /\ n <= delivered
  BY <1>0, StreamType
<1>3. TypeInv'
  <2>1. delivered' \in 0..Len(log)
    BY <1>1, <1>2
  <2>2. QED
    BY <1>0, <1>1, <2>1 DEF TypeInv
<1>4. Grows
  <2>1. effects \in [Event -> Nat] /\ delivered' >= delivered
    BY <1>0, <1>1, <1>2 DEF TypeInv
  <2>2. QED
    BY <1>0, <1>2, <2>1 DEF Grows
<1>5. WorkersInv'
  <2>1. wk[w].phase = "poll" /\ wk[w].rows = {} /\ wk[w].entries = {}
    BY <1>0 DEF WorkerInv, Idle
  <2>2. WorkerInv(w)'
    BY <1>0, <1>1, <2>1 DEF WorkerInv, Idle, Relaying, AtWork, Acking, Carrying
  <2>3. QED
    BY <1>0, <1>1, <1>3, <1>4, <2>2, WorkersKept
<1>6. BookInv'
  BY <1>0 DEF BookInv, RetryInv, Listed
<1>7. EffectInv'
  <2>1. \A e \in Event : effects'[e] = effects[e] /\ consumption'[e].attempts >= consumption[e].attempts
    BY <1>0 DEF TypeInv, ConsumptionRow
  <2>2. QED
    BY <1>0, <1>1, <1>3, <2>1, StartersShrink
<1>8. KeptInv'
  <2>1. ASSUME NEW n \in 1..Len(log), BringsBack(n)
        PROVE  BringsBack(n)'
    <3>1. CASE n < first
      BY <1>0, <3>1 DEF BringsBack
    <3>2. CASE /\ n \in pel
               /\ \A v \in Worker : ~(wk[v].pc \in Acking /\ wk[v].entry = n)
      <4>1. ASSUME NEW v \in Worker
            PROVE  ~(wk'[v].pc \in Acking /\ wk'[v].entry = n)
        BY <1>1, <3>2 DEF OthersStill, Acking
      <4>2. QED
        BY <1>1, <3>2, <4>1 DEF BringsBack
    <3>3. CASE n > delivered
      <4>1. ASSUME NEW v \in Worker
            PROVE  ~(wk'[v].pc \in Acking /\ wk'[v].entry = n)
        <5>1. CASE v = w
          BY <1>1, <5>1 DEF Acking
        <5>2. CASE v # w
          <6>1. WorkerInv(v) /\ wk'[v] = wk[v]
            BY <1>0, <1>1, <5>2 DEF WorkersInv, OthersStill
          <6>2. wk[v].pc \in Acking => wk[v].entry \in 1..delivered
            BY <6>1 DEF WorkerInv, Carrying
          <6>3. QED
            BY <1>2, <3>3, <6>1, <6>2
        <5>3. QED
          BY <5>1, <5>2
      <4>2. n < first \/ n > delivered' \/ n \in pel'
        BY <1>1, <3>3
      <4>3. QED
        BY <1>0, <4>1, <4>2 DEF BringsBack
    <3>4. QED
      BY <2>1, <3>1, <3>2, <3>3 DEF BringsBack
  <2>2. wk[w].pc \notin AtWork
    BY <1>0 DEF AtWork
  <2>3. \A m \in 1..Len(log) : Kept(log[m])'
    BY <1>0, <1>1, <1>3, <1>4, <2>1, <2>2, KeptStream
  <2>4. QED
    BY <1>0, <2>3 DEF KeptInv
<1>9. QED
  BY <1>3, <1>5, <1>6, <1>7, <1>8 DEF IndInv

\* An entry is acknowledged.
LEMMA AckStep ==
    ASSUME IndInv, NEW w \in Worker, Ack(w)
    PROVE  IndInv'
<1>0. /\ TypeInv /\ WorkersInv /\ WorkerInv(w) /\ BookInv /\ EffectInv /\ KeptInv
      /\ pel' = pel \ {wk[w].entry}
      /\ UNCHANGED <<outbox, log, first, delivered, consumption, retries, due, effects, dropped, faults>>
  BY DEF IndInv, WorkersInv, Ack, table, history
<1>1. wk[w].pc \in Acking /\ (Goes(w, "next") \/ Rests(w, "idle"))
  BY <1>0, AckShape
<1>2. wk' \in [Worker -> WorkerState] /\ OthersStill(w) /\ wk'[w].pc \in {"next", "idle"}
  BY <1>1 DEF Goes, Rests
<1>3. TypeInv'
  <2>1. pel' \subseteq 1..delivered
    BY <1>0 DEF TypeInv
  <2>2. QED
    BY <1>0, <1>2, <2>1 DEF TypeInv
<1>4. Grows
  <2>1. Len(log) \in Nat /\ delivered \in Nat /\ effects \in [Event -> Nat]
    BY <1>0, StreamType DEF TypeInv
  <2>2. QED
    BY <1>0, <2>1 DEF Grows
<1>5. WorkersInv'
  <2>1. CASE Goes(w, "next")
    <3>1. WorkerInv(w)'
      BY <1>0, <1>3, <1>4, <2>1, GoesKept DEF Relaying, Carrying, AtWork, Acking
    <3>2. QED
      BY <1>0, <1>2, <1>3, <1>4, <3>1, WorkersKept
  <2>2. CASE Rests(w, "idle")
    <3>1. WorkerInv(w)'
      BY <2>2, RestsKept
    <3>2. QED
      BY <1>0, <1>2, <1>3, <1>4, <3>1, WorkersKept
  <2>3. QED
    BY <1>1, <2>1, <2>2
<1>6. BookInv'
  BY <1>0 DEF BookInv, RetryInv, Listed
<1>7. EffectInv'
  <2>1. \A e \in Event : effects'[e] = effects[e] /\ consumption'[e].attempts >= consumption[e].attempts
    BY <1>0 DEF TypeInv, ConsumptionRow
  <2>2. QED
    BY <1>0, <1>2, <1>3, <2>1, StartersShrink
<1>8. KeptInv'
  <2>1. ASSUME NEW n \in 1..Len(log), BringsBack(n)
        PROVE  BringsBack(n)'
    <3>1. CASE n < first \/ n > delivered
      BY <1>0, <3>1 DEF BringsBack
    <3>2. CASE n \in pel /\ \A v \in Worker : ~(wk[v].pc \in Acking /\ wk[v].entry = n)
      <4>1. ASSUME NEW v \in Worker
            PROVE  ~(wk'[v].pc \in Acking /\ wk'[v].entry = n)
        BY <1>2, <3>2 DEF OthersStill, Acking
      <4>2. n \in pel'
        BY <1>0, <1>1, <3>2
      <4>3. QED
        BY <4>1, <4>2 DEF BringsBack
    <3>3. QED
      BY <2>1, <3>1, <3>2 DEF BringsBack
  <2>2. wk[w].pc \notin AtWork
    BY <1>1 DEF AtWork, Acking
  <2>3. \A m \in 1..Len(log) : Kept(log[m])'
    BY <1>0, <1>2, <1>3, <1>4, <2>1, <2>2, KeptStream
  <2>4. QED
    BY <1>0, <2>3 DEF KeptInv
<1>9. QED
  BY <1>3, <1>5, <1>6, <1>7, <1>8 DEF IndInv

\* A handler takes effect.
LEMMA DispatchStep ==
    ASSUME IndInv, NEW w \in Worker, Dispatch(w)
    PROVE  IndInv'
<1>0. /\ TypeInv /\ WorkersInv /\ WorkerInv(w) /\ BookInv /\ EffectInv /\ KeptInv
      /\ wk[w].pc = "dispatch" /\ effects' = [effects EXCEPT ![wk[w].event] = @ + 1]
      /\ UNCHANGED <<outbox, log, first, delivered, pel, consumption, retries, due, dropped, faults>>
  BY DEF IndInv, WorkersInv, Dispatch, At, redis, table
<1>1. Goes(w, "mark_succeeded")
  BY <1>0, GotoFields DEF TypeInv, Dispatch, Label, Await
<1>2. PICK d \in Event : d = wk[w].event /\ consumption[d].status # "NONE"
  BY <1>0 DEF WorkerInv, Carrying, AtWork
<1>3. TypeInv' /\ \A e \in Event : effects'[e] >= effects[e] /\ effects'[d] > 0
  BY SMTT(30), <1>0, <1>1, <1>2 DEF TypeInv, Goes
<1>4. Grows
  <2>1. Len(log) \in Nat /\ delivered \in Nat
    BY <1>0, StreamType
  <2>2. QED
    BY <1>0, <1>3, <2>1 DEF Grows
<1>5. WorkersInv'
  <2>1. consumption'[wk[w].event].status # "NONE" /\ effects'[wk[w].event] > 0
    BY <1>0, <1>2, <1>3
  <2>2. WorkerInv(w)'
    BY <1>0, <1>1, <1>3, <1>4, <2>1, GoesKept DEF Relaying, Carrying, AtWork, Acking
  <2>3. QED
    BY <1>0, <1>1, <1>3, <1>4, <2>2, WorkersKept DEF Goes
<1>6. BookInv'
  BY <1>0 DEF BookInv, RetryInv, Listed
<1>7. EffectInv'
  <2>1. wk'[w].pc \notin {"find_event", "dispatch"} /\ OthersStill(w)
    BY <1>1 DEF Goes
  <2>2. QED
    BY <1>0, <1>2, <1>3, <2>1, StarterTried
<1>8. KeptInv'
  <2>1. UNCHANGED redis
    BY <1>0 DEF redis
  <2>2. \A e \in Event : /\ consumption'[e] = consumption[e] /\ wk'[w].pc \notin Acking
                         /\ Handling(w, e) => Handling(w, e)'
    BY <1>0, <1>1 DEF Handling, Goes, Acking
  <2>3. QED
    BY <1>0, <1>1, <2>1, <2>2, KeptMove DEF Goes
<1>9. QED
  BY <1>3, <1>5, <1>6, <1>7, <1>8 DEF IndInv

\* The rows after a step that writes the row of one event.
LEMMA BookStep ==
    ASSUME TypeInv, BookInv, NEW d \in Event, outbox[d] # "none", UNCHANGED <<outbox, log>>, RetryInv',
           \A e \in Event \ {d} : consumption'[e] = consumption[e],
           consumption'[d].status \in {"PROCESSING", "SUCCEEDED", "FAILED"},
           consumption'[d].attempts \in 1..Limit,
           Listed' = IF consumption'[d].status = "FAILED" THEN Listed \cup {d} ELSE Listed \ {d}
    PROVE  BookInv'
<1>1. Listed' = {e \in Event : consumption'[e].status = "FAILED"}
  BY DEF BookInv
<1>2. ASSUME NEW e \in Event
      PROVE  /\ consumption'[e].status = "NONE" <=> consumption'[e].attempts = 0
             /\ consumption'[e].attempts <= Limit
             /\ consumption'[e].status # "NONE" => outbox[e] # "none"
  <2>1. CASE e = d
    BY <2>1
  <2>2. CASE e # d
    BY <2>2 DEF BookInv
  <2>3. QED
    BY <2>1, <2>2
<1>3. QED
  BY <1>1, <1>2 DEF BookInv

\* The types after such a step, and what others have read.
LEMMA RowFacts ==
    ASSUME TypeInv, UNCHANGED <<outbox, redis, effects>>, dropped' \in SUBSET Event,
           faults' \in 0..MaxFaults, wk' \in [Worker -> WorkerState],
           consumption' \in [Event -> ConsumptionRow], NEW d \in Event,
           consumption'[d].status # "NONE",
           \A e \in Event \ {d} : consumption'[e] = consumption[e]
    PROVE  TypeInv' /\ Grows
<1>0. UNCHANGED <<outbox, log, first, delivered, pel, effects>>
  BY DEF redis
<1>1. TypeInv'
  BY <1>0 DEF TypeInv
<1>2. Grows
  <2>1. Len(log) \in Nat /\ delivered \in Nat /\ effects \in [Event -> Nat]
    BY <1>0, StreamType DEF TypeInv
  <2>2. QED
    BY <1>0, <2>1 DEF Grows
<1>3. QED
  BY <1>1, <1>2

\* An event that may not start has an outcome, or no attempt left.
LEMMA NotStarted ==
    ASSUME TypeInv, BookInv, NEW d \in Event, ~CanStart(d)
    PROVE  \/ consumption[d].status \in {"SUCCEEDED", "FAILED"}
           \/ consumption[d].attempts > 0 /\ consumption[d].attempts >= MaxAttempts
<1>0. /\ consumption[d].attempts \in Nat /\ MaxAttempts \in Nat
      /\ consumption[d].status # "NONE" /\ consumption[d].attempts # 0
      /\ consumption[d].status \in {"NONE", "PROCESSING", "SUCCEEDED", "FAILED"}
  BY WorkerAssumption DEF TypeInv, ConsumptionRow, BookInv, CanStart
<1>1. CASE BackedOff(d)
  <2>1. d \in Listed
    BY <1>1, LenProperties DEF BackedOff, Listed, BookInv, RetryInv
  <2>2. QED
    BY <2>1 DEF BookInv
<1>2. CASE ~BackedOff(d)
  BY <1>0, <1>2 DEF CanStart
<1>3. QED
  BY <1>1, <1>2

\* An event whose worker is gone, and was not on its own, is brought back.
LEMMA PendingKept ==
    ASSUME TypeInv, NEW w \in Worker, WorkerInv(w), wk[w].pc \in Carrying, ~OnItsOwn(w),
           UNCHANGED redis, OthersStill(w), wk'[w].pc \notin Acking, NEW e \in Event, wk[w].event = e
    PROVE  Kept(e)'
<1>0. UNCHANGED <<log, first, delivered, pel>>
  BY DEF redis
<1>1. PICK n : n = wk[w].entry
  OBVIOUS
<1>2. /\ n \in pel /\ wk[w].phase # "retry"
      /\ \A v \in Worker \ {w} : ~(wk[v].entry = n /\ wk[v].pc \in Acking)
  BY <1>1 DEF OnItsOwn, Acking
<1>3. n \in 1..delivered /\ log[n] = e
  BY <1>1, <1>2 DEF WorkerInv
<1>4. n \in 1..Len(log)
  BY <1>3, StreamType
<1>5. ASSUME NEW v \in Worker
      PROVE  ~(wk'[v].pc \in Acking /\ wk'[v].entry = n)
  BY <1>2 DEF OthersStill
<1>6. BringsBack(n)'
  BY <1>0, <1>2, <1>5 DEF BringsBack
<1>7. QED
  BY <1>0, <1>3, <1>4, <1>6 DEF Kept

\* An attempt is started: its worker is at work on it, or, if the answer is
\* lost, its entry brings it back or it is dropped.
LEMMA StartedStep ==
    ASSUME IndInv, NEW w \in Worker, wk[w].pc = "try_start", CanStart(wk[w].event),
           SetProcessing(wk[w].event), UNCHANGED <<outbox, redis, effects>>,
           dropped' \in SUBSET Event, dropped \subseteq dropped', faults' \in 0..MaxFaults,
           \/ \E p \in {"find_event", "dispatch"} :
                Goes(w, p) /\ (p = "find_event" => wk[w].phase = "retry")
           \/ Rests(w, "idle") /\ (OnItsOwn(w) => wk[w].event \in dropped')
    PROVE  IndInv'
<1>0. TypeInv /\ WorkersInv /\ WorkerInv(w) /\ BookInv /\ EffectInv /\ KeptInv
  BY DEF IndInv, WorkersInv
<1>1. PICK d \in Event : d = wk[w].event /\ outbox[d] # "none"
  BY <1>0 DEF WorkerInv, Carrying
<1>2. UNCHANGED <<outbox, log, first, delivered, pel, effects>>
  BY DEF redis
<1>3. /\ consumption' = [consumption EXCEPT ![d] = [status |-> "PROCESSING", attempts |-> @.attempts + 1]]
      /\ Forget(d) /\ CanStart(d)
  BY <1>1 DEF SetProcessing
<1>4. /\ consumption' \in [Event -> ConsumptionRow]
      /\ consumption'[d].status = "PROCESSING"
      /\ consumption'[d].attempts = consumption[d].attempts + 1
      /\ \A e \in Event \ {d} : consumption'[e] = consumption[e]
  BY <1>0, <1>3 DEF TypeInv, ConsumptionRow
<1>a. wk' \in [Worker -> WorkerState] /\ OthersStill(w)
  BY DEF Goes, Rests
<1>5. TypeInv' /\ Grows
  BY <1>0, <1>4, <1>a, RowFacts
<1>6. BookInv'
  <2>1. RetryInv' /\ Listed' = Listed \ {d}
    BY <1>0, <1>3, ForgetFacts DEF BookInv
  <2>2. consumption'[d].attempts \in 1..Limit
    <3>1. consumption[d].attempts \in Nat /\ MaxAttempts \in Nat
      BY <1>0, WorkerAssumption DEF TypeInv, ConsumptionRow
    <3>2. consumption[d].attempts = 0 \/ consumption[d].attempts < MaxAttempts
      BY <1>0, <1>3 DEF CanStart, BookInv
    <3>3. QED
      BY <1>4, <3>1, <3>2 DEF Limit
  <2>3. QED
    BY <1>0, <1>1, <1>2, <1>4, <2>1, <2>2, BookStep
<1>7. CASE \E p \in {"find_event", "dispatch"} :
              Goes(w, p) /\ (p = "find_event" => wk[w].phase = "retry")
  <2>1. PICK p \in {"find_event", "dispatch"} :
           Goes(w, p) /\ (p = "find_event" => wk[w].phase = "retry")
    BY <1>7
  <2>2. WorkersInv'
    <3>1. WorkerInv(w)'
      BY <1>0, <1>1, <1>4, <1>5, <2>1, GoesKept DEF Relaying, Carrying, AtWork, Acking
    <3>2. QED
      BY <1>0, <1>5, <1>a, <3>1, WorkersKept
  <2>3. EffectInv'
    <3>1. wk'[w].event = d /\ wk'[w].pc \in {"find_event", "dispatch"}
      BY <1>1, <2>1 DEF Goes
    <3>2. QED
      BY <1>0, <1>2, <1>4, <1>5, <1>a, <3>1, StarterAdded
  <2>4. KeptInv'
    <3>1. Kept(d)'
      <4>1. Handling(w, d)'
        BY <1>1, <2>1 DEF Handling, Goes
      <4>2. QED
        BY <4>1 DEF Kept
    <3>2. \A e \in Event : ~Handling(w, e) /\ wk'[w].pc \notin Acking
      BY <2>1 DEF Handling, Acking, Goes
    <3>3. QED
      BY <1>0, <1>4, <1>a, <3>1, <3>2, KeptMove
  <2>5. QED
    BY <1>5, <1>6, <2>2, <2>3, <2>4 DEF IndInv
<1>8. CASE Rests(w, "idle") /\ (OnItsOwn(w) => wk[w].event \in dropped')
  <2>1. WorkersInv'
    <3>1. WorkerInv(w)'
      BY <1>8, RestsKept
    <3>2. QED
      BY <1>0, <1>5, <1>a, <3>1, WorkersKept
  <2>2. wk'[w].pc \notin {"find_event", "dispatch"} \cup Acking
    BY <1>8 DEF Rests, Acking
  <2>3. EffectInv'
    <3>1. \A e \in Event : effects'[e] = effects[e] /\ consumption'[e].attempts >= consumption[e].attempts
      <4>1. ASSUME NEW e \in Event
            PROVE  consumption'[e].attempts >= consumption[e].attempts
        <5>1. consumption[e].attempts \in Nat
          BY <1>0 DEF TypeInv, ConsumptionRow
        <5>2. QED
          BY <1>4, <5>1
      <4>2. QED
        BY <1>2, <4>1
    <3>2. QED
      BY <1>0, <1>5, <1>a, <2>2, <3>1, StartersShrink
  <2>4. KeptInv'
    <3>1. Kept(d)'
      <4>1. CASE OnItsOwn(w)
        BY <1>1, <1>8, <4>1 DEF Kept
      <4>2. CASE ~OnItsOwn(w)
        BY <1>0, <1>1, <1>a, <2>2, <4>2, PendingKept DEF Carrying
      <4>3. QED
        BY <4>1, <4>2
    <3>2. \A e \in Event : ~Handling(w, e) /\ wk'[w].pc \notin Acking
      BY <2>2 DEF Handling
    <3>3. QED
      BY <1>0, <1>4, <1>a, <3>1, <3>2, KeptMove
  <2>5. QED
    BY <1>5, <1>6, <2>1, <2>3, <2>4 DEF IndInv
<1>9. QED
  BY <1>7, <1>8

\* An attempt is started, or refused.
LEMMA TryStartStep ==
    ASSUME IndInv, NEW w \in Worker, TryStart(w)
    PROVE  IndInv'
<1>0. /\ TypeInv /\ WorkersInv /\ WorkerInv(w) /\ BookInv /\ EffectInv /\ KeptInv
      /\ wk[w].pc = "try_start" /\ UNCHANGED <<outbox, redis, history, faults>>
  BY DEF IndInv, WorkersInv, TryStart, At
<1>1. PICK d \in Event : d = wk[w].event /\ outbox[d] # "none"
  BY <1>0 DEF WorkerInv, Carrying
<1>2. /\ UNCHANGED <<outbox, log, first, delivered, pel, effects, dropped, faults>>
      /\ dropped' \in SUBSET Event /\ faults' \in 0..MaxFaults
  BY <1>0 DEF redis, history, TypeInv
<1>3. CASE CanStart(d)
  <2>1. PICK p \in {"find_event", "dispatch"} : /\ p = IF wk[w].phase = "retry" THEN "find_event" ELSE "dispatch"
                                                /\ Goto(w, p)
    BY <1>1, <1>3 DEF TryStart
  <2>2. Goes(w, p) /\ (p = "find_event" => wk[w].phase = "retry")
    BY <1>0, <2>1, GotoFields DEF TypeInv, Label, Await
  <2>3. SetProcessing(wk[w].event) /\ CanStart(wk[w].event)
    BY <1>1, <1>3 DEF TryStart
  <2>4. QED
    BY <1>0, <1>2, <2>2, <2>3, StartedStep
<1>4. CASE ~CanStart(d)
  <2>1. Goto(w, Settled(w)) /\ UNCHANGED table
    BY <1>1, <1>4 DEF TryStart
  <2>2. PICK p \in {"next", "ack"} : p = Settled(w) /\ (p = "ack" => wk[w].phase # "retry")
    BY DEF Settled
  <2>3. Goes(w, p)
    BY <1>0, <2>1, <2>2, GotoFields DEF TypeInv, Label, Await
  <2>4. /\ UNCHANGED <<outbox, redis, table, effects>> /\ dropped' = dropped /\ consumption' = consumption
        /\ dropped \in SUBSET Event /\ faults' \in 0..MaxFaults
    BY <1>0, <1>2, <2>1 DEF TypeInv, table
  <2>5. TypeInv' /\ Grows
    BY <2>3, <2>4, QuietFacts DEF Goes
  <2>6. WorkerInv(w)'
    BY <1>0, <2>2, <2>3, <2>5, GoesKept DEF Relaying, Carrying, AtWork, Acking
  <2>7. Kept(d)'
    BY <1>0, <1>4, <2>4, NotStarted DEF Kept
  <2>8. ASSUME NEW e \in Event, e # d
        PROVE  (wk'[w].pc \in Acking => log[wk'[w].entry] # e) /\ ~Handling(w, e)
    <3>1. wk'[w].pc \in Acking => wk[w].phase # "retry" /\ wk'[w].entry = wk[w].entry
      BY <2>2, <2>3 DEF Goes, Acking
    <3>2. wk[w].phase # "retry" => log[wk[w].entry] = d
      BY <1>0, <1>1 DEF WorkerInv, Carrying
    <3>3. QED
      BY <1>0, <2>8, <3>1, <3>2 DEF Handling
  <2>9. wk'[w].pc \notin {"find_event", "dispatch"}
    BY <2>2, <2>3 DEF Goes
  <2>10. QED
    BY <2>3, <2>4, <2>6, <2>7, <2>8, <2>9, QuietStep DEF Goes
<1>5. QED
  BY <1>3, <1>4

\* An outcome is recorded: the worker is through with the event, or, if the
\* answer is lost, goes on to record a failure or ends its tick.
LEMMA OutcomeStep ==
    ASSUME IndInv, NEW w \in Worker, wk[w].pc \in {"mark_succeeded", "mark_failed"},
           SetSucceeded(wk[w].event) \/ SetFailed(wk[w].event),
           UNCHANGED <<outbox, redis, effects>>,
           dropped' \in SUBSET Event, dropped \subseteq dropped', faults' \in 0..MaxFaults,
           \/ \E p \in {"next", "ack", "ack_throw", "mark_failed"} :
                Goes(w, p) /\ (p \in Acking => wk[w].phase # "retry")
           \/ Rests(w, "idle")
    PROVE  IndInv'
<1>0. TypeInv /\ WorkersInv /\ WorkerInv(w) /\ BookInv /\ EffectInv /\ KeptInv
  BY DEF IndInv, WorkersInv
<1>1. PICK d \in Event : d = wk[w].event /\ outbox[d] # "none" /\ consumption[d].status # "NONE"
  BY <1>0 DEF WorkerInv, Carrying, AtWork
<1>2. UNCHANGED <<outbox, log, first, delivered, pel, effects>>
  BY DEF redis
<1>3. PICK s \in {"SUCCEEDED", "FAILED"} :
         /\ consumption' = [consumption EXCEPT ![d].status = s]
         /\ s = "SUCCEEDED" => Forget(d)
         /\ s = "FAILED" => Delay(d)
  BY <1>1 DEF SetSucceeded, SetFailed
<1>a. wk' \in [Worker -> WorkerState] /\ OthersStill(w)
  BY DEF Goes, Rests
<1>5. /\ consumption' \in [Event -> ConsumptionRow] /\ consumption'[d].status = s
      /\ consumption'[d].attempts = consumption[d].attempts
      /\ \A e \in Event \ {d} : consumption'[e] = consumption[e]
  <2>1. PICK r : r = [consumption[d] EXCEPT !.status = s]
    OBVIOUS
  <2>2. r \in ConsumptionRow /\ r.status = s /\ r.attempts = consumption[d].attempts
    BY <1>0, <2>1 DEF TypeInv, ConsumptionRow
  <2>3. consumption' = [consumption EXCEPT ![d] = r]
    BY <1>3, <2>1
  <2>4. QED
    BY ZenonT(60), <1>0, <2>2, <2>3 DEF TypeInv
<1>6. TypeInv' /\ Grows
  BY <1>0, <1>5, <1>a, RowFacts
<1>7. WorkersInv'
  <2>1. WorkerInv(w)'
    <3>1. CASE Rests(w, "idle")
      BY <3>1, RestsKept
    <3>2. CASE \E p \in {"next", "ack", "ack_throw", "mark_failed"} :
                 Goes(w, p) /\ (p \in Acking => wk[w].phase # "retry")
      <4>1. PICK p \in {"next", "ack", "ack_throw", "mark_failed"} :
               Goes(w, p) /\ (p \in Acking => wk[w].phase # "retry")
        BY <3>2
      <4>2. consumption'[wk[w].event].status # "NONE"
        BY <1>1, <1>5
      <4>3. QED
        BY <1>0, <1>6, <4>1, <4>2, GoesKept DEF Relaying, Carrying, AtWork, Acking
    <3>3. QED
      BY <3>1, <3>2
  <2>2. QED
    BY <1>0, <1>6, <1>a, <2>1, WorkersKept
<1>8. BookInv'
  <2>1. RetryInv' /\ Listed' = IF s = "FAILED" THEN Listed \cup {d} ELSE Listed \ {d}
    <3>1. CASE s = "SUCCEEDED"
      BY <1>0, <1>3, <3>1, ForgetFacts DEF BookInv
    <3>2. CASE s = "FAILED"
      BY <1>0, <1>3, <3>2, DelayFacts DEF BookInv
    <3>3. QED
      BY <3>1, <3>2
  <2>2. consumption'[d].attempts \in 1..Limit
    <3>1. consumption[d].attempts \in Nat /\ consumption[d].attempts # 0 /\ consumption[d].attempts <= Limit
      BY <1>0, <1>1 DEF TypeInv, ConsumptionRow, BookInv
    <3>2. Limit \in Nat
      BY WorkerAssumption DEF Limit
    <3>3. QED
      BY <1>5, <3>1, <3>2
  <2>3. QED
    BY <1>0, <1>1, <1>2, <1>5, <2>1, <2>2, BookStep
<1>9. EffectInv'
  <2>1. \A e \in Event : effects'[e] = effects[e] /\ consumption'[e].attempts >= consumption[e].attempts
    <3>1. ASSUME NEW e \in Event
          PROVE  consumption'[e].attempts >= consumption[e].attempts
      <4>1. consumption[e].attempts \in Nat
        BY <1>0 DEF TypeInv, ConsumptionRow
      <4>2. QED
        BY <1>5, <4>1
    <3>2. QED
      BY <1>2, <3>1
  <2>2. wk'[w].pc \notin {"find_event", "dispatch"}
    BY DEF Goes, Rests
  <2>3. QED
    BY <1>0, <1>6, <1>a, <2>1, <2>2, StartersShrink
<1>10. KeptInv'
  <2>1. Kept(d)'
    BY <1>5 DEF Kept
  <2>2. ASSUME NEW e \in Event, e # d
        PROVE  /\ consumption'[e] = consumption[e] /\ ~Handling(w, e)
               /\ wk'[w].pc \in Acking => log[wk'[w].entry] # e
    <3>1. wk'[w].pc \in Acking => wk[w].phase # "retry" /\ wk'[w].entry = wk[w].entry
      BY DEF Goes, Rests, Acking
    <3>2. wk[w].phase # "retry" => log[wk[w].entry] = d
      BY <1>0, <1>1 DEF WorkerInv, Carrying, AtWork
    <3>3. QED
      BY <1>1, <1>5, <2>2, <3>1, <3>2 DEF Handling
  <2>3. QED
    BY <1>0, <1>a, <2>1, <2>2, KeptMove
<1>11. QED
  BY <1>6, <1>7, <1>8, <1>9, <1>10 DEF IndInv

\* The outcome is answered.
LEMMA RecordedStep ==
    ASSUME IndInv, NEW w \in Worker, MarkSucceeded(w) \/ MarkFailed(w)
    PROVE  IndInv'
<1>0. /\ TypeInv /\ wk[w].pc \in {"mark_succeeded", "mark_failed"} /\ Goto(w, Settled(w))
      /\ SetSucceeded(wk[w].event) \/ SetFailed(wk[w].event)
      /\ UNCHANGED <<outbox, redis, history, faults>>
  BY DEF IndInv, MarkSucceeded, MarkFailed, At
<1>1. /\ UNCHANGED <<outbox, redis, effects>> /\ dropped' \in SUBSET Event /\ dropped \subseteq dropped'
      /\ faults' \in 0..MaxFaults
  BY <1>0 DEF history, TypeInv
<1>2. PICK p \in {"next", "ack"} : p = Settled(w) /\ (p = "ack" => wk[w].phase # "retry")
  BY DEF Settled
<1>3. Goes(w, p) /\ (p \in Acking => wk[w].phase # "retry")
  BY <1>0, <1>2, GotoFields DEF TypeInv, Label, Await, Acking
<1>4. QED
  BY <1>0, <1>1, <1>3, OutcomeStep

\* An await throws.
LEMMA ThrowsStep ==
    ASSUME IndInv, NEW w \in Worker, Throws(w)
    PROVE  IndInv'
<1>0. /\ TypeInv /\ WorkersInv /\ WorkerInv(w) /\ BookInv /\ EffectInv /\ KeptInv
      /\ UNCHANGED <<outbox, redis>> /\ (DoneUnanswered(w) \/ UNCHANGED <<table, effects>>)
      /\ dropped' = dropped \cup {e \in Event :
           /\ wk[w].event = e /\ consumption'[e].status = "PROCESSING"
           /\ \/ wk[w].pc \in {"find_event", "mark_failed"}
              \/ wk[w].pc = "try_start" /\ consumption' # consumption /\ OnItsOwn(w)}
  BY DEF IndInv, WorkersInv, Throws, At
<1>1. dropped' \in SUBSET Event /\ dropped \subseteq dropped' /\ faults' \in 0..MaxFaults
  BY <1>0, WorkerAssumption DEF TypeInv, Throws
<1>2. \/ wk[w].pc \in {"xadd", "mark_processed"} /\ Goes(w, "mark_unpublished")
      \/ wk[w].pc \in {"dispatch", "mark_succeeded"} /\ Goes(w, "mark_failed")
      \/ wk[w].pc = "mark_failed" /\ wk[w].phase # "retry" /\ Goes(w, "ack_throw")
      \/ wk[w].pc \notin {"dispatch", "mark_succeeded"} /\ Rests(w, "idle")
  BY <1>0, ThrowsShape
<1>3. UNCHANGED <<log, first, delivered, pel>>
  BY <1>0 DEF redis
<1>4. ASSUME NEW e \in Event, Handling(w, e), wk[w].pc \in {"find_event", "mark_failed"},
             consumption' = consumption
      PROVE  Kept(e)'
  <2>1. /\ wk[w].event = e /\ consumption[e].status # "NONE"
        /\ consumption[e].status \in {"NONE", "PROCESSING", "SUCCEEDED", "FAILED"}
    BY <1>0, <1>4 DEF Handling, WorkerInv, AtWork, TypeInv, ConsumptionRow
  <2>2. CASE consumption[e].status = "PROCESSING"
    BY <1>0, <1>4, <2>1, <2>2 DEF Kept
  <2>3. CASE consumption[e].status \in {"SUCCEEDED", "FAILED"}
    BY <1>4, <2>3 DEF Kept
  <2>4. QED
    BY <2>1, <2>2, <2>3
<1>5. CASE UNCHANGED <<table, effects>>
  <2>a. consumption' = consumption
    BY <1>5 DEF table
  <2>0. wk' \in [Worker -> WorkerState] /\ OthersStill(w)
    BY <1>2 DEF Goes, Rests
  <2>1. TypeInv' /\ Grows
    BY <1>0, <1>1, <1>5, <2>0, QuietFacts
  <2>2. CASE wk[w].pc \in {"xadd", "mark_processed"} /\ Goes(w, "mark_unpublished")
    <3>1. WorkerInv(w)'
      BY <1>0, <2>1, <2>2, GoesKept DEF Relaying, Carrying, AtWork, Acking
    <3>2. \A e \in Event : ~Handling(w, e) /\ wk'[w].pc \notin Acking
      BY <2>2 DEF Handling, Acking, Goes
    <3>3. wk'[w].pc \notin {"find_event", "dispatch"}
      BY <2>2 DEF Goes
    <3>4. QED
      BY <1>0, <1>1, <1>5, <2>0, <3>1, <3>2, <3>3, QuietStep
  <2>3. CASE wk[w].pc \in {"dispatch", "mark_succeeded"} /\ Goes(w, "mark_failed")
    <3>0. consumption'[wk[w].event].status # "NONE"
      BY <1>0, <2>3, <2>a DEF WorkerInv, AtWork
    <3>1. WorkerInv(w)'
      BY <1>0, <2>1, <2>3, <3>0, GoesKept DEF Relaying, Carrying, AtWork, Acking
    <3>2. \A e \in Event : (Handling(w, e) => Handling(w, e)') /\ wk'[w].pc \notin Acking
      BY <2>3 DEF Handling, Acking, Goes
    <3>3. wk'[w].pc \notin {"find_event", "dispatch"}
      BY <2>3 DEF Goes
    <3>4. QED
      BY <1>0, <1>1, <1>5, <2>0, <3>1, <3>2, <3>3, QuietStep
  <2>4. CASE wk[w].pc = "mark_failed" /\ wk[w].phase # "retry" /\ Goes(w, "ack_throw")
    <3>1. WorkerInv(w)'
      BY <1>0, <2>1, <2>4, GoesKept DEF Relaying, Carrying, AtWork, Acking
    <3>2. PICK d \in Event : d = wk[w].event /\ log[wk[w].entry] = d
      BY <1>0, <2>4 DEF WorkerInv, Carrying, AtWork
    <3>3. Kept(d)'
      BY <1>4, <2>4, <2>a, <3>2 DEF Handling
    <3>4. \A e \in Event \ {d} : ~Handling(w, e) /\ log[wk'[w].entry] # e
      BY <2>4, <3>2 DEF Handling, Goes
    <3>5. wk'[w].pc \notin {"find_event", "dispatch"}
      BY <2>4 DEF Goes
    <3>6. QED
      BY <1>0, <1>1, <1>5, <2>0, <3>1, <3>3, <3>4, <3>5, QuietStep
  <2>5. CASE wk[w].pc \notin {"dispatch", "mark_succeeded"} /\ Rests(w, "idle")
    <3>1. WorkerInv(w)'
      BY <2>5, RestsKept
    <3>2. \A e \in Event : (Handling(w, e) => Kept(e)') /\ wk'[w].pc \notin Acking
      BY <1>4, <2>5, <2>a DEF Handling, Acking, Rests
    <3>3. wk'[w].pc \notin {"find_event", "dispatch"}
      BY <2>5 DEF Rests
    <3>4. QED
      BY <1>0, <1>1, <1>5, <2>0, <3>1, <3>2, <3>3, QuietStep
  <2>6. QED
    BY <1>2, <2>2, <2>3, <2>4, <2>5
<1>6. CASE /\ wk[w].pc = "dispatch" /\ effects' = [effects EXCEPT ![wk[w].event] = @ + 1]
           /\ UNCHANGED table
  <2>a. consumption' = consumption /\ UNCHANGED <<retries, due>>
    BY <1>6 DEF table
  <2>1. Goes(w, "mark_failed")
    BY <1>2, <1>6
  <2>2. PICK d \in Event : d = wk[w].event /\ consumption[d].status # "NONE"
    BY <1>0, <1>6 DEF WorkerInv, Carrying, AtWork
  <2>3. TypeInv' /\ \A e \in Event : effects'[e] >= effects[e]
    BY SMTT(30), <1>0, <1>1, <1>3, <2>a, <1>6, <2>1, <2>2 DEF TypeInv, Goes
  <2>4. Grows
    <3>1. Len(log) \in Nat /\ delivered \in Nat
      BY <1>0, StreamType
    <3>2. QED
      BY <1>0, <1>3, <2>a, <2>3, <3>1 DEF Grows
  <2>5. WorkersInv'
    <3>1. WorkerInv(w)'
      BY <1>0, <1>3, <2>a, <1>6, <2>1, <2>2, <2>3, <2>4, GoesKept DEF Relaying, Carrying, AtWork, Acking
    <3>2. QED
      BY <1>0, <2>1, <2>3, <2>4, <3>1, WorkersKept DEF Goes
  <2>6. BookInv'
    BY <1>0, <1>3, <2>a DEF BookInv, RetryInv, Listed
  <2>7. EffectInv'
    <3>1. wk'[w].pc \notin {"find_event", "dispatch"} /\ OthersStill(w)
      BY <2>1 DEF Goes
    <3>2. QED
      BY <1>0, <1>3, <2>a, <1>6, <2>2, <2>3, <3>1, StarterTried
  <2>8. KeptInv'
    <3>1. \A e \in Event : /\ consumption'[e] = consumption[e] /\ wk'[w].pc \notin Acking
                           /\ Handling(w, e) => Handling(w, e)'
      BY <1>3, <2>a, <2>1 DEF Handling, Goes, Acking
    <3>2. QED
      BY <1>0, <1>1, <2>1, <3>1, KeptMove DEF Goes
  <2>9. QED
    BY <2>3, <2>5, <2>6, <2>7, <2>8 DEF IndInv
<1>7. CASE /\ wk[w].pc = "try_start" /\ CanStart(wk[w].event) /\ SetProcessing(wk[w].event)
           /\ UNCHANGED effects
  <2>1. Rests(w, "idle")
    BY <1>2, <1>7
  <2>2. PICK d \in Event : d = wk[w].event
    BY <1>0, <1>7 DEF WorkerInv, Carrying
  <2>3. consumption' = [consumption EXCEPT ![d] = [status |-> "PROCESSING", attempts |-> @.attempts + 1]]
    BY <1>7, <2>2 DEF SetProcessing
  <2>4. /\ consumption'[d].status = "PROCESSING" /\ consumption[d].attempts \in Nat
        /\ consumption'[d].attempts = consumption[d].attempts + 1
    BY <1>0, <2>3 DEF TypeInv, ConsumptionRow
  <2>5. consumption' # consumption
    BY <2>4
  <2>6. OnItsOwn(w) => wk[w].event \in dropped'
    BY <1>0, <1>7, <2>2, <2>4, <2>5
  <2>7. QED
    BY <1>0, <1>1, <1>7, <2>1, <2>6, StartedStep
<1>8. CASE /\ wk[w].pc = "mark_succeeded" /\ SetSucceeded(wk[w].event)
           /\ UNCHANGED effects
  <2>1. Goes(w, "mark_failed") /\ "mark_failed" \notin Acking
    BY <1>2, <1>8 DEF Acking
  <2>2. QED
    BY <1>0, <1>1, <1>8, <2>1, OutcomeStep
<1>9. CASE /\ wk[w].pc = "mark_failed" /\ SetFailed(wk[w].event)
           /\ UNCHANGED effects
  <2>1. \/ Goes(w, "ack_throw") /\ wk[w].phase # "retry"
        \/ Rests(w, "idle")
    BY <1>2, <1>9
  <2>2. QED
    BY <1>0, <1>1, <1>9, <2>1, OutcomeStep
<1>10. QED
  BY <1>0, <1>5, <1>6, <1>7, <1>8, <1>9 DEF DoneUnanswered, At

\* A process dies.
LEMMA CrashStep ==
    ASSUME IndInv, NEW w \in Worker, Crash(w)
    PROVE  IndInv'
<1>0. /\ TypeInv /\ WorkersInv /\ WorkerInv(w) /\ UNCHANGED <<outbox, redis, table, effects>>
      /\ dropped' = dropped \cup {e \in Event : Handling(w, e) /\ OnItsOwn(w)}
  BY DEF IndInv, WorkersInv, Crash
<1>1. dropped' \in SUBSET Event /\ dropped \subseteq dropped' /\ faults' \in 0..MaxFaults
  BY <1>0, WorkerAssumption DEF TypeInv, Crash
<1>2. Rests(w, "down")
  BY <1>0, CrashShape
<1>3. WorkerInv(w)'
  BY <1>2, RestsKept
<1>5. ASSUME NEW e \in Event, Handling(w, e)
      PROVE  Kept(e)'
  <2>1. CASE OnItsOwn(w)
    BY <1>0, <1>5, <2>1 DEF Kept
  <2>2. CASE ~OnItsOwn(w)
    <3>1. wk[w].pc \in Carrying /\ wk[w].event = e
      BY <1>5 DEF Handling, Carrying, AtWork
    <3>2. wk'[w].pc \notin Acking /\ OthersStill(w) /\ UNCHANGED redis
      BY <1>0, <1>2 DEF Rests, Acking
    <3>3. QED
      BY <1>0, <2>2, <3>1, <3>2, PendingKept
  <2>3. QED
    BY <2>1, <2>2
<1>6. wk'[w].pc \notin {"find_event", "dispatch"} \cup Acking
  BY <1>2 DEF Rests, Acking
<1>7. QED
  BY <1>0, <1>1, <1>2, <1>3, <1>5, <1>6, QuietStep DEF Rests

-----------------------------------------------------------------------------
(* The invariant and the theorems.                                         *)

\* The initial state.
LEMMA InitIndInv == Init => IndInv
<1>0. SUFFICES ASSUME Init
               PROVE  IndInv
  OBVIOUS
<1>1. /\ Len(log) = 0 /\ log \in Seq(Event) /\ 1..Len(log) = {}
      /\ Len(retries) = 0 /\ retries \in Seq(Event) /\ DOMAIN retries = {}
  BY <1>0 DEF Init
<1>2. TypeInv
  <2>1. wk \in [Worker -> WorkerState]
    BY <1>0, DownFields DEF Init
  <2>2. consumption \in [Event -> ConsumptionRow]
    BY <1>0 DEF Init, ConsumptionRow
  <2>3. QED
    BY <1>0, <1>1, <2>1, <2>2, WorkerAssumption DEF Init, TypeInv
<1>3. WorkersInv
  BY <1>0, DownFields DEF Init, WorkersInv, WorkerInv, Idle, Relaying, AtWork, Acking, Carrying
<1>4. BookInv
  <2>1. RetryInv /\ Listed = {}
    BY <1>0, <1>1 DEF Init, RetryInv, Listed
  <2>2. \A e \in Event : /\ consumption[e].status = "NONE" /\ consumption[e].attempts = 0
                         /\ outbox[e] = "none"
    BY <1>0 DEF Init
  <2>3. Limit \in Nat
    BY WorkerAssumption DEF Limit
  <2>4. QED
    BY <1>1, <2>1, <2>2, <2>3 DEF BookInv
<1>5. EffectInv
  <2>1. ASSUME NEW e \in Event
        PROVE  Starters(e) = {} /\ effects[e] = 0 /\ consumption[e].attempts = 0
    BY <1>0, DownFields DEF Init, Starters
  <2>2. IsFiniteSet({}) /\ Cardinality({}) = 0
    BY FS_EmptySet
  <2>3. ASSUME NEW e \in Event
        PROVE  /\ IsFiniteSet(Starters(e))
               /\ effects[e] + Cardinality(Starters(e)) <= consumption[e].attempts
    <3>1. IsFiniteSet(Starters(e)) /\ Cardinality(Starters(e)) = 0
      BY <2>1, <2>2
    <3>2. QED
      BY <2>1, <3>1
  <2>4. QED
    BY <2>3 DEF EffectInv
<1>6. KeptInv
  BY <1>1 DEF KeptInv
<1>7. QED
  BY <1>2, <1>3, <1>4, <1>5, <1>6 DEF IndInv

\* Every step keeps the invariant.
LEMMA NextIndInv == IndInv /\ [Next]_vars => IndInv'
<1>0. SUFFICES ASSUME IndInv, [Next]_vars
               PROVE  IndInv'
  OBVIOUS
<1>1. ASSUME NEW e \in Event, Insert(e)
      PROVE  IndInv'
  BY <1>0, <1>1, InsertStep
<1>2. ASSUME NEW w \in Worker, Start(w) \/ Throws(w) \/ Crash(w)
      PROVE  IndInv'
  BY <1>0, <1>2, StartStep, ThrowsStep, CrashStep
<1>3. ASSUME NEW w \in Worker, Step(w)
      PROVE  IndInv'
  <2>1. CASE ListUnprocessed(w) \/ NextPhase(w) \/ TakeRow(w) \/ TakeEntry(w)
    BY <1>0, <2>1, ListUnprocessedStep, NextPhaseStep, TakeRowStep, TakeEntryStep
  <2>2. CASE XAdd(w) \/ MarkProcessed(w) \/ MarkUnpublished(w)
    BY <1>0, <2>2, XAddStep, MarkProcessedStep, MarkUnpublishedStep
  <2>3. CASE \E C \in SUBSET Claimable : AutoClaim(w, C)
    BY <1>0, <2>3, AutoClaimStep
  <2>4. CASE PollOnce(w) \/ ListDueRetries(w) \/ Ack(w)
    BY <1>0, <2>4, PollStep, ListDueStep, AckStep
  <2>5. CASE TryStart(w) \/ FindEvent(w) \/ Dispatch(w) \/ MarkSucceeded(w) \/ MarkFailed(w)
    BY <1>0, <2>5, TryStartStep, FindEventStep, DispatchStep, RecordedStep
  <2>6. QED
    BY <1>3, <2>1, <2>2, <2>3, <2>4, <2>5 DEF Step
<1>4. CASE BackoffElapses
  BY <1>0, <1>4, BackoffStep
<1>5. CASE UNCHANGED vars
  <2>1. /\ UNCHANGED <<outbox, log, first, delivered, pel, consumption, retries, due>>
        /\ UNCHANGED <<effects, dropped, wk, faults>>
    BY <1>5 DEF vars, redis, table, history
  <2>2. TypeInv' /\ WorkersInv'
    BY <1>0, <2>1 DEF IndInv, TypeInv, WorkersInv, WorkerInv
  <2>3. BookInv'
    BY <1>0, <2>1 DEF IndInv, BookInv, RetryInv, Listed
  <2>4. EffectInv'
    BY <1>0, <2>1 DEF IndInv, EffectInv, Starters
  <2>5. KeptInv'
    BY <1>0, <2>1 DEF IndInv, KeptInv, Kept, BringsBack, Handling
  <2>6. QED
    BY <2>2, <2>3, <2>4, <2>5 DEF IndInv
<1>6. QED
  BY <1>0, <1>1, <1>2, <1>3, <1>4, <1>5 DEF Next

\* The invariant holds.
THEOREM SpecIndInv == Spec => []IndInv
BY InitIndInv, NextIndInv, PTL DEF Spec

\* EffectsBounded: whatever throws and whoever dies, however many workers
\* there are and however often an event is relayed again, delivered again or
\* reclaimed, its handler takes effect at most once per attempt, and the
\* attempts stop at WORKER_MAX_ATTEMPTS.
THEOREM EffectsTheorem == Spec => []EffectsBounded
<1>1. IndInv => EffectsBounded
  <2>0. SUFFICES ASSUME IndInv
                 PROVE  EffectsBounded
    OBVIOUS
  <2>1. TypeOK
    BY <2>0 DEF IndInv, TypeInv, BookInv, RetryInv, Listed, TypeOK
  <2>2. ASSUME NEW e \in Event
        PROVE  /\ effects[e] <= consumption[e].attempts
               /\ consumption[e].attempts <= (IF MaxAttempts = 0 THEN 1 ELSE MaxAttempts)
    <3>1. PICK k : k = Cardinality(Starters(e))
      OBVIOUS
    <3>2. k \in Nat /\ effects[e] + k <= consumption[e].attempts
      BY <2>0, <3>1, FS_CardinalityType DEF IndInv, EffectInv
    <3>3. effects[e] \in Nat /\ consumption[e].attempts \in Nat
      BY <2>0 DEF IndInv, TypeInv, ConsumptionRow
    <3>4. consumption[e].attempts <= Limit
      BY <2>0 DEF IndInv, BookInv
    <3>5. QED
      BY <3>2, <3>3, <3>4 DEF Limit
  <2>3. QED
    BY <2>1, <2>2 DEF EffectsBounded
<1>2. QED
  BY <1>1, SpecIndInv, PTL

\* NeverForgotten: an event that was relayed has an outcome, has used up its
\* attempts, is in the stream or in the hands of a worker, unless its entry
\* was trimmed or its worker was cut off where nothing brings it back.
THEOREM ForgottenTheorem == Spec => []NeverForgotten
<1>1. IndInv => NeverForgotten
  <2>0. SUFFICES ASSUME IndInv
                 PROVE  NeverForgotten
    OBVIOUS
  <2>1. SUFFICES ASSUME NEW e \in Event, outbox[e] = "processed"
                 PROVE  \/ consumption[e].status \in {"SUCCEEDED", "FAILED"}
                        \/ consumption[e].attempts > 0 /\ consumption[e].attempts >= MaxAttempts
                        \/ \E n \in 1..Len(log) : log[n] = e /\ (n < first \/ n > delivered \/ n \in pel)
                        \/ \E w \in Worker : Handling(w, e)
                        \/ e \in dropped
    BY DEF NeverForgotten
  <2>2. PICK m \in 1..Len(log) : log[m] = e
    BY <2>0, <2>1 DEF IndInv, BookInv
  <2>3. Kept(e)
    BY <2>0, <2>2 DEF IndInv, KeptInv
  <2>4. QED
    BY <2>3 DEF Kept, BringsBack
<1>2. QED
  BY <1>1, SpecIndInv, PTL

-----------------------------------------------------------------------------
(* The refinement.                                                         *)

\* What Delivery calls state, tries and run.
DState == [e \in Event |->
             CASE consumption[e].status = "PROCESSING" -> "running"
               [] consumption[e].status = "SUCCEEDED"  -> "done"
               [] outbox[e] = "none"                   -> "absent"
               [] OTHER                                -> "waiting"]
DTries == [e \in Event |-> consumption[e].attempts]
DRun   == [w \in Worker |-> Doing(w)]
AtRest == <<"idle", None>>

\* A step of Delivery at an event, in these terms.
LEMMA DeliveryNext ==
    ASSUME NEW r \in Worker, NEW e \in Event,
           \/ /\ DRun[r] = AtRest /\ DState[e] \in {"waiting", "running"} /\ DTries[e] < Limit
              /\ DState' = [DState EXCEPT ![e] = "running"]
              /\ DTries' = [DTries EXCEPT ![e] = @ + 1] /\ effects' = effects
              /\ DRun' = [DRun EXCEPT ![r] = <<"begun", e>>] \/ DRun' = DRun
           \/ /\ DRun[r] = <<"begun", e>> /\ effects' = [effects EXCEPT ![e] = @ + 1]
              /\ \/ DRun' = [DRun EXCEPT ![r] = <<"effected", e>>]
                 \/ DRun' = [DRun EXCEPT ![r] = <<"failing", e>>]
              /\ DState' = DState /\ DTries' = DTries
           \/ /\ DRun[r] = <<"effected", e>> /\ DState' = [DState EXCEPT ![e] = "done"]
              /\ \/ DRun' = [DRun EXCEPT ![r] = AtRest]
                 \/ DRun' = [DRun EXCEPT ![r] = <<"failing", e>>]
              /\ DTries' = DTries /\ effects' = effects
           \/ /\ DRun[r] = <<"begun", e>> \/ DRun[r] = <<"effected", e>>
              /\ DRun' = [DRun EXCEPT ![r] = <<"failing", e>>]
              /\ DState' = DState /\ DTries' = DTries /\ effects' = effects
           \/ /\ DRun[r] = <<"failing", e>> /\ DState' = [DState EXCEPT ![e] = "waiting"]
              /\ DRun' = [DRun EXCEPT ![r] = AtRest]
              /\ DTries' = DTries /\ effects' = effects
    PROVE  Delivery!Next
<1>1. \/ Delivery!Begin(r, e) \/ Delivery!Effect(r, e) \/ Delivery!Succeed(r, e)
      \/ Delivery!Falter(r, e) \/ Delivery!Fail(r, e)
  <2>1. CASE /\ DRun[r] = AtRest /\ DState[e] \in {"waiting", "running"} /\ DTries[e] < Limit
             /\ DState' = [DState EXCEPT ![e] = "running"]
             /\ DTries' = [DTries EXCEPT ![e] = @ + 1] /\ effects' = effects
             /\ DRun' = [DRun EXCEPT ![r] = <<"begun", e>>] \/ DRun' = DRun
    BY <2>1 DEF Delivery!Begin, Delivery!Goto, Delivery!Idle, DState, DTries, DRun, AtRest, None, Limit
  <2>2. CASE /\ DRun[r] = <<"begun", e>> /\ effects' = [effects EXCEPT ![e] = @ + 1]
             /\ \/ DRun' = [DRun EXCEPT ![r] = <<"effected", e>>]
                \/ DRun' = [DRun EXCEPT ![r] = <<"failing", e>>]
             /\ DState' = DState /\ DTries' = DTries
    BY <2>2 DEF Delivery!Effect, Delivery!At, Delivery!Goto, DState, DTries, DRun
  <2>3. CASE /\ DRun[r] = <<"effected", e>> /\ DState' = [DState EXCEPT ![e] = "done"]
             /\ \/ DRun' = [DRun EXCEPT ![r] = AtRest]
                \/ DRun' = [DRun EXCEPT ![r] = <<"failing", e>>]
             /\ DTries' = DTries /\ effects' = effects
    BY <2>3 DEF Delivery!Succeed, Delivery!At, Delivery!Goto, Delivery!Idle, DState, DTries, DRun, AtRest, None
  <2>4. CASE /\ DRun[r] = <<"begun", e>> \/ DRun[r] = <<"effected", e>>
             /\ DRun' = [DRun EXCEPT ![r] = <<"failing", e>>]
             /\ DState' = DState /\ DTries' = DTries /\ effects' = effects
    BY <2>4 DEF Delivery!Falter, Delivery!At, Delivery!Goto, DState, DTries, DRun
  <2>5. CASE /\ DRun[r] = <<"failing", e>> /\ DState' = [DState EXCEPT ![e] = "waiting"]
             /\ DRun' = [DRun EXCEPT ![r] = AtRest]
             /\ DTries' = DTries /\ effects' = effects
    BY <2>5 DEF Delivery!Fail, Delivery!At, Delivery!Goto, Delivery!Idle, DState, DTries, DRun, AtRest, None
  <2>6. QED
    BY <2>1, <2>2, <2>3, <2>4, <2>5
<1>2. QED
  BY <1>1 DEF Delivery!Next

\* An event is emitted.
LEMMA DeliveryEmits ==
    ASSUME NEW e \in Event, DState[e] = "absent", DState' = [DState EXCEPT ![e] = "waiting"],
           DTries' = DTries, effects' = effects, DRun' = DRun
    PROVE  Delivery!Next
<1>1. Delivery!Emit(e)
  BY DEF Delivery!Emit, DState, DTries, DRun
<1>2. QED
  BY <1>1 DEF Delivery!Next

\* A runner gives up.
LEMMA DeliveryDies ==
    ASSUME NEW r \in Worker, DState' = DState, DTries' = DTries, effects' = effects,
           DRun' = [DRun EXCEPT ![r] = AtRest]
    PROVE  Delivery!Next
<1>1. Delivery!Die(r)
  BY DEF Delivery!Die, Delivery!Goto, Delivery!Idle, DState, DTries, DRun, AtRest, None
<1>2. QED
  BY <1>1 DEF Delivery!Next

\* Nothing happens to Delivery.
LEMMA DeliveryStill ==
    ASSUME DState' = DState, DTries' = DTries, effects' = effects, DRun' = DRun
    PROVE  UNCHANGED Delivery!vars
BY DEF Delivery!vars, DState, DTries, DRun

\* Delivery begins.
LEMMA DeliveryInit ==
    ASSUME DState = [e \in Event |-> "absent"], DTries = [e \in Event |-> 0],
           effects = [e \in Event |-> 0], DRun = [w \in Worker |-> AtRest]
    PROVE  Delivery!Init
BY DEF Delivery!Init, Delivery!Idle, DState, DTries, DRun, AtRest, None

\* What Delivery's state says of the tables.
LEMMA StateFacts ==
    ASSUME TypeInv, BookInv, NEW e \in Event
    PROVE  /\ consumption[e].status = "PROCESSING" => DState[e] = "running"
           /\ consumption[e].status = "SUCCEEDED" => DState[e] = "done"
           /\ outbox[e] = "none" => DState[e] = "absent"
           /\ consumption[e].status \in {"NONE", "FAILED"} /\ outbox[e] # "none" => DState[e] = "waiting"
           /\ DTries[e] = consumption[e].attempts
<1>1. outbox[e] = "none" => consumption[e].status = "NONE"
  BY DEF BookInv
<1>2. DTries[e] = consumption[e].attempts
  BY DEF DTries
<1>3. QED
  BY <1>1, <1>2 DEF DState

\* Delivery's state of an event changes only with what it is read from.
LEMMA StateStill ==
    ASSUME \A e \in Event : /\ consumption'[e] = consumption[e]
                            /\ outbox'[e] = "none" <=> outbox[e] = "none"
    PROVE  DState' = DState /\ DTries' = DTries
BY DEF DState, DTries

\* Delivery's state of one event changes.
LEMMA StateSet ==
    ASSUME NEW d \in Event, NEW x, DState'[d] = x, \A e \in Event \ {d} : DState'[e] = DState[e]
    PROVE  DState' = [DState EXCEPT ![d] = x]
<1>1. PICK f, g : f = DState /\ g = DState'
  OBVIOUS
<1>2. f = [e \in Event |-> f[e]]
  BY <1>1 DEF DState
<1>3. g = [e \in Event |-> g[e]]
  BY <1>1 DEF DState
<1>4. g[d] = x /\ \A e \in Event \ {d} : g[e] = f[e]
  BY <1>1
<1>5. g = [f EXCEPT ![d] = x]
  BY <1>2, <1>3, <1>4
<1>6. QED
  BY <1>1, <1>5

\* What a worker is at depends on where it is and the event in hand.
LEMMA DoingFacts ==
    ASSUME NEW w \in Worker
    PROVE  /\ DRun[w] = Doing(w)
           /\ wk[w].pc \in {"find_event", "dispatch"} => Doing(w) = <<"begun", wk[w].event>>
           /\ wk[w].pc = "mark_succeeded" => Doing(w) = <<"effected", wk[w].event>>
           /\ wk[w].pc = "mark_failed" => Doing(w) = <<"failing", wk[w].event>>
           /\ wk[w].pc \notin AtWork => Doing(w) = AtRest
BY DEF DRun, Doing, At, AtWork, AtRest

\* The same after a step.
LEMMA DoingNext ==
    ASSUME NEW w \in Worker
    PROVE  /\ wk'[w].pc \in {"find_event", "dispatch"} => Doing(w)' = <<"begun", wk'[w].event>>
           /\ wk'[w].pc = "mark_succeeded" => Doing(w)' = <<"effected", wk'[w].event>>
           /\ wk'[w].pc = "mark_failed" => Doing(w)' = <<"failing", wk'[w].event>>
           /\ wk'[w].pc \notin AtWork => Doing(w)' = AtRest
BY DEF Doing, At, AtWork, AtRest

\* A step of w changes what w is at, and nobody else.
LEMMA RunSet ==
    ASSUME NEW w \in Worker, OthersStill(w), NEW x, Doing(w)' = x
    PROVE  /\ DRun' = [DRun EXCEPT ![w] = x]
           /\ Doing(w) = x => DRun' = DRun
<1>1. \A v \in Worker \ {w} : Doing(v)' = Doing(v)
  BY DEF OthersStill, Doing, At
<1>2. PICK f, g : f = DRun /\ g = DRun'
  OBVIOUS
<1>3. f = [v \in Worker |-> f[v]] /\ f[w] = Doing(w) /\ \A v \in Worker : f[v] = Doing(v)
  BY <1>2 DEF DRun
<1>4. g = [v \in Worker |-> g[v]] /\ g[w] = x /\ \A v \in Worker \ {w} : g[v] = f[v]
  <2>1. g = [v \in Worker |-> g[v]] /\ g[w] = Doing(w)'
    BY <1>2 DEF DRun
  <2>2. \A v \in Worker : g[v] = Doing(v)'
    BY <1>2 DEF DRun
  <2>3. QED
    BY <1>1, <1>3, <2>1, <2>2
<1>5. g = [f EXCEPT ![w] = x] /\ (f[w] = x => g = f)
  BY <1>3, <1>4
<1>6. QED
  BY <1>2, <1>3, <1>5

\* The steps that neither insert, start, take effect nor record: the worker
\* is at what it was at, or gives up.
LEMMA QuietDelivery ==
    ASSUME NEW w \in Worker, OthersStill(w), consumption' = consumption, effects' = effects,
           \A e \in Event : outbox'[e] = "none" <=> outbox[e] = "none",
           Doing(w)' = Doing(w) \/ Doing(w)' = AtRest
    PROVE  Delivery!Next \/ UNCHANGED Delivery!vars
<1>1. DState' = DState /\ DTries' = DTries
  BY StateStill
<1>2. CASE Doing(w)' = Doing(w)
  BY <1>1, <1>2, RunSet, DeliveryStill
<1>3. CASE Doing(w)' = AtRest
  BY <1>1, <1>3, RunSet, DeliveryDies
<1>4. QED
  BY <1>2, <1>3

\* An event is inserted: it is emitted.
LEMMA InsertDelivery ==
    ASSUME IndInv, NEW d \in Event, Insert(d)
    PROVE  Delivery!Next
<1>0. /\ TypeInv /\ BookInv /\ outbox[d] = "none" /\ outbox' = [outbox EXCEPT ![d] = "new"]
      /\ consumption' = consumption /\ wk' = wk /\ effects' = effects
  BY DEF IndInv, Insert, table, history
<1>1. DRun' = DRun
  BY <1>0 DEF DRun, Doing, At
<1>2. consumption[d].status = "NONE" /\ DState[d] = "absent"
  BY <1>0, StateFacts DEF BookInv
<1>3. DTries' = DTries
  BY <1>0 DEF DTries
<1>4. DState' = [DState EXCEPT ![d] = "waiting"]
  <2>1. DState'[d] = "waiting"
    BY <1>0, <1>2 DEF DState, TypeInv
  <2>2. \A e \in Event \ {d} : DState'[e] = DState[e]
    BY <1>0 DEF DState, TypeInv
  <2>3. QED
    BY <2>1, <2>2, StateSet
<1>5. QED
  BY <1>0, <1>1, <1>2, <1>3, <1>4, DeliveryEmits

\* An attempt starts: the event is handed over, whether its worker learns of
\* it or not.
LEMMA StartedDelivery ==
    ASSUME IndInv, NEW w \in Worker, wk[w].pc = "try_start", CanStart(wk[w].event),
           SetProcessing(wk[w].event), UNCHANGED <<outbox, effects>>,
           \/ \E p \in {"find_event", "dispatch"} : Goes(w, p)
           \/ Rests(w, "idle")
    PROVE  Delivery!Next
<1>0. TypeInv /\ WorkerInv(w) /\ BookInv
  BY DEF IndInv, WorkersInv
<1>1. PICK d \in Event : d = wk[w].event /\ outbox[d] # "none"
  BY <1>0 DEF WorkerInv, Carrying
<1>2. /\ consumption' = [consumption EXCEPT ![d] = [status |-> "PROCESSING", attempts |-> @.attempts + 1]]
      /\ CanStart(d)
  BY <1>1 DEF SetProcessing
<1>3. /\ consumption'[d].status = "PROCESSING"
      /\ consumption'[d].attempts = consumption[d].attempts + 1
      /\ \A e \in Event \ {d} : consumption'[e] = consumption[e]
  BY <1>0, <1>2 DEF TypeInv, ConsumptionRow
<1>4. DState[d] \in {"waiting", "running"}
  <2>1. consumption[d].status \in {"NONE", "PROCESSING", "FAILED"}
    BY <1>0, <1>2 DEF CanStart, TypeInv, ConsumptionRow
  <2>2. QED
    BY <1>0, <1>1, <2>1, StateFacts
<1>5. DTries[d] < Limit
  <2>1. consumption[d].attempts \in Nat /\ MaxAttempts \in Nat
    BY <1>0, WorkerAssumption DEF TypeInv, ConsumptionRow
  <2>2. consumption[d].attempts = 0 \/ consumption[d].attempts < MaxAttempts
    BY <1>0, <1>2 DEF CanStart, BookInv
  <2>3. QED
    BY <2>1, <2>2 DEF DTries, Limit
<1>6. DState' = [DState EXCEPT ![d] = "running"]
  <2>1. DState'[d] = "running"
    BY <1>0, <1>1, <1>3 DEF DState
  <2>2. \A e \in Event \ {d} : DState'[e] = DState[e]
    BY <1>0, <1>3 DEF DState
  <2>3. QED
    BY <2>1, <2>2, StateSet
<1>7. DTries' = [DTries EXCEPT ![d] = @ + 1]
  BY <1>3 DEF DTries
<1>8. DRun[w] = AtRest /\ Doing(w) = AtRest
  BY DoingFacts DEF AtWork
<1>9. DRun' = [DRun EXCEPT ![w] = <<"begun", d>>] \/ DRun' = DRun
  <2>1. CASE \E p \in {"find_event", "dispatch"} : Goes(w, p)
    <3>1. wk'[w].pc \in {"find_event", "dispatch"} /\ wk'[w].event = d /\ OthersStill(w)
      BY <1>1, <2>1 DEF Goes
    <3>2. QED
      BY <3>1, DoingNext, RunSet
  <2>2. CASE Rests(w, "idle")
    <3>1. wk'[w].pc \notin AtWork /\ OthersStill(w)
      BY <2>2 DEF Rests, AtWork
    <3>2. QED
      BY <1>8, <3>1, DoingNext, RunSet
  <2>3. QED
    BY <2>1, <2>2
<1>10. QED
  BY <1>4, <1>5, <1>6, <1>7, <1>8, <1>9, DeliveryNext

\* tryStart, answered.
LEMMA TryStartDelivery ==
    ASSUME IndInv, NEW w \in Worker, TryStart(w)
    PROVE  Delivery!Next \/ UNCHANGED Delivery!vars
<1>0. TypeInv /\ wk[w].pc = "try_start" /\ outbox' = outbox /\ effects' = effects
  BY DEF IndInv, TryStart, At, history
<1>1. CASE CanStart(wk[w].event)
  <2>1. PICK p \in {"find_event", "dispatch"} : Goto(w, p)
    BY <1>1 DEF TryStart
  <2>2. Goes(w, p)
    BY <1>0, <2>1, GotoFields DEF TypeInv, Label, Await
  <2>3. SetProcessing(wk[w].event)
    BY <1>1 DEF TryStart
  <2>4. QED
    BY <1>0, <1>1, <2>2, <2>3, StartedDelivery
<1>2. CASE ~CanStart(wk[w].event)
  <2>1. Goto(w, Settled(w)) /\ consumption' = consumption
    BY <1>2 DEF TryStart, table
  <2>2. PICK p \in {"next", "ack"} : p = Settled(w)
    BY DEF Settled
  <2>3. Goes(w, p)
    BY <1>0, <2>1, <2>2, GotoFields DEF TypeInv, Label, Await
  <2>4. wk'[w].pc \notin AtWork /\ OthersStill(w)
    BY <2>2, <2>3 DEF Goes, AtWork
  <2>5. QED
    BY <1>0, <2>1, <2>4, DoingNext, QuietDelivery
<1>3. QED
  BY <1>1, <1>2

\* The handler takes effect.
LEMMA EffectDelivery ==
    ASSUME IndInv, NEW w \in Worker, wk[w].pc = "dispatch",
           NEW p \in {"mark_succeeded", "mark_failed"}, Goes(w, p), UNCHANGED <<outbox, consumption>>,
           effects' = [effects EXCEPT ![wk[w].event] = @ + 1]
    PROVE  Delivery!Next
<1>1. PICK d \in Event : d = wk[w].event
  BY DEF IndInv, WorkersInv, WorkerInv, Carrying, AtWork
<1>2. DState' = DState /\ DTries' = DTries
  BY StateStill
<1>3. DRun[w] = <<"begun", d>>
  BY <1>1, DoingFacts
<1>4. wk'[w].pc = p /\ wk'[w].event = d /\ OthersStill(w)
  BY <1>1 DEF Goes
<1>5. DRun' = [DRun EXCEPT ![w] = <<"effected", d>>] \/ DRun' = [DRun EXCEPT ![w] = <<"failing", d>>]
  BY <1>4, DoingNext, RunSet
<1>6. QED
  BY <1>1, <1>2, <1>3, <1>5, DeliveryNext

\* The outcome is recorded, whether the worker learns of it or not.
LEMMA OutcomeDelivery ==
    ASSUME IndInv, NEW w \in Worker, UNCHANGED <<outbox, effects>>,
           \/ wk[w].pc = "mark_succeeded" /\ SetSucceeded(wk[w].event)
           \/ wk[w].pc = "mark_failed" /\ SetFailed(wk[w].event),
           \/ \E p \in {"next", "ack", "ack_throw"} : Goes(w, p)
           \/ wk[w].pc = "mark_succeeded" /\ Goes(w, "mark_failed")
           \/ Rests(w, "idle")
    PROVE  Delivery!Next
<1>0. TypeInv /\ WorkerInv(w) /\ BookInv /\ wk[w].pc \in AtWork
  BY DEF IndInv, WorkersInv, AtWork
<1>1. PICK d \in Event : d = wk[w].event /\ outbox[d] # "none"
  BY <1>0 DEF WorkerInv, Carrying
<1>2. PICK s \in {"SUCCEEDED", "FAILED"} :
         /\ consumption' = [consumption EXCEPT ![d].status = s]
         /\ s = "SUCCEEDED" => wk[w].pc = "mark_succeeded"
         /\ s = "FAILED" => wk[w].pc = "mark_failed"
  BY <1>1 DEF SetSucceeded, SetFailed
<1>3. /\ consumption'[d].status = s /\ consumption'[d].attempts = consumption[d].attempts
      /\ \A e \in Event \ {d} : consumption'[e] = consumption[e]
  <2>1. PICK r : r = [consumption[d] EXCEPT !.status = s]
    OBVIOUS
  <2>2. r.status = s /\ r.attempts = consumption[d].attempts
    BY <1>0, <2>1 DEF TypeInv, ConsumptionRow
  <2>3. consumption' = [consumption EXCEPT ![d] = r]
    BY <1>2, <2>1
  <2>4. QED
    BY <1>0, <2>2, <2>3 DEF TypeInv
<1>4. DTries' = DTries
  BY <1>3 DEF DTries
<1>5. \A e \in Event \ {d} : DState'[e] = DState[e]
  BY <1>0, <1>3 DEF DState
<1>6. /\ OthersStill(w)
      /\ \/ wk'[w].pc \notin AtWork
         \/ wk[w].pc = "mark_succeeded" /\ wk'[w].pc = "mark_failed" /\ wk'[w].event = d
  BY <1>1 DEF Goes, Rests, AtWork
<1>7. \/ DRun' = [DRun EXCEPT ![w] = AtRest]
      \/ wk[w].pc = "mark_succeeded" /\ DRun' = [DRun EXCEPT ![w] = <<"failing", d>>]
  BY <1>6, DoingNext, RunSet
<1>8. CASE s = "SUCCEEDED"
  <2>1. DState'[d] = "done"
    BY <1>0, <1>1, <1>3, <1>8 DEF DState
  <2>2. DState' = [DState EXCEPT ![d] = "done"]
    BY <1>5, <2>1, StateSet
  <2>3. DRun[w] = <<"effected", d>>
    BY <1>1, <1>2, <1>8, DoingFacts
  <2>4. QED
    BY <1>4, <1>7, <2>2, <2>3, DeliveryNext
<1>9. CASE s = "FAILED"
  <2>1. DState'[d] = "waiting"
    BY <1>0, <1>1, <1>3, <1>9 DEF DState
  <2>2. DState' = [DState EXCEPT ![d] = "waiting"]
    BY <1>5, <2>1, StateSet
  <2>3. DRun[w] = <<"failing", d>> /\ DRun' = [DRun EXCEPT ![w] = AtRest]
    BY <1>1, <1>2, <1>7, <1>9, DoingFacts
  <2>4. QED
    BY <1>4, <2>2, <2>3, DeliveryNext
<1>10. QED
  BY <1>8, <1>9

\* An await throws: what it was to do may have been done before.
LEMMA ThrowsDelivery ==
    ASSUME IndInv, NEW w \in Worker, Throws(w)
    PROVE  Delivery!Next \/ UNCHANGED Delivery!vars
<1>0. TypeInv /\ outbox' = outbox /\ WorkerInv(w)
  BY DEF IndInv, WorkersInv, Throws
<1>1. \/ wk[w].pc \in {"xadd", "mark_processed"} /\ Goes(w, "mark_unpublished")
      \/ wk[w].pc \in {"dispatch", "mark_succeeded"} /\ Goes(w, "mark_failed")
      \/ wk[w].pc = "mark_failed" /\ wk[w].phase # "retry" /\ Goes(w, "ack_throw")
      \/ wk[w].pc \notin {"dispatch", "mark_succeeded"} /\ Rests(w, "idle")
  BY <1>0, ThrowsShape
<1>2. CASE UNCHANGED <<table, effects>>
  <2>0. consumption' = consumption /\ effects' = effects
    BY <1>2 DEF table
  <2>1. CASE wk[w].pc \in {"dispatch", "mark_succeeded"}
    <3>1. PICK d \in Event : d = wk[w].event
      BY <1>0, <2>1 DEF WorkerInv, Carrying, AtWork
    <3>2. wk'[w].pc = "mark_failed" /\ wk'[w].event = d /\ OthersStill(w)
      BY <1>1, <2>1, <3>1 DEF Goes
    <3>3. DRun' = [DRun EXCEPT ![w] = <<"failing", d>>]
      BY <3>2, DoingNext, RunSet
    <3>4. DState' = DState /\ DTries' = DTries
      BY <1>0, <2>0, StateStill
    <3>5. DRun[w] = <<"begun", d>> \/ DRun[w] = <<"effected", d>>
      BY <2>1, <3>1, DoingFacts
    <3>6. QED
      BY <2>0, <3>3, <3>4, <3>5, DeliveryNext
  <2>2. CASE wk[w].pc \notin {"dispatch", "mark_succeeded"}
    <3>1. wk'[w].pc \notin AtWork /\ OthersStill(w)
      BY <1>1, <2>2 DEF Goes, Rests, AtWork
    <3>2. QED
      BY <1>0, <2>0, <3>1, DoingNext, QuietDelivery
  <2>3. QED
    BY <2>1, <2>2
<1>3. CASE wk[w].pc = "dispatch" /\ effects' = [effects EXCEPT ![wk[w].event] = @ + 1] /\ UNCHANGED table
  <2>1. Goes(w, "mark_failed") /\ consumption' = consumption
    BY <1>1, <1>3 DEF table
  <2>2. QED
    BY <1>0, <1>3, <2>1, EffectDelivery
<1>4. CASE /\ wk[w].pc = "try_start" /\ CanStart(wk[w].event) /\ SetProcessing(wk[w].event)
           /\ UNCHANGED effects
  <2>1. Rests(w, "idle")
    BY <1>1, <1>4
  <2>2. QED
    BY <1>0, <1>4, <2>1, StartedDelivery
<1>5. CASE /\ \/ wk[w].pc = "mark_succeeded" /\ SetSucceeded(wk[w].event)
              \/ wk[w].pc = "mark_failed" /\ SetFailed(wk[w].event)
           /\ UNCHANGED effects
  <2>1. \/ \E p \in {"next", "ack", "ack_throw"} : Goes(w, p)
        \/ wk[w].pc = "mark_succeeded" /\ Goes(w, "mark_failed")
        \/ Rests(w, "idle")
    BY <1>1, <1>5
  <2>2. QED
    BY <1>0, <1>5, <2>1, OutcomeDelivery
<1>6. QED
  BY <1>2, <1>3, <1>4, <1>5 DEF Throws, DoneUnanswered, At

\* Every other step of a worker.
LEMMA OtherDelivery ==
    ASSUME IndInv, NEW w \in Worker,
           \/ Start(w) \/ Crash(w) \/ ListUnprocessed(w) \/ NextPhase(w) \/ TakeRow(w) \/ TakeEntry(w)
           \/ XAdd(w) \/ MarkProcessed(w) \/ MarkUnpublished(w)
           \/ \E C \in SUBSET Claimable : AutoClaim(w, C)
           \/ PollOnce(w) \/ ListDueRetries(w) \/ FindEvent(w) \/ Ack(w)
    PROVE  Delivery!Next \/ UNCHANGED Delivery!vars
<1>0. TypeInv /\ WorkerInv(w) /\ RetryInv /\ wk \in [Worker -> WorkerState]
  BY DEF IndInv, WorkersInv, BookInv, TypeInv
<1>1. consumption' = consumption /\ effects' = effects
  BY DEF Start, Crash, ListUnprocessed, NextPhase, TakeRow, TakeEntry, XAdd, MarkProcessed,
         MarkUnpublished, AutoClaim, PollOnce, ListDueRetries, FindEvent, Ack, table, history
<1>2. \A e \in Event : outbox'[e] = "none" <=> outbox[e] = "none"
  <2>1. CASE MarkProcessed(w)
    <3>1. PICK d \in Event : d = wk[w].event /\ outbox[d] # "none"
      BY <1>0, <2>1 DEF MarkProcessed, At, WorkerInv, Relaying
    <3>2. outbox' = [outbox EXCEPT ![d] = "processed"]
      BY <2>1, <3>1 DEF MarkProcessed
    <3>3. QED
      BY <1>0, <3>1, <3>2 DEF TypeInv
  <2>2. CASE ~MarkProcessed(w)
    BY <2>2 DEF Start, Crash, ListUnprocessed, NextPhase, TakeRow, TakeEntry, XAdd,
         MarkUnpublished, AutoClaim, PollOnce, ListDueRetries, FindEvent, Ack
  <2>3. QED
    BY <2>1, <2>2
<1>3. OthersStill(w) /\ (Doing(w)' = Doing(w) \/ Doing(w)' = AtRest)
  <2>0. SUFFICES OthersStill(w) /\ (wk'[w].pc \notin AtWork \/ Doing(w)' = Doing(w))
    BY DoingNext
  <2>1. CASE Start(w) \/ Crash(w)
    BY <1>0, <2>1, StartShape, CrashShape DEF Rests, AtWork
  <2>2. CASE ListUnprocessed(w)
    BY <1>0, <2>2, ListUnprocessedShape DEF AtWork
  <2>3. CASE NextPhase(w)
    BY <1>0, <2>3, NextPhaseShape DEF AtWork
  <2>4. CASE TakeRow(w)
    BY <1>0, <2>4, TakeRowShape DEF AtWork
  <2>5. CASE TakeEntry(w)
    BY <1>0, <2>5, TakeEntryShape DEF AtWork
  <2>6. CASE XAdd(w) \/ MarkProcessed(w) \/ MarkUnpublished(w)
    <3>1. PICK p \in {"mark_processed", "next"} : Goto(w, p)
      BY <2>6 DEF XAdd, MarkProcessed, MarkUnpublished
    <3>2. Goes(w, p)
      BY <1>0, <3>1, GotoFields DEF Label, Await
    <3>3. QED
      BY <3>1, <3>2 DEF Goes, AtWork
  <2>7. CASE \E C \in SUBSET Claimable : AutoClaim(w, C)
    BY <1>0, <2>7, AutoClaimShape DEF AtWork
  <2>8. CASE PollOnce(w)
    BY <1>0, <2>8, PollShape DEF AtWork
  <2>9. CASE ListDueRetries(w)
    BY <1>0, <2>9, ListDueShape DEF AtWork
  <2>10. CASE FindEvent(w)
    <3>1. Goes(w, "dispatch") /\ wk[w].pc = "find_event"
      BY <1>0, <2>10, GotoFields DEF FindEvent, At, Label, Await
    <3>2. wk'[w].pc = "dispatch" /\ wk'[w].event = wk[w].event /\ OthersStill(w)
      BY <3>1 DEF Goes
    <3>3. QED
      BY <3>1, <3>2, DoingFacts, DoingNext
  <2>11. CASE Ack(w)
    BY <1>0, <2>11, AckShape DEF Goes, Rests, AtWork
  <2>12. QED
    BY <2>1, <2>2, <2>3, <2>4, <2>5, <2>6, <2>7, <2>8, <2>9, <2>10, <2>11
<1>4. QED
  BY <1>1, <1>2, <1>3, QuietDelivery

\* Every step is a step of Delivery, or leaves it alone.
LEMMA StepDelivery ==
    ASSUME IndInv, [Next]_vars
    PROVE  [Delivery!Next]_(Delivery!vars)
<1>0. TypeInv /\ wk \in [Worker -> WorkerState]
  BY DEF IndInv, TypeInv
<1>1. CASE \E e \in Event : Insert(e)
  BY <1>1, InsertDelivery
<1>2. ASSUME NEW w \in Worker, Start(w) \/ Step(w) \/ Throws(w) \/ Crash(w)
      PROVE  Delivery!Next \/ UNCHANGED Delivery!vars
  <2>1. CASE Throws(w)
    BY <2>1, ThrowsDelivery
  <2>2. CASE TryStart(w)
    BY <2>2, TryStartDelivery
  <2>3. CASE MarkSucceeded(w) \/ MarkFailed(w)
    <3>1. PICK p \in {"next", "ack"} : p = Settled(w)
      BY DEF Settled
    <3>2. Goes(w, p)
      BY <1>0, <2>3, <3>1, GotoFields DEF MarkSucceeded, MarkFailed, Label, Await
    <3>3. /\ \/ wk[w].pc = "mark_succeeded" /\ SetSucceeded(wk[w].event)
             \/ wk[w].pc = "mark_failed" /\ SetFailed(wk[w].event)
          /\ UNCHANGED <<outbox, effects>>
      BY <2>3 DEF MarkSucceeded, MarkFailed, At, history
    <3>4. QED
      BY <3>2, <3>3, OutcomeDelivery
  <2>4. CASE Dispatch(w)
    <3>1. Goes(w, "mark_succeeded")
      BY <1>0, <2>4, GotoFields DEF Dispatch, Label, Await
    <3>2. QED
      BY <2>4, <3>1, EffectDelivery DEF Dispatch, At, table
  <2>5. CASE \/ Start(w) \/ Crash(w) \/ ListUnprocessed(w) \/ NextPhase(w) \/ TakeRow(w) \/ TakeEntry(w)
             \/ XAdd(w) \/ MarkProcessed(w) \/ MarkUnpublished(w)
             \/ \E C \in SUBSET Claimable : AutoClaim(w, C)
             \/ PollOnce(w) \/ ListDueRetries(w) \/ FindEvent(w) \/ Ack(w)
    BY <2>5, OtherDelivery
  <2>6. QED
    BY <1>2, <2>1, <2>2, <2>3, <2>4, <2>5 DEF Step
<1>3. CASE BackoffElapses \/ UNCHANGED vars
  <2>1. consumption' = consumption /\ effects' = effects /\ outbox' = outbox /\ wk' = wk
    BY <1>3 DEF BackoffElapses, vars, table, history
  <2>2. DState' = DState /\ DTries' = DTries /\ DRun' = DRun
    BY <2>1, StateStill DEF DRun, Doing, At
  <2>3. QED
    BY <2>1, <2>2, DeliveryStill
<1>4. QED
  BY <1>1, <1>2, <1>3 DEF Next

\* ImplementsDelivery: the pipeline of any number of workers, at work on the
\* same events or not, whatever throws, whichever answers are lost and
\* however often processes die and are started again, implements
\* EventDelivery.
THEOREM DeliveryTheorem == Spec => ImplementsDelivery
<1>1. Init => Delivery!Init
  <2>1. SUFFICES ASSUME Init
                 PROVE  Delivery!Init
    OBVIOUS
  <2>2. DState = [e \in Event |-> "absent"] /\ DTries = [e \in Event |-> 0]
    BY <2>1 DEF Init, DState, DTries
  <2>3. \A w \in Worker : wk[w].pc \notin AtWork
    BY <2>1, DownFields DEF Init, AtWork
  <2>4. DRun = [w \in Worker |-> AtRest]
    BY <2>3, DoingFacts DEF DRun
  <2>5. QED
    BY <2>1, <2>2, <2>4, DeliveryInit DEF Init
<1>2. IndInv /\ [Next]_vars => [Delivery!Next]_(Delivery!vars)
  BY StepDelivery
<1>3. Spec => []IndInv
  BY SpecIndInv
<1>4. QED
  BY <1>1, <1>2, <1>3, PTL DEF Spec, ImplementsDelivery, Delivery!Spec

=============================================================================
