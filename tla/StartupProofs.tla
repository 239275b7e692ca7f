---------------------------- MODULE StartupProofs ----------------------------
(***************************************************************************)
(* Theorems about Startup, for strings of any length.                      *)
(*                                                                         *)
(* parseDsnZmq goes through the words of the string twice.  What its loops *)
(* have after every word is shown by induction over the words, in terms of *)
(* the set of the places up to which a claim holds: the natural numbers    *)
(* are well founded, so that a set of them which is not empty has a least  *)
(* one.  That there is a function with such a recursive definition at all  *)
(* is shown the same way.                                                  *)
(*                                                                         *)
(* The rest is StartInv: the configurations are those that the string      *)
(* gives, the connections made so far are those of the configurations, and *)
(* pc tells how many there are.                                            *)
(***************************************************************************)
EXTENDS Startup, FiniteSetTheorems, NaturalsInduction, WellFoundedInduction, TLAPS

-----------------------------------------------------------------------------
(* Loops over words.  What holds of the loop's states is shown through the   *)
(* set of the places where it holds.                                         *)

\* A set of places that is not empty has a first one.
LEMMA LeastPlace ==
    ASSUME NEW T \in SUBSET Nat, T # {}
    PROVE  \E m \in T : \A k \in T : m <= k
<1>1. PICK m \in T : \A k \in T : <<k, m>> \notin OpToRel(<, Nat)
  BY WFMin, NatLessThanWellFounded
<1>2. \A k \in T : ~(k < m)
  BY <1>1 DEF OpToRel
<1> QED
  BY <1>2

\* What holds before the first round and is kept by every round holds to the end.
LEMMA UpTo ==
    ASSUME NEW N \in Nat, NEW P, 0 \in P,
           \A n \in 1 .. N : n - 1 \in P => n \in P
    PROVE  0 .. N \subseteq P
<1>1. SUFFICES ASSUME (0 .. N) \ P # {} PROVE FALSE
  OBVIOUS
<1>2. PICK m \in (0 .. N) \ P : \A k \in (0 .. N) \ P : m <= k
  <2>1. (0 .. N) \ P \in SUBSET Nat
    OBVIOUS
  <2> QED
    BY <1>1, <2>1, LeastPlace
<1>3. m \in 1 .. N /\ m - 1 \in 0 .. N /\ ~(m <= m - 1)
  BY <1>2
<1>4. m - 1 \in P
  BY <1>2, <1>3
<1> QED
  BY <1>2, <1>3, <1>4

\* What a loop of N rounds goes through from base on, if next says what each
\* round does to the loop's state.
Traces(N, V, base, next) ==
    {g \in [0 .. N -> V] : g[0] = base /\ \A n \in 1 .. N : g[n] = next[n][g[n - 1]]}

LEMMA LoopsHaveTraces ==
    ASSUME NEW N \in Nat, NEW V, NEW base \in V, NEW next \in [1 .. N -> [V -> V]]
    PROVE  Traces(N, V, base, next) # {}
<1> DEFINE P == {n \in Nat : Traces(n, V, base, next) # {}}
<1>1. 0 \in P
  <2>1. [k \in 0 .. 0 |-> base] \in Traces(0, V, base, next)
    BY DEF Traces
  <2> QED
    BY <2>1
<1>2. ASSUME NEW n \in 1 .. N, n - 1 \in P PROVE n \in P
  <2>1. PICK g \in [0 .. n - 1 -> V] :
            g[0] = base /\ \A k \in 1 .. n - 1 : g[k] = next[k][g[k - 1]]
    BY <1>2 DEF Traces
  <2> DEFINE h == [k \in 0 .. n |-> IF k = n THEN next[n][g[n - 1]] ELSE g[k]]
  <2>2. next[n][g[n - 1]] \in V
    BY <2>1
  <2>3. h \in [0 .. n -> V] /\ h[0] = base
    BY <2>1, <2>2
  <2>4. \A k \in 1 .. n : h[k] = next[k][h[k - 1]]
    <3>1. ASSUME NEW k \in 1 .. n PROVE h[k] = next[k][h[k - 1]]
      <4>1. h[k - 1] = g[k - 1]
        BY <2>1
      <4> QED
        BY <2>1, <4>1
    <3> QED
      BY <3>1
  <2> HIDE DEF h
  <2>5. h \in Traces(n, V, base, next)
    BY <2>3, <2>4 DEF Traces
  <2> QED
    BY <2>5 DEF P
<1>3. N \in P
  <2>1. \A n \in 1 .. N : n - 1 \in P => n \in P
    BY <1>2
  <2> HIDE DEF P
  <2>2. 0 .. N \subseteq P
    BY <1>1, <2>1, UpTo
  <2> QED
    BY <2>2
<1> QED
  BY <1>3

-----------------------------------------------------------------------------
(* Settings.                                                                 *)

LEMMA SeenStates ==
    ASSUME NEW words \in Seq(Words), NEW key
    PROVE  /\ Seen(words, key)[0] = NotGiven
           /\ \A n \in 1 .. Len(words) :
                  Seen(words, key)[n] =
                      IF words[n].key = key THEN words[n].value ELSE Seen(words, key)[n - 1]
<1> DEFINE V == {NotGiven} \cup {w.value : w \in Words}
           next == [n \in 1 .. Len(words) |-> [v \in V |->
                       IF words[n].key = key THEN words[n].value ELSE v]]
           Body(f) == [n \in 0 .. Len(words) |->
                         IF n = 0 THEN NotGiven
                         ELSE IF words[n].key = key THEN words[n].value ELSE f[n - 1]]
<1>0. Len(words) \in Nat /\ NotGiven \in V
  OBVIOUS
<1>1. \A n \in 1 .. Len(words) : words[n].value \in V
  OBVIOUS
<1> HIDE DEF V
<1>2. next \in [1 .. Len(words) -> [V -> V]]
  BY <1>1
<1>3. \A n \in 1 .. Len(words), v \in V :
          next[n][v] = IF words[n].key = key THEN words[n].value ELSE v
  OBVIOUS
<1> HIDE DEF next
<1>4. PICK g \in [0 .. Len(words) -> V] :
          g[0] = NotGiven /\ \A n \in 1 .. Len(words) : g[n] = next[n][g[n - 1]]
  <2>1. Traces(Len(words), V, NotGiven, next) # {}
    BY <1>0, <1>2, LoopsHaveTraces
  <2> QED
    BY <2>1 DEF Traces
<1>5. \A n \in 1 .. Len(words) :
          g[n] = IF words[n].key = key THEN words[n].value ELSE g[n - 1]
  <2>1. \A n \in 1 .. Len(words) : g[n - 1] \in V
    BY <1>0
  <2> QED
    BY <1>3, <1>4, <2>1
<1>6. \A f : /\ Body(f)[0] = NotGiven
            /\ \A n \in 1 .. Len(words) :
                   Body(f)[n] = IF words[n].key = key THEN words[n].value ELSE f[n - 1]
  BY <1>0
<1>7. g = Body(g)
  BY <1>0, <1>4, <1>5
<1>8. Seen(words, key) = CHOOSE f : f = Body(f)
  BY DEF Seen
<1> HIDE DEF Body
<1>9. Seen(words, key) = Body(Seen(words, key))
  BY <1>7, <1>8
<1> QED
  BY <1>6, <1>9

\* How often a key is given does not matter, and neither where.
LEMMA SettingIsLast ==
    ASSUME NEW words \in Seq(Words), NEW key
    PROVE  LET at == {i \in 1 .. Len(words) : words[i].key = key} IN
           \/ at = {} /\ Setting(words, key) = NotGiven
           \/ \E m \in at : (\A i \in at : i <= m) /\ Setting(words, key) = words[m].value
<1> DEFINE seen == Seen(words, key)
           P == {n \in Nat :
                   \/ (\A i \in 1 .. n : words[i].key # key) /\ seen[n] = NotGiven
                   \/ \E m \in 1 .. n : /\ words[m].key = key /\ seen[n] = words[m].value
                                       /\ \A i \in m + 1 .. n : words[i].key # key}
<1>1. seen[0] = NotGiven /\ Len(words) \in Nat
  BY SeenStates
<1>2. \A n \in 1 .. Len(words) :
          seen[n] = IF words[n].key = key THEN words[n].value ELSE seen[n - 1]
  BY SeenStates
<1> HIDE DEF seen
<1>3. 0 \in P
  BY <1>1
<1>4. ASSUME NEW n \in 1 .. Len(words), n - 1 \in P PROVE n \in P
  <2>1. CASE words[n].key = key
    <3>1. seen[n] = words[n].value /\ \A i \in n + 1 .. n : words[i].key # key
      BY <1>2, <2>1
    <3> QED
      BY <2>1, <3>1
  <2>2. CASE words[n].key # key
    <3>1. seen[n] = seen[n - 1] /\ \A i \in 1 .. n : i = n \/ i \in 1 .. n - 1
      BY <1>2, <2>2
    <3>2. CASE (\A i \in 1 .. n - 1 : words[i].key # key) /\ seen[n - 1] = NotGiven
      BY <2>2, <3>1, <3>2
    <3>3. ASSUME NEW m \in 1 .. n - 1, words[m].key = key, seen[n - 1] = words[m].value,
                 \A i \in m + 1 .. n - 1 : words[i].key # key
          PROVE  n \in P
      <4>1. m \in 1 .. n /\ \A i \in m + 1 .. n : i = n \/ i \in m + 1 .. n - 1
        OBVIOUS
      <4>2. \A i \in m + 1 .. n : words[i].key # key
        BY <2>2, <3>3, <4>1
      <4> QED
        BY <3>1, <3>3, <4>1, <4>2
    <3> QED
      BY <1>4, <3>2, <3>3
  <2> QED
    BY <2>1, <2>2
<1>5. Len(words) \in P
  <2>1. \A n \in 1 .. Len(words) : n - 1 \in P => n \in P
    BY <1>4
  <2> HIDE DEF P
  <2>2. 0 .. Len(words) \subseteq P
    BY <1>1, <1>3, <2>1, UpTo
  <2> QED
    BY <1>1, <2>2
<1>6. Setting(words, key) = seen[Len(words)]
  BY DEF Setting, seen
<1>7. CASE (\A i \in 1 .. Len(words) : words[i].key # key) /\ seen[Len(words)] = NotGiven
  BY <1>6, <1>7
<1>8. ASSUME NEW m \in 1 .. Len(words), words[m].key = key, seen[Len(words)] = words[m].value,
             \A i \in m + 1 .. Len(words) : words[i].key # key
      PROVE  \E k \in {i \in 1 .. Len(words) : words[i].key = key} :
                 /\ \A i \in {j \in 1 .. Len(words) : words[j].key = key} : i <= k
                 /\ Setting(words, key) = words[k].value
  <2>1. \A i \in 1 .. Len(words) : words[i].key = key => i <= m
    BY <1>1, <1>8
  <2> QED
    BY <1>6, <1>8, <2>1
<1> QED
  BY <1>5, <1>7, <1>8

-----------------------------------------------------------------------------
(* The gates of a string.                                                    *)

LEMMA AfterWordStates ==
    ASSUME NEW words \in Seq(Words)
    PROVE  /\ AfterWord(words)[0] = [err |-> FALSE, result |-> <<>>]
           /\ \A n \in 1 .. Len(words) :
                  AfterWord(words)[n] =
                      IF AfterWord(words)[n - 1].err \/ ~IsZmq(words[n]) THEN AfterWord(words)[n - 1]
                      ELSE IF Malformed(words[n]) THEN Failed
                      ELSE [err |-> FALSE,
                            result |-> Append(AfterWord(words)[n - 1].result, Config(words, words[n]))]
<1> DEFINE C == {Config(words, w) : w \in Words}
           V == [err : BOOLEAN, result : Seq(C)]
           Round(v, n) ==
               IF v.err \/ ~IsZmq(words[n]) THEN v
               ELSE IF Malformed(words[n]) THEN Failed
               ELSE [err |-> FALSE, result |-> Append(v.result, Config(words, words[n]))]
           next == [n \in 1 .. Len(words) |-> [v \in V |-> Round(v, n)]]
           Start == [err |-> FALSE, result |-> <<>>]
           Body(f) == [n \in 0 .. Len(words) |-> IF n = 0 THEN Start ELSE Round(f[n - 1], n)]
<1>0. Len(words) \in Nat /\ Start \in V /\ Failed \in V
  BY DEF Failed
<1>1. ASSUME NEW n \in 1 .. Len(words), NEW v \in V PROVE Round(v, n) \in V
  <2>1. words[n] \in Words
    OBVIOUS
  <2>2. Config(words, words[n]) \in C
    BY <2>1
  <2> HIDE DEF C
  <2>3. Append(v.result, Config(words, words[n])) \in Seq(C)
    BY <2>2
  <2> QED
    BY <1>0, <2>3
<1> HIDE DEF V, Round, Start
<1>2. next \in [1 .. Len(words) -> [V -> V]]
  BY <1>1
<1>3. \A n \in 1 .. Len(words), v \in V : next[n][v] = Round(v, n)
  OBVIOUS
<1> HIDE DEF next
<1>4. PICK g \in [0 .. Len(words) -> V] :
          g[0] = Start /\ \A n \in 1 .. Len(words) : g[n] = next[n][g[n - 1]]
  <2>1. Traces(Len(words), V, Start, next) # {}
    BY <1>0, <1>2, LoopsHaveTraces
  <2> QED
    BY <2>1 DEF Traces
<1>5. \A n \in 1 .. Len(words) : g[n] = Round(g[n - 1], n)
  <2>1. \A n \in 1 .. Len(words) : g[n - 1] \in V
    BY <1>0
  <2> QED
    BY <1>3, <1>4, <2>1
<1>6. \A f : Body(f)[0] = Start /\ \A n \in 1 .. Len(words) : Body(f)[n] = Round(f[n - 1], n)
  BY <1>0
<1>7. g = Body(g)
  BY <1>0, <1>4, <1>5
<1>8. AfterWord(words) = CHOOSE f : f = Body(f)
  BY DEF AfterWord, Body, Round, Start
<1> HIDE DEF Body
<1>9. AfterWord(words) = Body(AfterWord(words))
  BY <1>7, <1>8
<1>10. /\ AfterWord(words)[0] = Start
       /\ \A n \in 1 .. Len(words) : AfterWord(words)[n] = Round(AfterWord(words)[n - 1], n)
  BY <1>6, <1>9
<1> QED
  BY <1>10 DEF Round, Start

Texts == {NotGiven} \cup {w.value : w \in Words}
PushAddrOf(w) == <<w.host, w.port>>
XSubAddrOf(w) == <<w.host, IF w.xsub = NoPort THEN w.port + 1 ELSE w.xsub>>
Addrs == {<<>>} \cup {PushAddrOf(w) : w \in Words} \cup {XSubAddrOf(w) : w \in Words}
Cfgs == [PushAddr : Addrs, XSubAddr : Addrs, Token : Texts, PushKey : Texts, XSubKey : Texts]

LEMMA SettingText ==
    ASSUME NEW words \in Seq(Words), NEW key
    PROVE  Setting(words, key) \in Texts
<1>1. \A i \in 1 .. Len(words) : words[i] \in Words
  OBVIOUS
<1>2. Setting(words, key) = NotGiven \/ \E m \in 1 .. Len(words) : Setting(words, key) = words[m].value
  BY SettingIsLast
<1> QED
  BY <1>1, <1>2 DEF Texts

LEMMA ConfigTyped ==
    ASSUME NEW words \in Seq(Words), NEW w \in Words
    PROVE  /\ Config(words, w) \in Cfgs
           /\ Config(words, w).PushAddr = PushAddrOf(w)
           /\ Config(words, w).XSubAddr = XSubAddrOf(w)
<1>1. PushAddrOf(w) \in Addrs /\ XSubAddrOf(w) \in Addrs
  BY DEF Addrs
<1> DEFINE token == Setting(words, "token")
           push == Setting(words, "push_key")
           xsub == Setting(words, "xsub_key")
<1>2. token \in Texts /\ push \in Texts /\ xsub \in Texts
  BY SettingText
<1>3. Config(words, w) = [PushAddr |-> PushAddrOf(w), XSubAddr |-> XSubAddrOf(w),
                          Token |-> token, PushKey |-> push, XSubKey |-> xsub]
  BY DEF Config, PushAddrOf, XSubAddrOf
<1> HIDE DEF token, push, xsub
<1> QED
  BY <1>1, <1>2, <1>3 DEF Cfgs

\* The places of addresses among the first n words.
Addresses(words, n) == {j \in 1 .. n : IsZmq(words[j])}

LEMMA AddressesCounted ==
    ASSUME NEW words, NEW n \in Nat, n # 0
    PROVE  /\ Cardinality(Addresses(words, n)) \in Nat
           /\ Cardinality(Addresses(words, n)) =
                  IF IsZmq(words[n]) THEN Cardinality(Addresses(words, n - 1)) + 1
                  ELSE Cardinality(Addresses(words, n - 1))
<1>1. IsFiniteSet(Addresses(words, n - 1)) /\ n \notin Addresses(words, n - 1)
  <2>1. IsFiniteSet(1 .. n - 1)
    BY FS_Interval
  <2> QED
    BY <2>1, FS_Subset DEF Addresses
<1>2. Addresses(words, n) = IF IsZmq(words[n]) THEN Addresses(words, n - 1) \cup {n}
                            ELSE Addresses(words, n - 1)
  BY DEF Addresses
<1>3. Cardinality(Addresses(words, n - 1)) \in Nat
  BY <1>1, FS_CardinalityType
<1>4. Cardinality(Addresses(words, n - 1) \cup {n}) = Cardinality(Addresses(words, n - 1)) + 1
  BY <1>1, FS_AddElement
<1> QED
  BY <1>2, <1>3, <1>4

\* What the loop has made of the first n words, unless one was malformed.
GatesSoFar(words, n, gates) ==
    /\ Len(gates) = Cardinality(Addresses(words, n))
    /\ \A i \in Addresses(words, n) :
           /\ ~Malformed(words[i])
           /\ Cardinality(Addresses(words, i)) \in 1 .. Len(gates)
           /\ gates[Cardinality(Addresses(words, i))] = Config(words, words[i])

LEMMA GateAdded ==
    ASSUME NEW words \in Seq(Words), NEW n \in 1 .. Len(words), NEW gates \in Seq(Cfgs),
           GatesSoFar(words, n - 1, gates), IsZmq(words[n]), ~Malformed(words[n])
    PROVE  LET more == Append(gates, Config(words, words[n])) IN
           more \in Seq(Cfgs) /\ GatesSoFar(words, n, more)
<1> DEFINE new == Config(words, words[n])
           more == Append(gates, new)
           count(i) == Cardinality(Addresses(words, i))
<1>1. new \in Cfgs
  <2>1. words[n] \in Words
    OBVIOUS
  <2> QED
    BY <2>1, ConfigTyped
<1>2. count(n) = count(n - 1) + 1 /\ count(n - 1) = Len(gates) /\ n \in Nat /\ n # 0
  BY AddressesCounted DEF GatesSoFar
<1>3. \A i \in Addresses(words, n) : i = n \/ i \in Addresses(words, n - 1)
  BY DEF Addresses
<1>4. \A i \in Addresses(words, n - 1) :
          ~Malformed(words[i]) /\ count(i) \in 1 .. Len(gates) /\ gates[count(i)] = Config(words, words[i])
  BY DEF GatesSoFar
<1> HIDE DEF new, count
<1>5. more \in Seq(Cfgs) /\ Len(more) = count(n) /\ more[count(n)] = new
  BY <1>1, <1>2
<1>6. \A i \in Addresses(words, n - 1) : count(i) \in 1 .. Len(more) /\ more[count(i)] = gates[count(i)]
  BY <1>1, <1>2, <1>4, <1>5
<1>7. \A i \in Addresses(words, n) :
          ~Malformed(words[i]) /\ count(i) \in 1 .. Len(more) /\ more[count(i)] = Config(words, words[i])
  <2>1. ASSUME NEW i \in Addresses(words, n)
        PROVE  ~Malformed(words[i]) /\ count(i) \in 1 .. Len(more) /\ more[count(i)] = Config(words, words[i])
    <3>1. CASE i = n
      BY <1>2, <1>5, <3>1 DEF new
    <3>2. CASE i \in Addresses(words, n - 1)
      BY <1>4, <1>6, <3>2
    <3> QED
      BY <1>3, <3>1, <3>2
  <2> QED
    BY <2>1
<1> HIDE DEF more
<1> QED
  BY <1>5, <1>7 DEF GatesSoFar, more, count, new

\* A string that is read without an error has a gate for every address, in order.
LEMMA GatesOfString ==
    ASSUME NEW words \in Seq(Words)
    PROVE  LET last == AfterWord(words)[Len(words)] IN
           /\ last.err \in BOOLEAN
           /\ last.result \in Seq(Cfgs)
           /\ last.err => last.result = <<>>
           /\ ~last.err => GatesSoFar(words, Len(words), last.result)
<1> DEFINE after == AfterWord(words)
           P == {n \in Nat : /\ after[n].err \in BOOLEAN
                             /\ after[n].result \in Seq(Cfgs)
                             /\ after[n].err => after[n].result = <<>>
                             /\ ~after[n].err => GatesSoFar(words, n, after[n].result)}
<1>1. /\ after[0] = [err |-> FALSE, result |-> <<>>]
      /\ Len(words) \in Nat
  BY AfterWordStates
<1>2. \A n \in 1 .. Len(words) :
          after[n] = IF after[n - 1].err \/ ~IsZmq(words[n]) THEN after[n - 1]
                     ELSE IF Malformed(words[n]) THEN Failed
                     ELSE [err |-> FALSE, result |-> Append(after[n - 1].result, Config(words, words[n]))]
  BY AfterWordStates
<1> HIDE DEF after
<1>3. 0 \in P
  <2>1. Addresses(words, 0) = {} /\ Cardinality(Addresses(words, 0)) = 0
    BY FS_EmptySet DEF Addresses
  <2>2. GatesSoFar(words, 0, <<>>)
    BY <2>1 DEF GatesSoFar
  <2>3. after[0].err = FALSE /\ after[0].result = <<>> /\ <<>> \in Seq(Cfgs)
    BY <1>1
  <2>4. after[0].err \in BOOLEAN /\ GatesSoFar(words, 0, after[0].result)
    BY <2>2, <2>3
  <2> QED
    BY <2>3, <2>4
<1>4. ASSUME NEW n \in 1 .. Len(words), n - 1 \in P PROVE n \in P
  <2>0. /\ after[n - 1].err \in BOOLEAN
        /\ after[n - 1].result \in Seq(Cfgs)
        /\ after[n - 1].err => after[n - 1].result = <<>>
        /\ ~after[n - 1].err => GatesSoFar(words, n - 1, after[n - 1].result)
    BY <1>4
  <2>n. n \in Nat
    BY <1>1
  <2>1. CASE after[n - 1].err
    <3>1. after[n] = after[n - 1]
      BY <1>2, <2>1
    <3>2. after[n].err \in BOOLEAN /\ after[n].err
      BY <2>0, <2>1, <3>1, Zenon
    <3>3. after[n].result \in Seq(Cfgs) /\ after[n].result = <<>>
      BY <2>0, <2>1, <3>1
    <3> QED
      BY <2>n, <3>2, <3>3, Zenon
  <2>2. CASE ~after[n - 1].err /\ ~IsZmq(words[n])
    <3>1. after[n] = after[n - 1]
      BY <1>2, <2>2
    <3>2. Addresses(words, n) = Addresses(words, n - 1)
      BY <2>2 DEF Addresses
    <3>3. GatesSoFar(words, n, after[n].result)
      BY <2>0, <2>2, <3>1, <3>2 DEF GatesSoFar
    <3>4. after[n].err \in BOOLEAN
      BY <2>0, <3>1
    <3>5. after[n].result \in Seq(Cfgs)
      BY <2>0, <3>1
    <3>6. ~after[n].err
      BY <2>2, <3>1
    <3> QED
      BY <3>3, <3>4, <3>5, <3>6
  <2>3. CASE ~after[n - 1].err /\ IsZmq(words[n]) /\ Malformed(words[n])
    <3>1. after[n] = Failed
      BY <1>2, <2>3
    <3>2. after[n].err = TRUE
      BY <3>1 DEF Failed
    <3>4. after[n].err \in BOOLEAN /\ after[n].err
      BY <3>2
    <3>3. after[n].result = <<>> /\ <<>> \in Seq(Cfgs)
      BY <3>1 DEF Failed
    <3> QED
      BY <2>n, <3>3, <3>4, Zenon
  <2>4. CASE ~after[n - 1].err /\ IsZmq(words[n]) /\ ~Malformed(words[n])
    <3> DEFINE more == Append(after[n - 1].result, Config(words, words[n]))
    <3>1. after[n] = [err |-> FALSE, result |-> more]
      BY <1>2, <2>4
    <3>2. more \in Seq(Cfgs) /\ GatesSoFar(words, n, more)
      BY <2>0, <2>4, GateAdded
    <3> HIDE DEF more
    <3>3. after[n].err = FALSE
      BY <3>1
    <3>4. after[n].result = more
      BY <3>1
    <3>5. after[n].err \in BOOLEAN /\ ~after[n].err
      BY <3>3
    <3> QED
      BY <3>2, <3>4, <3>5
  <2> QED
    BY <2>1, <2>2, <2>3, <2>4
<1>5. Len(words) \in P
  <2>1. \A n \in 1 .. Len(words) : n - 1 \in P => n \in P
    BY <1>4
  <2> HIDE DEF P
  <2>2. 0 .. Len(words) \subseteq P
    BY <1>1, <1>3, <2>1, UpTo
  <2> QED
    BY <1>1, <2>2
<1> QED
  BY <1>5 DEF after

-----------------------------------------------------------------------------
(* The connections.                                                          *)

Conns ==
    [state : {"none", "open", "running"}, addr : Addrs, key : Texts, token : Texts,
     flag : BOOLEAN, ready : Seq(BOOLEAN), changes : Int]
Pairs == [xsub : Conns, push : Conns]

\* Two connections that are the same but for the readiness.
SameLink(c, d) == c.state = d.state /\ c.addr = d.addr /\ c.key = d.key /\ c.token = d.token

LEMMA NoConnTyped == NoConn \in Conns
<1>1. <<>> \in Addrs /\ NotGiven \in Texts /\ <<>> \in Seq(BOOLEAN)
  BY DEF Addrs, Texts
<1> QED
  BY <1>1 DEF NoConn, Conns

\* A connection as its configuration says.
LEMMA OpenedTyped ==
    ASSUME Gate \in 1 .. Len(configs), configs \in Seq(Cfgs), NEW addr \in Addrs, NEW key \in Texts
    PROVE  LET c == Opened(addr, key) IN
           c \in Conns /\ c.state = "open" /\ c.addr = addr /\ c.key = key /\ c.token = configs[Gate].Token
<1>1. configs[Gate].Token \in Texts
  <2>1. configs[Gate] \in Cfgs
    OBVIOUS
  <2> QED
    BY <2>1 DEF Cfgs
<1> QED
  BY <1>1, NoConnTyped DEF Opened, Conns

LEMMA SidesOfPair ==
    ASSUME NEW p \in Pairs
    PROVE  /\ p["xsub"] = p.xsub /\ p["push"] = p.push
           /\ \A s \in Sides : p[s] \in Conns
  BY DEF Pairs, Sides

\* Replacing one connection.
LEMMA OneReplaced ==
    ASSUME NEW q \in Seq(Pairs), NEW i \in 1 .. Len(q), NEW s \in Sides, NEW c \in Conns
    PROVE  LET r == [q EXCEPT ![i][s] = c] IN
           /\ r \in Seq(Pairs) /\ Len(r) = Len(q)
           /\ r[i][s] = c
           /\ \A j \in 1 .. Len(q), t \in Sides : <<j, t>> # <<i, s>> => r[j][t] = q[j][t]
<1> DEFINE p == [q[i] EXCEPT ![s] = c]
           r == [q EXCEPT ![i][s] = c]
<1>1. q[i] \in Pairs
  OBVIOUS
<1>2. p \in Pairs /\ p[s] = c /\ \A t \in Sides : t # s => p[t] = q[i][t]
  BY <1>1 DEF Pairs, Sides
<1>3. r = [q EXCEPT ![i] = p]
  OBVIOUS
<1> HIDE DEF p, r
<1>4. r \in Seq(Pairs) /\ Len(r) = Len(q) /\ r[i] = p
  BY <1>2, <1>3
<1>5. \A j \in 1 .. Len(q) : j # i => r[j] = q[j]
  BY <1>3
<1> QED
  BY <1>2, <1>4, <1>5 DEF r

\* A connection that changes its flag remains the connection it is.
LEMMA ChangedConn ==
    ASSUME NEW c \in Conns
    PROVE  LET d == [c EXCEPT !.flag = ~@, !.ready = Append(@, ~c.flag), !.changes = @ + 1] IN
           d \in Conns /\ SameLink(c, d)
<1> DEFINE flag == ~c.flag
           told == Append(c.ready, flag)
           d == [c EXCEPT !.flag = flag, !.ready = told, !.changes = c.changes + 1]
<1>1. flag \in BOOLEAN
  OBVIOUS
<1> HIDE DEF flag
<1>2. told \in Seq(BOOLEAN)
  BY <1>1 DEF Conns
<1>3. c.changes + 1 \in Int
  BY DEF Conns
<1> HIDE DEF told
<1>4. d \in Conns /\ SameLink(c, d)
  BY <1>1, <1>2, <1>3 DEF Conns, SameLink
<1> QED
  BY <1>4 DEF flag, told

-----------------------------------------------------------------------------
(* How far NewTrader is.                                                     *)

Shape ==
    /\ dsn \in Seq(Words) /\ dsn # <<>>
    /\ configs \in Seq(Cfgs)
    /\ conns \in Seq(Pairs)
    /\ started \in Nat
    /\ pc \in {"parse", "xsub", "greet", "push", "start", "cluster", "returned"}
    /\ result \in {"none", "error", "gate", "cluster", "mock"}
    /\ result # "none" <=> pc = "returned"
    /\ crashed \in BOOLEAN

Building == pc \in {"xsub", "greet", "push", "start"}
Built == result \in {"gate", "cluster"}

Stage ==
    /\ pc = "parse" => configs = <<>> /\ conns = <<>> /\ started = 0
    /\ Building => started < Len(configs)
    /\ pc \in {"greet", "push", "start"} => Len(conns) = started + 1
    /\ pc \in {"xsub", "cluster"} \/ Built => Len(conns) = started
    /\ pc = "cluster" \/ Built => started = Len(configs)
    /\ pc = "cluster" => started > 1
    /\ Built => (result = "gate" <=> started = 1)
    /\ started <= Len(configs) /\ Len(conns) \in {started, started + 1}

\* The gates come from the string.
AsRead ==
    Building \/ pc = "cluster" \/ Built =>
        LET last == AfterWord(dsn)[Len(dsn)] IN ~last.err /\ configs = last.result

XSubMade(i) ==
    /\ conns[i].xsub.addr = configs[i].XSubAddr /\ configs[i].XSubAddr[2] <= MaxPort
    /\ conns[i].xsub.key = configs[i].XSubKey
    /\ conns[i].xsub.token = configs[i].Token
PushMade(i) ==
    /\ conns[i].push.addr = configs[i].PushAddr /\ configs[i].PushAddr[2] <= MaxPort
    /\ conns[i].push.key = configs[i].PushKey
    /\ conns[i].push.token = configs[i].Token
    /\ conns[i].push.state = "running"

\* The connections come from the gates.
Connected ==
    /\ \A i \in 1 .. started : XSubMade(i) /\ conns[i].xsub.state = "running" /\ PushMade(i)
    /\ pc \in {"greet", "push", "start"} => XSubMade(started + 1)
    /\ pc \in {"push", "start"} => conns[started + 1].xsub.state = "running"
    /\ pc = "start" => PushMade(started + 1)

StartInv == Shape /\ Stage /\ AsRead /\ Connected

MockInv ==
    /\ isReady \in BOOLEAN
    /\ ready \in Seq(BOOLEAN)
    /\ setting \in [Setters -> {"idle", "on", "off"}]
    /\ heard \in {<<>>, <<TRUE>>, <<FALSE>>}

LEMMA InitStart == Init => StartInv
<1> SUFFICES ASSUME Init PROVE StartInv
  OBVIOUS
<1>1. dsn \in Seq(Words) /\ dsn # <<>>
  <2>1. PICK n \in 1 .. MaxWords : dsn \in [1 .. n -> Words]
    BY DEF Init
  <2>2. n \in Nat /\ n # 0
    BY <2>1, StartupBounds
  <2>3. dsn \in Seq(Words) /\ Len(dsn) = n
    BY <2>1, <2>2
  <2> QED
    BY <2>2, <2>3
<1>2. /\ pc = "parse" /\ configs = <<>> /\ conns = <<>> /\ started = 0 /\ result = "none"
      /\ crashed = FALSE
  BY DEF Init
<1>3. ~Building /\ ~Built
  BY <1>2 DEF Building, Built
<1>4. Shape
  <2>1. configs \in Seq(Cfgs) /\ conns \in Seq(Pairs) /\ started \in Nat
    BY <1>2
  <2>2. crashed \in BOOLEAN
    BY <1>2
  <2>3. result # "none" <=> pc = "returned"
    BY <1>2
  <2> QED
    BY <1>1, <1>2, <2>1, <2>2, <2>3 DEF Shape
<1>5. Stage
  BY <1>2, <1>3 DEF Stage
<1>6. AsRead
  BY <1>2, <1>3 DEF AsRead
<1>7. Connected
  BY <1>2 DEF Connected
<1> QED
  BY <1>4, <1>5, <1>6, <1>7 DEF StartInv

LEMMA ParseStart == StartInv /\ Parse => StartInv'
<1> SUFFICES ASSUME StartInv, Parse PROVE StartInv'
  OBVIOUS
<1> DEFINE last == AfterWord(dsn)[Len(dsn)]
<1>0. /\ dsn \in Seq(Words) /\ dsn # <<>>
      /\ conns = <<>> /\ started = 0 /\ pc = "parse" /\ result = "none" /\ crashed \in BOOLEAN
      /\ dsn' = dsn /\ conns' = conns /\ started' = started /\ crashed' = crashed
  BY DEF StartInv, Shape, Stage, Parse, gateVars
<1>1. /\ last.err \in BOOLEAN /\ last.result \in Seq(Cfgs)
      /\ last.err => last.result = <<>>
  BY <1>0, GatesOfString
<1> HIDE DEF last
<1>2. \/ configs' = <<>> /\ pc' = "returned" /\ result' = "error"
      \/ ~last.err /\ configs' = last.result /\ last.result # <<>> /\ pc' = "xsub" /\ result' = "none"
  <2>1. CASE last.result = <<>>
    <3>1. parseDsnZmq(dsn) = Failed
      BY <2>1 DEF parseDsnZmq, last
    <3>2. parseDsnZmq(dsn).err = TRUE /\ parseDsnZmq(dsn).result = <<>>
      BY <3>1 DEF Failed
    <3> QED
      BY <1>0, <3>2 DEF Parse, Return
  <2>2. CASE last.result # <<>> /\ ~last.err
    <3>1. parseDsnZmq(dsn) = last
      BY <2>2 DEF parseDsnZmq, last
    <3> QED
      BY <1>0, <2>2, <3>1 DEF Parse
  <2>3. CASE last.result # <<>> /\ last.err
    BY <1>1, <2>3
  <2> QED
    BY <2>1, <2>2, <2>3
<1>3. CASE configs' = <<>> /\ pc' = "returned" /\ result' = "error"
  BY <1>0, <1>3 DEF StartInv, Shape, Stage, AsRead, Connected, Building, Built
<1>4. CASE ~last.err /\ configs' = last.result /\ last.result # <<>> /\ pc' = "xsub" /\ result' = "none"
  <2>1. Shape' /\ Stage'
    BY <1>0, <1>1, <1>4 DEF Shape, Stage, Building, Built
  <2>2. AsRead'
    BY <1>0, <1>4 DEF AsRead, last
  <2>3. Connected'
    BY <1>0, <1>4 DEF Connected
  <2> QED
    BY <2>1, <2>2, <2>3 DEF StartInv
<1> QED
  BY <1>2, <1>3, <1>4

\* The strings that give no gates.
LEMMA NoGatesStart == StartInv /\ (NotSupported \/ ParseMock) => StartInv'
<1> SUFFICES ASSUME StartInv, NotSupported \/ ParseMock PROVE StartInv'
  OBVIOUS
<1>1. /\ pc = "parse" /\ configs = <<>> /\ conns = <<>> /\ started = 0
      /\ dsn' = dsn /\ configs' = configs /\ conns' = conns /\ started' = started /\ crashed' = crashed
  BY DEF StartInv, Stage, NotSupported, ParseMock, gateVars
<1>2. pc' = "returned" /\ result' \in {"error", "mock"}
  BY DEF NotSupported, ParseMock, Return
<1>3. ~Building' /\ ~Built'
  BY <1>2 DEF Building, Built
<1>4. Shape'
  BY <1>1, <1>2 DEF StartInv, Shape
<1>5. Stage' /\ AsRead' /\ Connected'
  BY <1>1, <1>2, <1>3 DEF Stage, AsRead, Connected
<1> QED
  BY <1>4, <1>5 DEF StartInv

LEMMA CurrentGate ==
    ASSUME StartInv, Building
    PROVE  /\ Gate = started + 1 /\ Gate \in 1 .. Len(configs)
           /\ configs[Gate] \in Cfgs
           /\ configs[Gate].XSubAddr \in Addrs /\ configs[Gate].PushAddr \in Addrs
           /\ configs[Gate].XSubKey \in Texts /\ configs[Gate].PushKey \in Texts
<1>1. Gate = started + 1 /\ Gate \in 1 .. Len(configs)
  BY DEF StartInv, Shape, Stage, Gate
<1>2. configs[Gate] \in Cfgs
  BY <1>1 DEF StartInv, Shape
<1> QED
  BY <1>1, <1>2 DEF Cfgs

LEMMA OpenXSubStart == StartInv /\ OpenXSub => StartInv'
<1> SUFFICES ASSUME StartInv, OpenXSub PROVE StartInv'
  OBVIOUS
<1> DEFINE c == configs[started + 1]
           new == Opened(c.XSubAddr, c.XSubKey)
           pair == [xsub |-> new, push |-> NoConn]
<1>0. /\ Building /\ pc = "xsub" /\ Gate = started + 1 /\ started \in Nat /\ started < Len(configs)
      /\ Len(conns) = started /\ conns \in Seq(Pairs)
  BY CurrentGate DEF Building, OpenXSub, StartInv, Shape, Stage
<1>1. new \in Conns /\ new.addr = c.XSubAddr /\ new.key = c.XSubKey /\ new.token = c.Token
  BY <1>0, CurrentGate, OpenedTyped DEF StartInv, Shape
<1>2. pair \in Pairs /\ pair.xsub = new
  BY <1>1, NoConnTyped DEF Pairs
<1>3. /\ conns' = Append(conns, pair)
      /\ dsn' = dsn /\ configs' = configs /\ started' = started /\ crashed' = crashed
      /\ \/ c.XSubAddr[2] <= MaxPort /\ pc' = "greet" /\ result' = result
         \/ pc' = "returned" /\ result' = "error"
  BY <1>0 DEF OpenXSub, Return
<1> HIDE DEF c, new, pair
<1>4. /\ conns' \in Seq(Pairs) /\ Len(conns') = started + 1
      /\ conns'[started + 1] = pair /\ \A i \in 1 .. started : conns'[i] = conns[i]
  BY <1>0, <1>2, <1>3
<1>5. Shape'
  BY <1>0, <1>3, <1>4 DEF StartInv, Shape
<1>6. Stage' /\ AsRead'
  BY <1>0, <1>3, <1>4 DEF StartInv, Shape, Stage, AsRead, Building, Built
<1>7. Connected'
  <2>1. \A i \in 1 .. started :
            (XSubMade(i) /\ conns[i].xsub.state = "running" /\ PushMade(i))'
    BY <1>0, <1>3, <1>4 DEF StartInv, Connected, XSubMade, PushMade
  <2>2. pc' = "greet" => XSubMade(started + 1)'
    BY <1>1, <1>2, <1>3, <1>4 DEF XSubMade, c
  <2> QED
    BY <1>3, <2>1, <2>2 DEF Connected
<1> QED
  BY <1>5, <1>6, <1>7 DEF StartInv

LEMMA GreetXSubStart == StartInv /\ GreetXSub => StartInv'
<1> SUFFICES ASSUME StartInv, GreetXSub PROVE StartInv'
  OBVIOUS
<1> DEFINE i == started + 1
           run == [conns[i].xsub EXCEPT !.state = "running"]
<1>0. /\ Building /\ pc = "greet" /\ Gate = i /\ started \in Nat /\ started < Len(configs)
      /\ Len(conns) = i /\ conns \in Seq(Pairs) /\ i \in 1 .. Len(conns) /\ conns[i] \in Pairs
  BY CurrentGate DEF Building, GreetXSub, StartInv, Shape, Stage
<1>1. conns[i].xsub \in Conns /\ conns[i].push \in Conns /\ conns[i]["xsub"] = conns[i].xsub
  BY <1>0 DEF Pairs
<1>2. /\ run \in Conns /\ run.state = "running" /\ run.addr = conns[i].xsub.addr
      /\ run.key = conns[i].xsub.key /\ run.token = conns[i].xsub.token
  BY <1>1 DEF Conns
<1>3. /\ dsn' = dsn /\ configs' = configs /\ started' = started /\ crashed' = crashed
      /\ \/ conns' = [conns EXCEPT ![i].xsub.state = "running"] /\ pc' = "push" /\ result' = result
         \/ conns' = conns /\ pc' = "returned" /\ result' = "error"
  BY <1>0 DEF GreetXSub, Return
<1>4. CASE conns' = conns /\ pc' = "returned" /\ result' = "error"
  <2>1. Shape' /\ Stage' /\ AsRead'
    BY <1>0, <1>3, <1>4 DEF StartInv, Shape, Stage, AsRead, Building, Built
  <2>2. Connected'
    BY <1>0, <1>3, <1>4 DEF StartInv, Connected, XSubMade, PushMade
  <2> QED
    BY <2>1, <2>2 DEF StartInv
<1>5. CASE conns' = [conns EXCEPT ![i].xsub.state = "running"] /\ pc' = "push" /\ result' = result
  <2>1. conns' = [conns EXCEPT ![i]["xsub"] = run]
    BY <1>0, <1>1, <1>5
  <2> HIDE DEF run
  <2>2. /\ conns' \in Seq(Pairs) /\ Len(conns') = Len(conns)
        /\ conns'[i]["xsub"] = run
        /\ \A j \in 1 .. Len(conns), t \in Sides : <<j, t>> # <<i, "xsub">> => conns'[j][t] = conns[j][t]
    <3>1. "xsub" \in Sides
      BY DEF Sides
    <3> QED
      BY <1>0, <1>2, <2>1, <3>1, OneReplaced
  <2>3. /\ conns'[i].xsub = run
        /\ \A j \in 1 .. started : conns'[j].xsub = conns[j].xsub /\ conns'[j].push = conns[j].push
    <3>1. \A j \in 1 .. Len(conns) : conns[j] \in Pairs /\ conns'[j] \in Pairs
      BY <1>0, <2>2
    <3> QED
      BY <1>0, <2>2, <3>1, SidesOfPair DEF Sides
  <2>4. Shape' /\ Stage' /\ AsRead'
    BY <1>0, <1>3, <1>5, <2>2 DEF StartInv, Shape, Stage, AsRead, Building, Built
  <2>5. Connected'
    BY <1>0, <1>2, <1>3, <1>5, <2>3 DEF StartInv, Connected, XSubMade, PushMade
  <2> QED
    BY <2>4, <2>5 DEF StartInv
<1> QED
  BY <1>3, <1>4, <1>5

LEMMA OpenPushStart == StartInv /\ OpenPush => StartInv'
<1> SUFFICES ASSUME StartInv, OpenPush PROVE StartInv'
  OBVIOUS
<1> DEFINE i == started + 1
           c == configs[i]
           open == Opened(c.PushAddr, c.PushKey)
           run == [open EXCEPT !.state = "running"]
<1>0. /\ Building /\ pc = "push" /\ Gate = i /\ started \in Nat /\ started < Len(configs)
      /\ Len(conns) = i /\ conns \in Seq(Pairs) /\ i \in 1 .. Len(conns) /\ conns[i] \in Pairs
  BY CurrentGate DEF Building, OpenPush, StartInv, Shape, Stage
<1>1. open \in Conns /\ open.addr = c.PushAddr /\ open.key = c.PushKey /\ open.token = c.Token
  BY <1>0, CurrentGate, OpenedTyped DEF StartInv, Shape
<1>2. /\ dsn' = dsn /\ configs' = configs /\ started' = started /\ crashed' = crashed
      /\ \/ c.PushAddr[2] <= MaxPort /\ conns' = [conns EXCEPT ![i].push = run]
            /\ pc' = "start" /\ result' = result
         \/ conns' = [conns EXCEPT ![i].push = open] /\ pc' = "returned" /\ result' = "error"
  BY <1>0 DEF OpenPush, Return
<1> HIDE DEF open
<1>3. run \in Conns /\ run.state = "running" /\ run.addr = c.PushAddr /\ run.key = c.PushKey /\ run.token = c.Token
  BY <1>1 DEF Conns
<1> HIDE DEF c, run
<1>4. ASSUME NEW d \in Conns, conns' = [conns EXCEPT ![i].push = d]
      PROVE  /\ conns' \in Seq(Pairs) /\ Len(conns') = Len(conns)
             /\ conns'[i].push = d /\ conns'[i].xsub = conns[i].xsub
             /\ \A j \in 1 .. started : conns'[j].xsub = conns[j].xsub /\ conns'[j].push = conns[j].push
  <2>1. conns' = [conns EXCEPT ![i]["push"] = d]
    BY <1>4
  <2>2. /\ conns' \in Seq(Pairs) /\ Len(conns') = Len(conns)
        /\ conns'[i]["push"] = d
        /\ \A j \in 1 .. Len(conns), t \in Sides : <<j, t>> # <<i, "push">> => conns'[j][t] = conns[j][t]
    <3>1. "push" \in Sides
      BY DEF Sides
    <3> QED
      BY <1>0, <2>1, <3>1, OneReplaced
  <2>3. \A j \in 1 .. Len(conns) : conns[j] \in Pairs /\ conns'[j] \in Pairs
    BY <1>0, <2>2
  <2> QED
    BY <1>0, <2>2, <2>3, SidesOfPair DEF Sides
<1>7. \A j \in 1 .. started : XSubMade(j) /\ conns[j].xsub.state = "running" /\ PushMade(j)
  BY DEF StartInv, Connected
<1>5. CASE /\ c.PushAddr[2] <= MaxPort /\ conns' = [conns EXCEPT ![i].push = run]
           /\ pc' = "start" /\ result' = result
  <2>1. Shape' /\ Stage' /\ AsRead'
    BY <1>0, <1>2, <1>3, <1>4, <1>5 DEF StartInv, Shape, Stage, AsRead, Building, Built
  <2>2. XSubMade(i)' /\ (conns[i].xsub.state = "running")'
    BY <1>0, <1>2, <1>3, <1>4, <1>5 DEF StartInv, Connected, XSubMade
  <2>3. PushMade(i)'
    BY <1>2, <1>3, <1>4, <1>5 DEF PushMade, c
  <2>4. \A j \in 1 .. started :
            (XSubMade(j) /\ conns[j].xsub.state = "running" /\ PushMade(j))'
    <3>1. \A j \in 1 .. started : conns'[j].xsub = conns[j].xsub /\ conns'[j].push = conns[j].push
      BY <1>3, <1>4, <1>5
    <3> QED
      BY <1>7, <1>2, <3>1 DEF XSubMade, PushMade
  <2>5. Connected'
    BY <1>2, <1>5, <2>2, <2>3, <2>4 DEF Connected
  <2> QED
    BY <2>1, <2>5 DEF StartInv
<1>6. CASE conns' = [conns EXCEPT ![i].push = open] /\ pc' = "returned" /\ result' = "error"
  <2>1. Shape' /\ Stage' /\ AsRead'
    BY <1>0, <1>1, <1>2, <1>4, <1>6 DEF StartInv, Shape, Stage, AsRead, Building, Built
  <2>2. \A j \in 1 .. started :
            (XSubMade(j) /\ conns[j].xsub.state = "running" /\ PushMade(j))'
    <3>1. \A j \in 1 .. started : conns'[j].xsub = conns[j].xsub /\ conns'[j].push = conns[j].push
      BY <1>1, <1>4, <1>6
    <3> QED
      BY <1>7, <1>2, <3>1 DEF XSubMade, PushMade
  <2>3. Connected'
    BY <1>2, <1>6, <2>2 DEF Connected
  <2> QED
    BY <2>1, <2>3 DEF StartInv
<1> QED
  BY <1>2, <1>5, <1>6

LEMMA StartClientStart == StartInv /\ StartNewClient => StartInv'
<1> SUFFICES ASSUME StartInv, StartNewClient PROVE StartInv'
  OBVIOUS
<1>0. /\ Building /\ pc = "start" /\ Gate = started + 1 /\ started \in Nat /\ started < Len(configs)
      /\ Len(conns) = started + 1 /\ Len(configs) \in Nat
  BY CurrentGate DEF Building, StartNewClient, StartInv, Shape, Stage
<1>1. /\ dsn' = dsn /\ configs' = configs /\ conns' = conns /\ crashed' = crashed
      /\ started' = started + 1
      /\ \/ Len(configs) = 1 /\ pc' = "returned" /\ result' = "gate"
         \/ Len(configs) # 1 /\ started' = Len(configs) /\ pc' = "cluster" /\ result' = result
         \/ started' # Len(configs) /\ pc' = "xsub" /\ result' = result
  BY <1>0 DEF StartNewClient, Return
<1>2. Shape' /\ AsRead'
  BY <1>0, <1>1 DEF StartInv, Shape, AsRead, Building, Built
<1>3. Stage'
  <2>0. result = "none"
    BY <1>0 DEF StartInv, Shape
  <2>1. CASE Len(configs) = 1 /\ pc' = "returned" /\ result' = "gate"
    BY <1>0, <1>1, <2>1 DEF Stage, Building, Built
  <2>2. CASE Len(configs) # 1 /\ started' = Len(configs) /\ pc' = "cluster" /\ result' = result
    BY <1>0, <1>1, <2>0, <2>2 DEF Stage, Building, Built
  <2>3. CASE started' # Len(configs) /\ pc' = "xsub" /\ result' = result
    BY <1>0, <1>1, <2>0, <2>3 DEF Stage, Building, Built
  <2> QED
    BY <1>1, <2>1, <2>2, <2>3
<1>4. Connected'
  <2>1. \A j \in 1 .. started + 1 : XSubMade(j) /\ conns[j].xsub.state = "running" /\ PushMade(j)
    BY <1>0 DEF StartInv, Connected
  <2> QED
    BY <1>0, <1>1, <2>1 DEF Connected, XSubMade, PushMade
<1> QED
  BY <1>2, <1>3, <1>4 DEF StartInv

LEMMA ClusterStart == StartInv /\ newClusterTrader => StartInv'
<1> SUFFICES ASSUME StartInv, newClusterTrader PROVE StartInv'
  OBVIOUS
<1>1. /\ dsn' = dsn /\ configs' = configs /\ conns' = conns /\ started' = started /\ crashed' = crashed
      /\ pc = "cluster" /\ pc' = "returned" /\ result' = "cluster"
  BY DEF newClusterTrader, Return, gateVars
<1>2. Shape' /\ Stage' /\ AsRead'
  BY <1>1 DEF StartInv, Shape, Stage, AsRead, Building, Built
<1>3. Connected'
  BY <1>1 DEF StartInv, Connected, XSubMade, PushMade
<1> QED
  BY <1>2, <1>3 DEF StartInv

LEMMA ChangeStart ==
    ASSUME StartInv, NEW i \in 1 .. Len(conns), NEW s \in Sides, Change(i, s)
    PROVE  StartInv'
<1> DEFINE c == conns[i][s]
           d == [c EXCEPT !.flag = ~@, !.ready = Append(@, ~c.flag), !.changes = @ + 1]
<1>0. /\ conns \in Seq(Pairs) /\ Len(conns) \in Nat
      /\ dsn' = dsn /\ configs' = configs /\ started' = started /\ pc' = pc /\ result' = result
      /\ crashed' \in BOOLEAN /\ conns' = [conns EXCEPT ![i][s] = d]
  BY DEF StartInv, Shape, Change
<1>1. \A j \in 1 .. Len(conns) : conns[j] \in Pairs
  BY <1>0
<1>2. c \in Conns
  BY <1>1, SidesOfPair
<1> HIDE DEF c
<1>3. d \in Conns /\ SameLink(c, d)
  BY <1>2, ChangedConn
<1> HIDE DEF d
<1>4. /\ conns' \in Seq(Pairs) /\ Len(conns') = Len(conns)
      /\ conns'[i][s] = d
      /\ \A j \in 1 .. Len(conns), t \in Sides : <<j, t>> # <<i, s>> => conns'[j][t] = conns[j][t]
  BY <1>0, <1>3, OneReplaced
<1>5. \A j \in 1 .. Len(conns), t \in Sides : SameLink(conns[j][t], conns'[j][t])
  BY <1>3, <1>4 DEF SameLink, c
<1>6. \A j \in 1 .. Len(conns) :
          SameLink(conns[j].xsub, conns'[j].xsub) /\ SameLink(conns[j].push, conns'[j].push)
  <2>1. \A j \in 1 .. Len(conns) : conns'[j] \in Pairs
    BY <1>4
  <2> QED
    BY <1>1, <1>5, <2>1, SidesOfPair DEF Sides
<1>7. Shape' /\ Stage' /\ AsRead'
  BY <1>0, <1>4 DEF StartInv, Shape, Stage, AsRead, Building, Built
<1>8. Connected'
  <2>1. \A j \in 1 .. started : j \in 1 .. Len(conns)
    BY <1>0 DEF StartInv, Shape, Stage
  <2>2. pc \in {"greet", "push", "start"} => started + 1 \in 1 .. Len(conns)
    BY <1>0 DEF StartInv, Shape, Stage
  <2>3. \A j \in 1 .. Len(conns) :
            /\ XSubMade(j) => XSubMade(j)'
            /\ PushMade(j) => PushMade(j)'
            /\ conns'[j].xsub.state = conns[j].xsub.state
    BY <1>0, <1>6 DEF SameLink, XSubMade, PushMade
  <2> QED
    BY <1>0, <2>1, <2>2, <2>3 DEF StartInv, Connected
<1> QED
  BY <1>7, <1>8 DEF StartInv

\* The steps of a mock trader.
MockStep ==
    \/ \E s \in Setters : SendReady(s) \/ \E val \in BOOLEAN : SetReady(s, val)
    \/ ReadReady

LEMMA NextStart == StartInv /\ [Next]_vars => StartInv'
<1> SUFFICES ASSUME StartInv, [Next]_vars PROVE StartInv'
  OBVIOUS
<1>1. CASE Create
  BY <1>1, ParseStart, NoGatesStart, OpenXSubStart, GreetXSubStart, OpenPushStart,
     StartClientStart, ClusterStart DEF Create
<1>2. CASE \E i \in 1 .. Len(conns), s \in Sides : Change(i, s)
  BY <1>2, ChangeStart
<1>3. CASE MockStep \/ UNCHANGED vars
  <2>1. UNCHANGED <<dsn, pc, configs, conns, started, crashed, result>>
    BY <1>3 DEF MockStep, SendReady, SetReady, ReadReady, vars, gateVars
  <2>2. Shape' /\ Stage' /\ AsRead'
    BY <2>1 DEF StartInv, Shape, Stage, AsRead, Building, Built
  <2>3. Connected'
    BY <2>1 DEF StartInv, Connected, XSubMade, PushMade
  <2> QED
    BY <2>2, <2>3 DEF StartInv
<1> QED
  BY <1>1, <1>2, <1>3 DEF Next, MockStep

LEMMA InitMock == Init => MockInv
<1> SUFFICES ASSUME Init PROVE MockInv
  OBVIOUS
<1>1. isReady \in BOOLEAN
  BY DEF Init
<1> QED
  BY <1>1 DEF Init, MockInv

LEMMA NextMock == StartInv /\ MockInv /\ [Next]_vars => MockInv'
<1> SUFFICES ASSUME StartInv, MockInv, [Next]_vars PROVE MockInv'
  OBVIOUS
<1>1. CASE ParseMock
  <2>1. dsn[1] \in Words /\ dsn[1].key = "mock"
    BY <1>1 DEF StartInv, Shape, ParseMock
  <2>2. dsn[1].ready \in BOOLEAN
    BY <2>1, WordsAssumption
  <2>3. \/ UNCHANGED mockVars
        \/ /\ isReady' = dsn[1].ready
           /\ ready' = <<TRUE>> \/ ready' = <<>>
           /\ UNCHANGED <<setting, heard>>
    BY <1>1 DEF ParseMock
  <2>4. TRUE \in BOOLEAN /\ <<TRUE>> \in Seq(BOOLEAN) /\ <<>> \in Seq(BOOLEAN)
    OBVIOUS
  <2>5. isReady' \in BOOLEAN
    BY <2>2, <2>3 DEF MockInv, mockVars
  <2>6. ready' \in Seq(BOOLEAN)
    BY <2>3, <2>4 DEF MockInv, mockVars
  <2> QED
    BY <2>3, <2>5, <2>6 DEF MockInv, mockVars
<1>2. ASSUME NEW s \in Setters, NEW val \in BOOLEAN, SetReady(s, val) PROVE MockInv'
  <2>1. isReady' \in BOOLEAN
    BY <1>2 DEF SetReady, Swap
  <2>2. setting' \in [Setters -> {"idle", "on", "off"}]
    BY <1>2 DEF MockInv, SetReady, Swap
  <2> QED
    BY <1>2, <2>1, <2>2 DEF MockInv, SetReady
<1>3. ASSUME NEW s \in Setters, SendReady(s) PROVE MockInv'
  <2> DEFINE told == setting[s] = "on"
  <2>1. told \in BOOLEAN
    OBVIOUS
  <2>2. ready' = Append(ready, told)
    BY <1>3 DEF SendReady
  <2> HIDE DEF told
  <2>3. ready' \in Seq(BOOLEAN)
    BY <2>1, <2>2 DEF MockInv
  <2> QED
    BY <1>3, <2>3 DEF MockInv, SendReady
<1>4. CASE ReadReady
  <2>1. Head(ready) \in BOOLEAN /\ ready' \in Seq(BOOLEAN) /\ heard' = <<Head(ready)>>
    BY <1>4 DEF MockInv, ReadReady
  <2>2. Head(ready) = TRUE \/ Head(ready) = FALSE
    BY <2>1
  <2>3. heard' \in {<<>>, <<TRUE>>, <<FALSE>>}
    BY <2>1, <2>2
  <2> QED
    BY <1>4, <2>1, <2>3 DEF MockInv, ReadReady
<1>5. CASE UNCHANGED mockVars
  BY <1>5 DEF MockInv, mockVars
<1>6. Next => \/ ParseMock \/ UNCHANGED mockVars
              \/ \E s \in Setters : SendReady(s) \/ \E val \in BOOLEAN : SetReady(s, val)
              \/ ReadReady
  BY DEF Next, Create, Parse, NotSupported, OpenXSub, GreetXSub, OpenPush, StartNewClient,
         newClusterTrader, Change
<1> QED
  BY <1>1, <1>2, <1>3, <1>4, <1>5, <1>6 DEF vars, mockVars

\* Every variable keeps its type, and the gates that were started have both of their
\* connections running.
THEOREM TypeCorrect == Spec => []TypeOK
<1> DEFINE IInv == StartInv /\ MockInv
<1>1. Init => IInv
  BY InitStart, InitMock
<1>2. IInv /\ [Next]_vars => IInv'
  BY NextStart, NextMock
<1>3. IInv => TypeOK
  <2> SUFFICES ASSUME StartInv, MockInv PROVE TypeOK
    OBVIOUS
  <2>1. /\ started \in 0 .. Len(configs) /\ Len(conns) \in {started, started + 1}
        /\ \A i \in 1 .. started : i \in 1 .. Len(conns)
    BY DEF StartInv, Shape, Stage
  <2>2. \A i \in 1 .. started : \A s \in Sides : conns[i][s].state = "running"
    <3>1. \A i \in 1 .. started : conns[i] \in Pairs
      BY <2>1 DEF StartInv, Shape
    <3>2. \A i \in 1 .. started : conns[i].xsub.state = "running" /\ conns[i].push.state = "running"
      BY DEF StartInv, Connected, PushMade
    <3> QED
      BY <3>1, <3>2, SidesOfPair DEF Sides
  <2> QED
    BY <2>1, <2>2, Zenon DEF StartInv, Shape, MockInv, TypeOK
<1> HIDE DEF IInv
<1> QED
  BY <1>1, <1>2, <1>3, PTL DEF Spec

-----------------------------------------------------------------------------
(* What was written.                                                         *)

LEMMA GivenIsSetting ==
    ASSUME dsn \in Seq(Words), NEW key
    PROVE  Given(key) = Setting(dsn, key)
<1> DEFINE at == {i \in 1 .. Len(dsn) : dsn[i].key = key}
<1>1. \/ at = {} /\ Setting(dsn, key) = NotGiven
      \/ \E m \in at : (\A i \in at : i <= m) /\ Setting(dsn, key) = dsn[m].value
  BY SettingIsLast
<1>2. Given(key) = IF at = {} THEN NotGiven ELSE dsn[LastPlace(at)].value
  BY DEF Given, Places
<1>3. ASSUME NEW m \in at, \A i \in at : i <= m PROVE LastPlace(at) = m
  <2>1. LastPlace(at) \in at /\ \A j \in at : j <= LastPlace(at)
    BY <1>3 DEF LastPlace
  <2>2. LastPlace(at) <= m /\ m <= LastPlace(at) /\ LastPlace(at) \in Int /\ m \in Int
    BY <1>3, <2>1
  <2> QED
    BY <2>2
<1> HIDE DEF at
<1> QED
  BY <1>1, <1>2, <1>3

\* A trader that NewTrader (dsn.go) returns has, in the order of the string, a gate for
\* every address in it and nothing else, each with both of its connections to its own
\* ports and with the keys and the token given last: for strings of any length, whatever
\* fails and whatever the connections do meanwhile.
THEOREM MadeAsWritten == Spec => []TraderAsWritten
<1>1. Init => StartInv
  BY InitStart
<1>2. StartInv /\ [Next]_vars => StartInv'
  BY NextStart
<1>3. StartInv => TraderAsWritten
  <2> SUFFICES ASSUME StartInv, Built PROVE TraderAsWritten
    BY DEF TraderAsWritten, Built
  <2>1. /\ dsn \in Seq(Words) /\ Len(dsn) \in Nat
        /\ conns \in Seq(Pairs) /\ Len(conns) = started /\ started = Len(configs)
        /\ (result = "gate" <=> started = 1)
    BY DEF StartInv, Shape, Stage
  <2>2. GatesSoFar(dsn, Len(dsn), configs)
    BY <2>1, GatesOfString DEF StartInv, AsRead
  <2>3. Places(IsZmq) = Addresses(dsn, Len(dsn))
    BY DEF Places, Addresses
  <2>4. ASSUME NEW i \in Places(IsZmq)
        PROVE  /\ Nth(i) \in 1 .. started
               /\ configs[Nth(i)] = Config(dsn, dsn[i])
               /\ ~Malformed(dsn[i]) /\ dsn[i] \in Words
    <3>1. i \in 1 .. Len(dsn) /\ i \in Addresses(dsn, Len(dsn))
      BY <2>3 DEF Addresses
    <3>2. {j \in Places(IsZmq) : j <= i} = Addresses(dsn, i)
      BY <2>1, <2>3, <3>1 DEF Addresses
    <3>3. Nth(i) = Cardinality(Addresses(dsn, i))
      BY <3>2 DEF Nth
    <3> QED
      BY <2>1, <2>2, <3>1, <3>3 DEF GatesSoFar
  <2>5. ASSUME NEW i \in Places(IsZmq)
        PROVE  LET gate == conns[Nth(i)] IN
               /\ gate.push.addr = PushAddrOf(dsn[i]) /\ gate.push.addr[2] <= MaxPort
               /\ gate.xsub.addr = XSubAddrOf(dsn[i]) /\ gate.xsub.addr[2] <= MaxPort
               /\ gate.push.key = Given("push_key") /\ gate.xsub.key = Given("xsub_key")
               /\ \A s \in Sides : gate[s].token = Given("token") /\ gate[s].state = "running"
                                  /\ gate[s].addr[2] <= MaxPort
    <3> DEFINE n == Nth(i)
               gate == conns[n]
    <3>1. n \in 1 .. started /\ configs[n] = Config(dsn, dsn[i]) /\ dsn[i] \in Words
      BY <2>4
    <3> HIDE DEF n
    <3>2. gate["xsub"] = gate.xsub /\ gate["push"] = gate.push
      <4>1. gate \in Pairs
        BY <2>1, <3>1
      <4> QED
        BY <4>1, SidesOfPair
    <3>3. XSubMade(n) /\ PushMade(n) /\ gate.xsub.state = "running"
      BY <3>1 DEF StartInv, Connected
    <3>4. configs[n].PushAddr = PushAddrOf(dsn[i]) /\ configs[n].XSubAddr = XSubAddrOf(dsn[i])
      BY <2>1, <3>1, ConfigTyped
    <3>5. /\ configs[n].Token = Given("token")
          /\ configs[n].PushKey = Given("push_key") /\ configs[n].XSubKey = Given("xsub_key")
      BY <2>1, <3>1, GivenIsSetting DEF Config
    <3>6. /\ gate.push.addr = PushAddrOf(dsn[i]) /\ gate.push.addr[2] <= MaxPort
          /\ gate.push.key = Given("push_key") /\ gate.push.token = Given("token")
          /\ gate.push.state = "running"
      BY <3>3, <3>4, <3>5 DEF PushMade
    <3>7. /\ gate.xsub.addr = XSubAddrOf(dsn[i]) /\ gate.xsub.addr[2] <= MaxPort
          /\ gate.xsub.key = Given("xsub_key") /\ gate.xsub.token = Given("token")
          /\ gate.xsub.state = "running"
      BY <3>3, <3>4, <3>5 DEF XSubMade
    <3> HIDE DEF gate
    <3> QED
      BY <3>2, <3>6, <3>7 DEF Sides, gate, n
  <2>6. started = Cardinality(Places(IsZmq))
    BY <2>1, <2>2, <2>3 DEF GatesSoFar
  <2> QED
    BY <2>1, <2>4, <2>5, <2>6 DEF TraderAsWritten, PushAddrOf, XSubAddrOf
<1> QED
  BY <1>1, <1>2, <1>3, PTL DEF Spec
=============================================================================
