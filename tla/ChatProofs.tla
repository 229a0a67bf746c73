----------------------------- MODULE ChatProofs ------------------------------
(***************************************************************************)
(* Chat.tla, for any number of seats, lines and any window: PanelsAreTrue. *)
(*                                                                         *)
(* The lines of the room's window are numbered without a gap, so a replay  *)
(* is its last lines (HistoryIs), and a panel that is what a replay would  *)
(* be stays so when the next line pushes one out of both (SaidToBoth).     *)
(* The invariant says who a line may be attributed to: whoever said it, as *)
(* long as they have not left since.                                       *)
(***************************************************************************)
EXTENDS Chat, FiniteSetTheorems, SequenceTheorems, WellFoundedInduction, TLAPS

Line == [seq : Nat, author : Seat \cup {Nobody}]
Message == [seq : Nat, author : Seat \cup {Nobody}, fromMe : BOOLEAN]

\* A set of naturals that is not empty has a least element.
LEMMA LeastNatural ==
    ASSUME NEW T, T \subseteq Nat, T # {}
    PROVE  \E m \in T : \A k \in T : m <= k
<1> DEFINE R == OpToRel(<, Nat)
<1>1. \E m \in T : \A k \in T : ~ (<<k, m>> \in R)
  <2>1. IsWellFoundedOn(R, Nat)
    BY NatLessThanWellFounded
  <2> HIDE DEF R
  <2> QED BY <2>1, WFMin
<1>2. ASSUME NEW m \in T, NEW k \in T, ~ (<<k, m>> \in R)
      PROVE  m <= k
  <2>1. <<k, m>> \in Nat \X Nat
    OBVIOUS
  <2>2. ~ (k < m)
    BY <1>2, <2>1 DEF R, OpToRel
  <2> QED BY <2>2
<1> QED BY <1>1, <1>2

----------------------------------------------------------------------------
(***************************************************************************)
(* The loop of sendChatHistory.                                            *)
(***************************************************************************)

\* One round of it.
Round(messages, line, from, s) ==
    IF line.seq > from THEN Append(messages, chatMessageFor(line, s)) ELSE messages

\* F has what the loop has sent of the lines with given indices.
IsLoop(F, lines, from, s) ==
    F = [I \in SUBSET DOMAIN lines |->
            IF I = {} THEN <<>> ELSE Round(F[I \ {Max(I)}], lines[Max(I)], from, s)]

\* A replay is what the loop has sent at the end.
LEMMA HistoryIsTheLoop ==
    ASSUME NEW lines, NEW from, NEW s
    PROVE  history(lines, from, s) = (CHOOSE F : IsLoop(F, lines, from, s))[DOMAIN lines]
BY DEF history, FoldLeft, MapThenFoldSet, IsLoop, Round

\* The last of the first n indices.
LEMMA LastOfFirst ==
    ASSUME NEW n \in Nat \ {0}
    PROVE  Max(1 .. n) = n /\ (1 .. n) \ {n} = 1 .. n - 1
<1>1. n \in 1 .. n /\ \A y \in 1 .. n : n >= y
  OBVIOUS
<1>2. \A x \in 1 .. n : (\A y \in 1 .. n : x >= y) => x = n
  BY <1>1
<1>3. Max(1 .. n) = n
  BY <1>1, <1>2 DEF Max
<1> QED BY <1>3

\* A set of the first n indices has a last one, and the others are among the first n - 1.
LEMMA LastIndex ==
    ASSUME NEW n \in Nat, NEW I \in SUBSET (1 .. n), I # {}
    PROVE  /\ Max(I) \in I
           /\ I \ {Max(I)} \in SUBSET (1 .. n - 1)
<1> DEFINE T == {n - i : i \in I}
<1>1. T \subseteq Nat /\ T # {}
  OBVIOUS
<1>2. PICK m \in T : \A k \in T : m <= k
  <2> HIDE DEF T
  <2> QED BY <1>1, LeastNatural
<1>3. PICK x \in I : m = n - x
  OBVIOUS
<1>4. \A y \in I : x >= y
  BY <1>2, <1>3
<1>5. Max(I) \in I /\ \A y \in I : Max(I) >= y
  BY <1>4 DEF Max
<1>6. ASSUME NEW y \in I, y # Max(I)
      PROVE  y \in 1 .. n - 1
  <2>1. y \in 1 .. n /\ Max(I) \in 1 .. n /\ Max(I) >= y
    BY <1>5
  <2> HIDE DEF T
  <2> QED BY <1>6, <2>1
<1> QED BY <1>5, <1>6

\* There is such a function: one for the first n lines gives one for the first n + 1.
LEMMA LoopExists ==
    ASSUME NEW lines, NEW len \in Nat, DOMAIN lines = 1 .. len, NEW from, NEW s
    PROVE  \E F : IsLoop(F, lines, from, s)
<1> DEFINE Upto(F, n) ==
              F = [I \in SUBSET (1 .. n) |->
                      IF I = {} THEN <<>> ELSE Round(F[I \ {Max(I)}], lines[Max(I)], from, s)]
           Fails == {n \in Nat : ~ \E F : Upto(F, n)}
<1>1. Fails = {}
  <2> SUFFICES ASSUME Fails # {} PROVE FALSE
    OBVIOUS
  <2>1. PICK m \in Fails : \A k \in Fails : m <= k
    <3>1. Fails \subseteq Nat
      OBVIOUS
    <3> HIDE DEF Fails
    <3> QED BY <3>1, LeastNatural
  <2>2. m \in Nat /\ ~ \E F : Upto(F, m)
    OBVIOUS
  <2>3. m # 0
    <3>1. \A I \in SUBSET (1 .. 0) : I = {}
      OBVIOUS
    <3>2. Upto([I \in SUBSET (1 .. 0) |-> <<>>], 0)
      BY <3>1
    <3> QED BY <2>2, <3>2
  <2>4. m - 1 \in Nat /\ m - 1 \notin Fails
    <3>1. m - 1 \in Nat /\ ~ (m <= m - 1)
      BY <2>2, <2>3
    <3> HIDE DEF Fails
    <3> QED BY <2>1, <3>1
  <2>5. PICK F : Upto(F, m - 1)
    BY <2>4
  <2> DEFINE G == [I \in SUBSET (1 .. m) |->
                      IF I = {} THEN <<>> ELSE Round(F[I \ {Max(I)}], lines[Max(I)], from, s)]
  <2>6. \A I \in SUBSET (1 .. m) : I # {} => I \ {Max(I)} \in SUBSET (1 .. m - 1)
    BY <2>2, LastIndex
  <2>7. \A I \in SUBSET (1 .. m - 1) : I \in SUBSET (1 .. m) /\ G[I] = F[I]
    <3> SUFFICES ASSUME NEW I \in SUBSET (1 .. m - 1)
                 PROVE  I \in SUBSET (1 .. m) /\ G[I] = F[I]
      OBVIOUS
    <3>1. I \in SUBSET (1 .. m)
      BY <2>2
    <3>2. F[I] = IF I = {} THEN <<>> ELSE Round(F[I \ {Max(I)}], lines[Max(I)], from, s)
      BY <2>5
    <3> QED BY <3>1, <3>2
  <2>8. Upto(G, m)
    <3>1. \A I \in SUBSET (1 .. m) : I # {} => G[I \ {Max(I)}] = F[I \ {Max(I)}]
      BY <2>6, <2>7
    <3> QED BY <3>1
  <2> QED BY <2>2, <2>8
<1>2. PICK F : Upto(F, len)
  BY <1>1
<1> QED BY <1>2 DEF IsLoop

\* Lines numbered without a gap, after the first `before`.
Numbered(lines, before) ==
    /\ lines \in Seq(Line)
    /\ before \in Nat
    /\ \A k \in DOMAIN lines : lines[k].seq = before + k

\* How many of them were said before somebody sat down.
unseen(before, from) == IF from <= before THEN 0 ELSE from - before

\* So a replay is the last of them.
LEMMA HistoryIs ==
    ASSUME NEW lines, NEW before, Numbered(lines, before), NEW len \in Nat, len = Len(lines),
           NEW from \in 0 .. before + len, NEW c, c = unseen(before, from),
           NEW s, NEW h, h = history(lines, from, s)
    PROVE  /\ h \in Seq(Message)
           /\ Len(h) = len - c
           /\ \A k \in 1 .. len - c : h[k] = chatMessageFor(lines[c + k], s)
<1> DEFINE Sent(i) == [k \in 1 .. i - c |-> chatMessageFor(lines[c + k], s)]
           F == CHOOSE F : IsLoop(F, lines, from, s)
           Fails == {i \in 0 .. len : F[1 .. i] # Sent(i)}
<1>1. DOMAIN lines = 1 .. len /\ before \in Nat /\ from \in Nat
  BY DEF Numbered
<1>2. c \in 0 .. len
  BY <1>1 DEF unseen
<1>3. IsLoop(F, lines, from, s)
  BY <1>1, LoopExists
<1>4. \A i \in 1 .. len : lines[i].seq > from <=> i > c
  BY <1>1 DEF Numbered, unseen
<1>5. Fails = {}
  <2> HIDE DEF F
  <2> SUFFICES ASSUME Fails # {} PROVE FALSE
    OBVIOUS
  <2>1. PICK m \in Fails : \A k \in Fails : m <= k
    <3>1. Fails \subseteq Nat
      BY <1>1
    <3> HIDE DEF Fails
    <3> QED BY <3>1, LeastNatural
  <2>2. m \in 0 .. len /\ F[1 .. m] # Sent(m)
    OBVIOUS
  <2>3. m # 0
    <3>1. F[{}] = <<>>
      BY <1>3 DEF IsLoop
    <3>2. 1 .. 0 = {} /\ 1 .. 0 - c = {}
      BY <1>2
    <3>3. Sent(0) = <<>>
      BY <3>2
    <3> QED BY <2>2, <3>1, <3>2, <3>3
  <2>4. m - 1 \in 0 .. len /\ m \in Nat \ {0} /\ F[1 .. m - 1] = Sent(m - 1)
    <3>1. m - 1 \in 0 .. len /\ ~ (m <= m - 1)
      BY <1>1, <2>2, <2>3
    <3>2. m - 1 \notin Fails
      <4> HIDE DEF Fails
      <4> QED BY <2>1, <3>1
    <3> QED BY <2>2, <2>3, <3>1, <3>2
  <2>5. F[1 .. m] = Round(F[1 .. m - 1], lines[m], from, s)
    <3>1. 1 .. m \in SUBSET DOMAIN lines /\ 1 .. m # {}
      <4>1. m \in 1 .. len
        BY <1>1, <2>2, <2>4
      <4>2. \A x \in 1 .. m : x \in 1 .. len
        BY <1>1, <4>1
      <4>3. 1 \in 1 .. m
        BY <2>4
      <4> QED BY <1>1, <4>2, <4>3
    <3>2. Max(1 .. m) = m /\ (1 .. m) \ {m} = 1 .. m - 1
      BY <2>4, LastOfFirst
    <3> QED BY <1>3, <3>1, <3>2 DEF IsLoop
  <2>6. m \in 1 .. len /\ (lines[m].seq > from <=> m > c)
    BY <1>4, <2>2, <2>4
  <2>7. CASE m > c
    <3>1. F[1 .. m] = Append(Sent(m - 1), chatMessageFor(lines[m], s))
      BY <2>4, <2>5, <2>6, <2>7 DEF Round
    <3>2. m - 1 - c \in Nat /\ c + (m - c) = m /\ m - c = (m - 1 - c) + 1
      BY <1>2, <2>4, <2>7
    <3>3. Len(Sent(m - 1)) = m - 1 - c
      BY <3>2
    <3>4. Append(Sent(m - 1), chatMessageFor(lines[m], s)) = Sent(m)
      <4> DEFINE new == chatMessageFor(lines[m], s)
      <4>1. \A k \in 1 .. m - 1 - c : Append(Sent(m - 1), new)[k] = Sent(m)[k]
        BY <3>2, <3>3
      <4>2. Append(Sent(m - 1), new)[m - c] = Sent(m)[m - c]
        BY <3>2, <3>3
      <4>3. DOMAIN Append(Sent(m - 1), new) = 1 .. m - c /\ DOMAIN Sent(m) = 1 .. m - c
        BY <3>2, <3>3
      <4> QED BY <3>2, <3>3
    <3> QED BY <2>2, <3>1, <3>4
  <2>8. CASE ~ (m > c)
    <3>1. F[1 .. m] = Sent(m - 1)
      BY <2>4, <2>5, <2>6, <2>8 DEF Round
    <3>2. 1 .. m - 1 - c = {} /\ 1 .. m - c = {}
      BY <1>2, <2>4, <2>8
    <3> QED BY <2>2, <3>1, <3>2
  <2> QED BY <2>7, <2>8
<1>6. F[1 .. len] = Sent(len)
  <2>1. len \in 0 .. len
    BY <1>1
  <2> HIDE DEF F, Sent
  <2> QED BY <1>5, <2>1
<1>7. h = Sent(len)
  <2> HIDE DEF F
  <2> QED BY <1>1, <1>6, HistoryIsTheLoop DEF F
<1>8. \A k \in 1 .. len - c : lines[c + k] \in Line /\ chatMessageFor(lines[c + k], s) \in Message
  <2> SUFFICES ASSUME NEW k \in 1 .. len - c
               PROVE  lines[c + k] \in Line /\ chatMessageFor(lines[c + k], s) \in Message
    OBVIOUS
  <2>1. c + k \in 1 .. len
    BY <1>1, <1>2
  <2>2. lines[c + k] \in Line
    BY <1>1, <2>1 DEF Numbered
  <2> QED BY <2>2 DEF Line, Message, chatMessageFor
<1>9. len - c \in Nat
  BY <1>1, <1>2
<1> HIDE DEF F
<1>10. Sent(len) \in Seq(Message) /\ Len(Sent(len)) = len - c
  BY <1>8, <1>9
<1> QED BY <1>2, <1>7, <1>9, <1>10

----------------------------------------------------------------------------
(***************************************************************************)
(* The window: one line more, and the first ones out.                      *)
(***************************************************************************)
excess(len) == IF len > chatHistoryLimit THEN len - chatHistoryLimit ELSE 0

\* What window leaves.
LEMMA WindowIs ==
    ASSUME NEW S, NEW x \in Seq(S), NEW n \in Nat \ {0}, n = Len(x),
           NEW d, d = excess(n), NEW w, w = window(x)
    PROVE  /\ d \in 0 .. n - 1
           /\ w \in Seq(S)
           /\ Len(w) = n - d
           /\ \A k \in 1 .. n - d : w[k] = x[d + k]
<1> DEFINE first == n - chatHistoryLimit + 1
<1>1. first \in Int /\ chatHistoryLimit \in Nat \ {0}
  BY ChatBounds
<1>2. d \in 0 .. n - 1
  BY <1>1 DEF excess
<1>3. Max({1, first}) = d + 1
  <2>1. \A m \in {1, first} : (\A y \in {1, first} : m >= y) <=> m = d + 1
    BY <1>1 DEF excess
  <2>2. d + 1 \in {1, first}
    BY <1>1 DEF excess
  <2> QED BY <2>1, <2>2 DEF Max
<1>4. w = SubSeq(x, d + 1, n)
  BY <1>3 DEF window
<1>5. SubSeq(x, d + 1, n) = [k \in 1 .. n - d |-> x[d + k]]
  <2>1. n - (d + 1) + 1 = n - d /\ \A k \in 1 .. n - d : (d + 1) + k - 1 = d + k
    BY <1>1, <1>2
  <2> QED BY <1>1, <1>2, <2>1
<1>6. \A k \in 1 .. n - d : x[d + k] \in S
  <2>1. \A k \in 1 .. n - d : d + k \in 1 .. n
    BY <1>1, <1>2
  <2> QED BY <2>1
<1>7. n - d \in Nat
  BY <1>1, <1>2
<1>8. [k \in 1 .. n - d |-> x[d + k]] \in Seq(S) /\ Len([k \in 1 .. n - d |-> x[d + k]]) = n - d
  BY <1>6, <1>7
<1> QED BY <1>2, <1>4, <1>5, <1>8

\* The room's window after its n-th line.
Windowed(lines, n) ==
    /\ Numbered(lines, n - Len(lines))
    /\ Len(lines) <= chatHistoryLimit
    /\ n \in Nat

\* It stays one with the next line; which lines stay in it.
LEMMA WindowKeeps ==
    ASSUME NEW lines, NEW n, Windowed(lines, n), NEW line \in Line, line.seq = n + 1
    PROVE  /\ Windowed(window(Append(lines, line)), n + 1)
           /\ Len(window(Append(lines, line))) = Len(lines) + 1 - excess(Len(lines) + 1)
           /\ \A k \in DOMAIN window(Append(lines, line)) :
                 \/ window(Append(lines, line))[k] = line
                 \/ \E j \in DOMAIN lines : window(Append(lines, line))[k] = lines[j]
<1> DEFINE y == Append(lines, line)
           L == Len(lines)
           d == excess(L + 1)
           w == window(y)
<1>1. /\ lines \in Seq(Line) /\ L \in Nat /\ L <= n /\ n \in Nat /\ chatHistoryLimit \in Nat \ {0}
      /\ L <= chatHistoryLimit
      /\ DOMAIN lines = 1 .. L
      /\ \A k \in DOMAIN lines : lines[k].seq = n - L + k
  BY ChatBounds DEF Windowed, Numbered
<1>2. /\ y \in Seq(Line) /\ Len(y) = L + 1
      /\ y[L + 1] = line
      /\ \A k \in 1 .. L : y[k] = lines[k]
  BY <1>1
<1> HIDE DEF y, L
<1>3. \A k \in 1 .. L + 1 : k = L + 1 \/ k \in DOMAIN lines
  BY <1>1
<1>4. \A k \in 1 .. L + 1 : y[k].seq = n - L + k
  <2> SUFFICES ASSUME NEW k \in 1 .. L + 1
               PROVE  y[k].seq = n - L + k
    OBVIOUS
  <2>1. CASE k = L + 1
    BY <1>1, <1>2, <2>1
  <2>2. CASE k \in DOMAIN lines
    BY <1>1, <1>2, <2>2
  <2> QED BY <1>3, <2>1, <2>2
<1>5. /\ d \in 0 .. L
      /\ w \in Seq(Line)
      /\ Len(w) = L + 1 - d
      /\ \A k \in 1 .. L + 1 - d : w[k] = y[d + k]
  <2> DEFINE N == L + 1
  <2>1. N \in Nat \ {0} /\ N = Len(y) /\ d = excess(N) /\ w = window(y) /\ N - 1 = L
    BY <1>1, <1>2
  <2> HIDE DEF d, w, N
  <2>2. /\ d \in 0 .. N - 1
        /\ w \in Seq(Line)
        /\ Len(w) = N - d
        /\ \A k \in 1 .. N - d : w[k] = y[d + k]
    BY <1>2, <2>1, WindowIs
  <2> QED BY <2>1, <2>2 DEF N
<1>6. L + 1 - d <= chatHistoryLimit
  BY <1>1 DEF excess
<1> HIDE DEF d, w
<1>7. /\ DOMAIN w = 1 .. L + 1 - d
      /\ \A k \in 1 .. L + 1 - d : d + k \in 1 .. L + 1
  BY <1>1, <1>5
<1>8. \A k \in DOMAIN w : w[k].seq = (n + 1 - (L + 1 - d)) + k
  <2> SUFFICES ASSUME NEW k \in 1 .. L + 1 - d
               PROVE  w[k].seq = (n + 1 - (L + 1 - d)) + k
    BY <1>7
  <2>1. w[k].seq = n - L + (d + k)
    BY <1>4, <1>5, <1>7
  <2> QED BY <1>1, <1>5, <2>1
<1>9. Windowed(w, n + 1)
  <2>1. n + 1 \in Nat /\ n + 1 - (L + 1 - d) \in Nat
    BY <1>1, <1>5
  <2>2. n + 1 - Len(w) = n + 1 - (L + 1 - d)
    BY <1>5
  <2>3. Numbered(w, n + 1 - Len(w))
    BY <1>5, <1>8, <2>1, <2>2 DEF Numbered
  <2>4. Len(w) <= chatHistoryLimit
    BY <1>5, <1>6
  <2> QED BY <2>1, <2>3, <2>4 DEF Windowed
<1>10. \A k \in DOMAIN w : w[k] = line \/ \E j \in DOMAIN lines : w[k] = lines[j]
  <2> SUFFICES ASSUME NEW k \in 1 .. L + 1 - d
               PROVE  w[k] = line \/ \E j \in DOMAIN lines : w[k] = lines[j]
    BY <1>7
  <2>1. CASE d + k = L + 1
    BY <1>2, <1>5, <2>1
  <2>2. CASE d + k \in DOMAIN lines
    BY <1>1, <1>2, <1>5, <2>2
  <2> QED BY <1>3, <1>7, <2>1, <2>2
<1> QED BY <1>5, <1>9, <1>10 DEF y, L, d, w

\* How far a replay starts into the window, as the window moves on.
LEMMA ExcessMatches ==
    ASSUME NEW n \in Nat, NEW L \in 0 .. n, L <= chatHistoryLimit, NEW from \in 0 .. n
    PROVE  /\ unseen(n - L + excess(L + 1), from) + excess(L + 1)
                = unseen(n - L, from) + excess(L + 1 - unseen(n - L, from))
           /\ unseen(n - L + excess(L + 1), from) \in 0 .. L + 1 - excess(L + 1)
           /\ unseen(n - L, from) \in 0 .. L
           /\ excess(L + 1) \in 0 .. L
           /\ excess(L + 1 - unseen(n - L, from)) \in 0 .. L - unseen(n - L, from)
BY ChatBounds DEF unseen, excess

\* What a panel that misses nothing becomes, and what a replay would be, are the same.
LEMMA SaidToBoth ==
    ASSUME NEW lines, NEW n, Windowed(lines, n), NEW from \in 0 .. n, NEW s,
           NEW line \in Line, line.seq = n + 1
    PROVE  history(window(Append(lines, line)), from, s)
             = window(Append(history(lines, from, s), chatMessageFor(line, s)))
<1> DEFINE y == Append(lines, line)
           L == Len(lines)
           d == excess(L + 1)
           c == unseen(n - L, from)
           c2 == unseen(n - L + d, from)
           e == excess(L + 1 - c)
           new == chatMessageFor(line, s)
           h == history(lines, from, s)
           z == Append(h, new)
           w == window(y)
           p == window(z)
           q == history(w, from, s)
<1>1. /\ lines \in Seq(Line) /\ L \in Nat /\ L <= n /\ n \in Nat /\ from \in Nat
      /\ chatHistoryLimit \in Nat \ {0} /\ L <= chatHistoryLimit
      /\ L \in 0 .. n /\ n = (n - L) + L
      /\ Numbered(lines, n - L)
      /\ DOMAIN lines = 1 .. L
  BY ChatBounds DEF Windowed, Numbered
<1>2. /\ y \in Seq(Line) /\ Len(y) = L + 1
      /\ y[L + 1] = line
      /\ \A k \in 1 .. L : y[k] = lines[k]
  BY <1>1
<1>3. /\ c2 + d = c + e
      /\ c2 \in 0 .. L + 1 - d
      /\ c \in 0 .. L
      /\ d \in 0 .. L
      /\ e \in 0 .. L - c
  <2> HIDE DEF L
  <2> QED BY <1>1, ExcessMatches
<1>4. /\ h \in Seq(Message)
      /\ Len(h) = L - c
      /\ \A k \in 1 .. L - c : h[k] = chatMessageFor(lines[c + k], s)
  <2> HIDE DEF h, c, L
  <2>1. from \in 0 .. (n - L) + L /\ L = Len(lines) /\ c = unseen(n - L, from)
        /\ h = history(lines, from, s)
    BY <1>1 DEF L, c, h
  <2> QED BY <1>1, <2>1, HistoryIs
<1>5. /\ w \in Seq(Line)
      /\ Len(w) = L + 1 - d
      /\ \A k \in 1 .. L + 1 - d : w[k] = y[d + k]
  <2> DEFINE N == L + 1
  <2>1. N \in Nat \ {0} /\ N = Len(y) /\ d = excess(N) /\ w = window(y)
    BY <1>1, <1>2
  <2> HIDE DEF L, d, w, y, N
  <2>2. /\ w \in Seq(Line)
        /\ Len(w) = N - d
        /\ \A k \in 1 .. N - d : w[k] = y[d + k]
    BY <1>2, <2>1, WindowIs
  <2> HIDE DEF L, c, c2, d, e
  <2> QED BY <1>1, <1>3, <2>2 DEF N
<1>6. Numbered(w, n - L + d)
  <2>1. Windowed(w, n + 1)
    BY WindowKeeps
  <2>2. n + 1 - Len(w) = n - L + d
    <3> HIDE DEF L, w, d
    <3> QED BY <1>1, <1>3, <1>5
  <2> HIDE DEF L, w, d
  <2>3. Numbered(w, n + 1 - Len(w))
    BY <2>1 DEF Windowed
  <2> QED BY <2>2, <2>3
<1>7. new \in Message
  BY DEF chatMessageFor, Line, Message
<1>8. /\ z \in Seq(Message) /\ Len(z) = L - c + 1
      /\ z[L - c + 1] = new
      /\ \A k \in 1 .. L - c : z[k] = h[k]
  <2> HIDE DEF h, L, c, new
  <2> QED BY <1>4, <1>7, AppendProperties
<1>9. /\ q \in Seq(Message)
      /\ Len(q) = L + 1 - d - c2
      /\ \A k \in 1 .. L + 1 - d - c2 : q[k] = chatMessageFor(w[c2 + k], s)
  <2> DEFINE N == L + 1 - d
             before == n - L + d
  <2>1. N \in Nat /\ N = Len(w) /\ from \in 0 .. before + N /\ c2 = unseen(before, from)
        /\ q = history(w, from, s) /\ Numbered(w, before)
    <3> HIDE DEF L, w, d
    <3>1. N \in Nat /\ N = Len(w) /\ from \in 0 .. before + N
      BY <1>1, <1>3, <1>5
    <3>2. c2 = unseen(before, from) /\ q = history(w, from, s) /\ Numbered(w, before)
      BY <1>6
    <3> QED BY <3>1, <3>2
  <2> HIDE DEF L, c, d, w, q, z, c2, N, before
  <2>2. /\ q \in Seq(Message)
        /\ Len(q) = N - c2
        /\ \A k \in 1 .. N - c2 : q[k] = chatMessageFor(w[c2 + k], s)
    BY <2>1, HistoryIs
  <2> HIDE DEF L, c, c2, d, e
  <2> QED BY <1>1, <1>3, <2>2 DEF N
<1>10. /\ p \in Seq(Message)
       /\ Len(p) = L + 1 - c - e
       /\ \A k \in 1 .. L + 1 - c - e : p[k] = z[e + k]
  <2> DEFINE N == L + 1 - c
  <2>1. N \in Nat \ {0} /\ N = Len(z) /\ e = excess(N) /\ p = window(z)
    <3> HIDE DEF z, L, c
    <3> QED BY <1>1, <1>3, <1>8
  <2> HIDE DEF L, c, d, z, e, p, w, q, N
  <2>2. /\ p \in Seq(Message)
        /\ Len(p) = N - e
        /\ \A k \in 1 .. N - e : p[k] = z[e + k]
    BY <1>8, <2>1, WindowIs
  <2> HIDE DEF L, c, c2, d, e
  <2>3. N - e = L + 1 - c - e
    BY <1>1, <1>3 DEF N
  <2> QED BY <2>2, <2>3
<1>11. new = chatMessageFor(y[L + 1], s)
  BY <1>2
<1> HIDE DEF y, L, d, c, c2, e, new, h, z, w, p, q
<1>12. Len(p) = Len(q)
  BY <1>1, <1>3, <1>9, <1>10
<1>13. ASSUME NEW k \in 1 .. Len(p)
       PROVE  p[k] = q[k]
  <2>1. k \in 1 .. L + 1 - c - e /\ k \in 1 .. L + 1 - d - c2
    BY <1>9, <1>10, <1>12
  <2>2. /\ c2 + k \in 1 .. L + 1 - d /\ d + (c2 + k) = c + (e + k)
        /\ e + k \in 1 .. L - c + 1
    BY <1>1, <1>3, <2>1
  <2>3. q[k] = chatMessageFor(y[c + (e + k)], s)
    BY <1>5, <1>9, <2>1, <2>2
  <2>4. CASE e + k = L - c + 1
    <3>1. c + (e + k) = L + 1
      BY <1>1, <1>3, <2>4
    <3> QED BY <1>8, <1>10, <1>11, <2>1, <2>3, <2>4, <3>1
  <2>5. CASE e + k # L - c + 1
    <3>1. e + k \in 1 .. L - c /\ c + (e + k) \in 1 .. L
      BY <1>1, <1>3, <2>2, <2>5
    <3>2. p[k] = chatMessageFor(lines[c + (e + k)], s)
      BY <1>4, <1>8, <1>10, <2>1, <3>1
    <3> QED BY <1>2, <2>3, <3>1, <3>2
  <2> QED BY <2>4, <2>5
<1>14. p = q
  BY <1>9, <1>10, <1>12, <1>13, SeqEqual
<1> QED BY <1>14 DEF y, h, new, z, w, p, q

----------------------------------------------------------------------------
(***************************************************************************)
(* What is on a panel.                                                     *)
(***************************************************************************)

\* Each line of the window carries the name of whoever said it, for as long as they
\* have not left since, and otherwise none.
Attributed(lines, hl, fr, sd) ==
    \A k \in DOMAIN lines :
        LET author == lines[k].author
            sayer == sd[lines[k].seq]
        IN  /\ author # Nobody =>
                 author = sayer /\ hl[author] # "free" /\ lines[k].seq > fr[author]
            /\ hl[sayer] # "free" /\ lines[k].seq > fr[sayer] => author = sayer

\* What seat s may be shown of the n lines said since it sat down, in their order.
Shows(p, s, from, n, sd) ==
    /\ p \in Seq(Message)
    /\ \A k \in DOMAIN p :
          /\ p[k].seq \in from + 1 .. n
          /\ p[k].fromMe <=> sd[p[k].seq] = s
          /\ \A m \in DOMAIN p : k < m => p[k].seq < p[m].seq

\* A message is its line, to one seat.
LEMMA MessageIs ==
    ASSUME NEW line, NEW s
    PROVE  /\ chatMessageFor(line, s).seq = line.seq
           /\ chatMessageFor(line, s).author = line.author
           /\ chatMessageFor(line, s).fromMe <=> line.author = s
BY Zenon DEF chatMessageFor

\* A replay's messages are lines of the window, in their order.
LEMMA HistorySays ==
    ASSUME NEW lines, NEW n, Windowed(lines, n), NEW from \in 0 .. n, NEW s,
           NEW h, h = history(lines, from, s)
    PROVE  /\ h \in Seq(Message)
           /\ \A k \in DOMAIN h :
                 /\ \E j \in DOMAIN lines : h[k] = chatMessageFor(lines[j], s)
                 /\ h[k].seq \in from + 1 .. n
                 /\ \A m \in DOMAIN h : k < m => h[k].seq < h[m].seq
<1> DEFINE L == Len(lines)
           before == n - L
           c == unseen(before, from)
<1>1. /\ lines \in Seq(Line) /\ L \in Nat /\ n \in Nat /\ from \in Nat /\ before \in Nat
      /\ Numbered(lines, before) /\ DOMAIN lines = 1 .. L
      /\ \A j \in 1 .. L : lines[j].seq = before + j
  BY DEF Windowed, Numbered
<1>2. from \in 0 .. before + L
  BY <1>1
<1> HIDE DEF L
<1>3. c \in 0 .. L /\ before + c >= from
  BY <1>1, <1>2 DEF unseen
<1>4. /\ h \in Seq(Message)
      /\ Len(h) = L - c
      /\ \A k \in 1 .. L - c : h[k] = chatMessageFor(lines[c + k], s)
  <2>1. L = Len(lines) /\ c = unseen(before, from)
    BY DEF L
  <2> HIDE DEF c, before
  <2> QED BY <1>1, <1>2, <2>1, HistoryIs
<1> HIDE DEF c
<1>5. DOMAIN h = 1 .. L - c
  BY <1>4
<1>6. \A k \in 1 .. L - c : c + k \in 1 .. L
  BY <1>1, <1>3
<1>7. \A k \in 1 .. L - c : h[k].seq = before + (c + k)
  BY <1>1, <1>4, <1>6 DEF chatMessageFor
<1> HIDE DEF before
<1>8. ASSUME NEW k \in 1 .. L - c, NEW m \in 1 .. L - c
      PROVE  h[k].seq \in from + 1 .. n /\ (k < m => h[k].seq < h[m].seq)
  <2>1. before + L = n
    BY <1>1 DEF before
  <2> QED BY <1>1, <1>3, <1>7, <2>1
<1> QED BY <1>1, <1>4, <1>5, <1>6, <1>8

\* So a replay shows a seat what it may be shown.
LEMMA HistoryShows ==
    ASSUME NEW lines, NEW n, Windowed(lines, n), NEW hl, NEW fr, NEW sd,
           Attributed(lines, hl, fr, sd),
           NEW s \in Seat, hl[s] # "free", fr[s] \in 0 .. n
    PROVE  Shows(history(lines, fr[s], s), s, fr[s], n, sd)
<1> DEFINE h == history(lines, fr[s], s)
<1>1. /\ h \in Seq(Message)
      /\ \A k \in DOMAIN h :
            /\ \E j \in DOMAIN lines : h[k] = chatMessageFor(lines[j], s)
            /\ h[k].seq \in fr[s] + 1 .. n
            /\ \A m \in DOMAIN h : k < m => h[k].seq < h[m].seq
  BY HistorySays
<1> HIDE DEF h
<1>2. ASSUME NEW k \in DOMAIN h
      PROVE  h[k].fromMe <=> sd[h[k].seq] = s
  <2>1. PICK j \in DOMAIN lines : h[k] = chatMessageFor(lines[j], s)
    BY <1>1
  <2>2. h[k].seq = lines[j].seq /\ (h[k].fromMe <=> lines[j].author = s)
    BY <2>1, MessageIs
  <2>3. h[k].seq > fr[s]
    BY <1>1
  <2>4. s # Nobody
    BY ChatBounds
  <2> QED BY <2>2, <2>3, <2>4 DEF Attributed
<1>3. Shows(h, s, fr[s], n, sd)
  BY <1>1, <1>2 DEF Shows
<1> QED BY <1>3 DEF h

\* A line said to a panel, and the window trimmed, leaves it so.
LEMMA ShowsOneMore ==
    ASSUME NEW p, NEW s \in Seat, NEW n \in Nat, NEW from \in 0 .. n,
           NEW sd \in Seq(Seat), Len(sd) = n, Shows(p, s, from, n, sd),
           NEW a \in Seat, NEW line, line = [seq |-> n + 1, author |-> a]
    PROVE  Shows(window(Append(p, chatMessageFor(line, s))), s, from, n + 1, Append(sd, a))
<1> DEFINE new == chatMessageFor(line, s)
           y == Append(p, new)
           L == Len(p)
           N == L + 1
           d == excess(N)
           w == window(y)
           sd2 == Append(sd, a)
<1>1. new \in Message /\ new.seq = n + 1 /\ (new.fromMe <=> a = s)
  <2>1. line.seq = n + 1 /\ line.author = a
    OBVIOUS
  <2>2. new \in Message
    BY <2>1 DEF chatMessageFor, Message
  <2> QED BY <2>1, <2>2, MessageIs
<1>2. p \in Seq(Message) /\ L \in Nat /\ DOMAIN p = 1 .. L
  BY DEF Shows
<1>3. /\ y \in Seq(Message) /\ Len(y) = N /\ N \in Nat \ {0}
      /\ y[N] = new /\ \A k \in 1 .. L : y[k] = p[k]
  BY <1>1, <1>2
<1>4. sd2[n + 1] = a /\ \A i \in 1 .. n : sd2[i] = sd[i]
  OBVIOUS
<1> HIDE DEF new, y, sd2
<1>5. \A k \in 1 .. N : k = N \/ k \in 1 .. L
  BY <1>2
<1>6. ASSUME NEW k \in 1 .. N
      PROVE  /\ y[k].seq \in from + 1 .. n + 1
             /\ y[k].fromMe <=> sd2[y[k].seq] = s
             /\ \A m \in 1 .. N : k < m => y[k].seq < y[m].seq
  <2>1. CASE k = N
    <3>1. \A m \in 1 .. N : ~ (N < m)
      BY <1>2
    <3> QED BY <1>1, <1>3, <1>4, <2>1, <3>1
  <2>2. CASE k \in 1 .. L
    <3>1. /\ y[k] = p[k] /\ p[k].seq \in from + 1 .. n
          /\ p[k].fromMe <=> sd[p[k].seq] = s
          /\ \A m \in 1 .. L : k < m => p[k].seq < p[m].seq
      BY <1>2, <1>3, <2>2 DEF Shows
    <3>2. p[k].seq \in 1 .. n /\ p[k].seq < n + 1 /\ p[k].seq \in from + 1 .. n + 1
      BY <3>1
    <3>3. \A m \in 1 .. N : k < m => y[k].seq < y[m].seq
      <4> SUFFICES ASSUME NEW m \in 1 .. N, k < m PROVE y[k].seq < y[m].seq
        OBVIOUS
      <4>1. CASE m = N
        BY <1>1, <1>3, <3>1, <3>2, <4>1
      <4>2. CASE m \in 1 .. L
        BY <1>3, <3>1, <4>2
      <4> QED BY <1>5, <4>1, <4>2
    <3> QED BY <1>4, <3>1, <3>2, <3>3
  <2> QED BY <1>5, <2>1, <2>2
<1>7. /\ d \in 0 .. N - 1
      /\ w \in Seq(Message)
      /\ Len(w) = N - d
      /\ \A k \in 1 .. N - d : w[k] = y[d + k]
  <2>1. d = excess(N) /\ w = window(y)
    OBVIOUS
  <2> HIDE DEF d, w, N
  <2> QED BY <1>3, <2>1, WindowIs
<1> HIDE DEF d, w, N
<1>8. DOMAIN w = 1 .. N - d
  BY <1>7
<1>9. ASSUME NEW k \in 1 .. N - d
      PROVE  /\ w[k].seq \in from + 1 .. n + 1
             /\ w[k].fromMe <=> sd2[w[k].seq] = s
             /\ \A m \in 1 .. N - d : k < m => w[k].seq < w[m].seq
  <2>1. d + k \in 1 .. N /\ \A m \in 1 .. N - d : d + m \in 1 .. N /\ (k < m => d + k < d + m)
    BY <1>3, <1>7
  <2>2. w[k] = y[d + k] /\ \A m \in 1 .. N - d : w[m] = y[d + m]
    BY <1>7
  <2> QED BY <1>6, <2>1, <2>2
<1>10. Shows(w, s, from, n + 1, sd2)
  BY <1>7, <1>8, <1>9 DEF Shows
<1> QED BY <1>10 DEF w, y, new, sd2

----------------------------------------------------------------------------
(***************************************************************************)
(* The room.                                                               *)
(***************************************************************************)
TypeOK ==
    /\ held \in [Seat -> {"free", "here", "closing", "away"}]
    /\ chatSeq \in Nat
    /\ chatFrom \in [Seat -> 0 .. chatSeq]
    /\ said \in Seq(Seat) /\ Len(said) = chatSeq
    /\ lossless \in [Seat -> BOOLEAN]

\* A connected client shows what it may, and what a replay would unless it missed a line.
PanelsShow ==
    \A s \in connected :
        /\ Shows(panel[s], s, chatFrom[s], chatSeq, said)
        /\ lossless[s] => panel[s] = history(chat, chatFrom[s], s)

ChatInv ==
    /\ TypeOK
    /\ Windowed(chat, chatSeq)
    /\ Attributed(chat, held, chatFrom, said)
    /\ PanelsShow

\* The lines in the window have been said.
LEMMA LinesAreSaid ==
    ASSUME ChatInv, NEW k \in DOMAIN chat
    PROVE  /\ chat[k] \in Line
           /\ chat[k].seq \in 1 .. chatSeq
           /\ said[chat[k].seq] \in Seat
<1>1. /\ chat \in Seq(Line) /\ chatSeq - Len(chat) \in Nat /\ chatSeq \in Nat
      /\ chat[k].seq = chatSeq - Len(chat) + k
      /\ said \in Seq(Seat) /\ Len(said) = chatSeq
  BY DEF ChatInv, TypeOK, Windowed, Numbered
<1>2. k \in 1 .. Len(chat) /\ Len(chat) \in Nat /\ chat[k] \in Line
  BY <1>1
<1>3. chat[k].seq \in 1 .. chatSeq
  BY <1>1, <1>2
<1> QED BY <1>1, <1>2, <1>3

\* A room opens with nothing said.
LEMMA ChatStarts == Init => ChatInv
<1> SUFFICES ASSUME Init PROVE ChatInv
  OBVIOUS
<1>1. TypeOK
  BY DEF Init, TypeOK
<1>2. Windowed(chat, chatSeq)
  BY ChatBounds DEF Init, Windowed, Numbered
<1>3. Attributed(chat, held, chatFrom, said)
  BY DEF Init, Attributed
<1>4. ASSUME NEW s \in connected
      PROVE  /\ Shows(panel[s], s, chatFrom[s], chatSeq, said)
             /\ panel[s] = history(chat, chatFrom[s], s)
  <2>1. s \in Seat /\ panel[s] = <<>> /\ chatFrom[s] = 0 /\ chat = <<>> /\ chatSeq = 0
    BY DEF Init, connected
  <2> DEFINE h == history(chat, 0, s)
  <2>2. h \in Seq(Message) /\ Len(h) = 0
    <3> DEFINE c == unseen(0, 0)
    <3>1. c = 0
      BY DEF unseen
    <3>2. Numbered(chat, 0) /\ Len(chat) = 0 /\ 0 \in 0 .. 0 + 0 /\ 0 - c = 0
      BY <2>1, <3>1 DEF Numbered
    <3> HIDE DEF c, h
    <3>3. c = unseen(0, 0) /\ h = history(chat, 0, s)
      BY DEF c, h
    <3> QED BY <3>2, <3>3, HistoryIs
  <2> HIDE DEF h
  <2>3. h = <<>>
    BY <2>2
  <2>4. Shows(<<>>, s, 0, 0, said)
    BY DEF Shows
  <2> QED BY <2>1, <2>3, <2>4 DEF h
<1> QED BY <1>1, <1>2, <1>3, <1>4 DEF ChatInv, PanelsShow

\* An attribution outlives what happens to seats that stay, or that sit down now.
LEMMA SeatsMove ==
    ASSUME ChatInv, NEW hl, NEW fr,
           \A s \in Seat : hl[s] # "free" /\ fr[s] < chatSeq =>
                              held[s] # "free" /\ fr[s] = chatFrom[s],
           \A s \in Seat : held[s] # "free" => hl[s] # "free" /\ fr[s] = chatFrom[s],
           \A s \in Seat : fr[s] \in 0 .. chatSeq
    PROVE  Attributed(chat, hl, fr, said)
<1> SUFFICES ASSUME NEW k \in DOMAIN chat
             PROVE  LET author == chat[k].author
                        sayer == said[chat[k].seq]
                    IN  /\ author # Nobody =>
                             author = sayer /\ hl[author] # "free" /\ chat[k].seq > fr[author]
                        /\ hl[sayer] # "free" /\ chat[k].seq > fr[sayer] => author = sayer
  BY DEF Attributed
<1> DEFINE author == chat[k].author
           sayer == said[chat[k].seq]
<1>1. chat[k].seq \in 1 .. chatSeq /\ sayer \in Seat /\ chatSeq \in Nat
  BY LinesAreSaid DEF ChatInv, TypeOK
<1>2. /\ author # Nobody =>
           author = sayer /\ held[author] # "free" /\ chat[k].seq > chatFrom[author]
      /\ held[sayer] # "free" /\ chat[k].seq > chatFrom[sayer] => author = sayer
  BY DEF ChatInv, Attributed
<1> HIDE DEF author, sayer
<1>3. author # Nobody => author = sayer /\ hl[author] # "free" /\ chat[k].seq > fr[author]
  BY <1>1, <1>2
<1>4. hl[sayer] # "free" /\ chat[k].seq > fr[sayer] => author = sayer
  <2> SUFFICES ASSUME hl[sayer] # "free", chat[k].seq > fr[sayer] PROVE author = sayer
    OBVIOUS
  <2>1. fr[sayer] < chatSeq
    BY <1>1
  <2> QED BY <1>1, <1>2, <2>1
<1> QED BY <1>3, <1>4 DEF author, sayer

\* A line said: into the window and onto every panel that does not miss it.
LEMMA ChatIsSaid ==
    ASSUME ChatInv, NEW s \in Seat, NEW dropped, handleChat(s, dropped)
    PROVE  ChatInv'
<1> DEFINE line == [seq |-> chatSeq + 1, author |-> s]
<1>1. /\ s \in Seat /\ held[s] # "free" /\ s # Nobody
      /\ chatSeq' = chatSeq + 1 /\ said' = Append(said, s)
      /\ chat' = window(Append(chat, line))
      /\ UNCHANGED <<held, chatFrom>>
  BY ChatBounds DEF handleChat
<1>2. /\ chatSeq \in Nat /\ said \in Seq(Seat) /\ Len(said) = chatSeq
      /\ chatFrom \in [Seat -> 0 .. chatSeq]
      /\ held \in [Seat -> {"free", "here", "closing", "away"}]
  BY DEF ChatInv, TypeOK
<1>3. line \in Line /\ line.seq = chatSeq + 1 /\ line.author = s
  BY <1>2 DEF Line
<1> HIDE DEF line
<1>4. TypeOK'
  <2>1. said' \in Seq(Seat) /\ Len(said') = chatSeq'
    BY <1>1, <1>2
  <2>2. chatFrom' \in [Seat -> 0 .. chatSeq']
    <3>1. \A i \in 0 .. chatSeq : i \in 0 .. chatSeq + 1
      BY <1>2
    <3> QED BY <1>1, <1>2, <3>1
  <2>3. lossless' \in [Seat -> BOOLEAN]
    BY DEF handleChat, ChatInv, TypeOK
  <2> QED BY <1>1, <1>2, <2>1, <2>2, <2>3 DEF TypeOK
<1>5. /\ Windowed(chat', chatSeq')
      /\ \A k \in DOMAIN chat' : chat'[k] = line \/ \E j \in DOMAIN chat : chat'[k] = chat[j]
  BY <1>1, <1>3, WindowKeeps DEF ChatInv
<1>6. said'[chatSeq + 1] = s /\ \A i \in 1 .. chatSeq : said'[i] = said[i]
  BY <1>1, <1>2
<1>7. Attributed(chat', held', chatFrom', said')
  <2> SUFFICES ASSUME NEW k \in DOMAIN chat'
               PROVE  LET author == chat'[k].author
                          sayer == said'[chat'[k].seq]
                      IN  /\ author # Nobody =>
                               /\ author = sayer
                               /\ held[author] # "free" /\ chat'[k].seq > chatFrom[author]
                          /\ held[sayer] # "free" /\ chat'[k].seq > chatFrom[sayer] =>
                               author = sayer
    BY <1>1 DEF Attributed
  <2>1. CASE chat'[k] = line
    BY <1>1, <1>2, <1>3, <1>6, <2>1
  <2>2. CASE \E j \in DOMAIN chat : chat'[k] = chat[j]
    <3>1. PICK j \in DOMAIN chat : chat'[k] = chat[j]
      BY <2>2
    <3>2. said'[chat[j].seq] = said[chat[j].seq]
      BY <1>6, LinesAreSaid
    <3> QED BY <3>1, <3>2 DEF ChatInv, Attributed
  <2> QED BY <1>5, <2>1, <2>2
<1>8. ASSUME NEW t \in Seat, held[t] = "here"
      PROVE  /\ Shows(panel'[t], t, chatFrom[t], chatSeq + 1, said')
             /\ lossless'[t] => panel'[t] = history(chat', chatFrom[t], t)
  <2>1. /\ Shows(panel[t], t, chatFrom[t], chatSeq, said)
        /\ lossless[t] => panel[t] = history(chat, chatFrom[t], t)
        /\ chatFrom[t] \in 0 .. chatSeq
    BY <1>2, <1>8 DEF ChatInv, PanelsShow, connected
  <2>2. CASE t \in dropped
    <3>1. panel'[t] = panel[t] /\ ~ lossless'[t]
      BY <2>2 DEF handleChat
    <3>2. Shows(panel[t], t, chatFrom[t], chatSeq + 1, said')
      <4>1. \A k \in DOMAIN panel[t] :
               /\ panel[t][k].seq \in 1 .. chatSeq
               /\ panel[t][k].seq \in chatFrom[t] + 1 .. chatSeq + 1
        BY <1>2, <2>1 DEF Shows
      <4> QED BY <1>6, <2>1, <4>1 DEF Shows
    <3> QED BY <3>1, <3>2
  <2>3. CASE t \notin dropped
    <3>1. /\ panel'[t] = window(Append(panel[t], chatMessageFor(line, t)))
          /\ lossless'[t] <=> lossless[t]
      BY <1>8, <2>3 DEF handleChat, connected, line
    <3>2. Shows(panel'[t], t, chatFrom[t], chatSeq + 1, said')
      BY <1>1, <1>2, <2>1, <3>1, ShowsOneMore DEF line
    <3>3. lossless[t] => panel'[t] = history(chat', chatFrom[t], t)
      BY <1>1, <1>3, <2>1, <3>1, SaidToBoth DEF ChatInv
    <3> QED BY <3>1, <3>2, <3>3
  <2> QED BY <2>2, <2>3
<1>9. PanelsShow'
  BY <1>1, <1>8 DEF PanelsShow, connected
<1> QED BY <1>4, <1>5, <1>7, <1>9 DEF ChatInv

\* A seat taken or resumed: a replay of what its holder may read.
LEMMA ChatIsReplayed ==
    ASSUME ChatInv, NEW s \in Seat, NEW Full,
           handleJoin(s, Full) \/ handleResume(s, Full)
    PROVE  ChatInv'
<1>1. /\ Full \subseteq {s}
      /\ held' = [t \in Seat |-> IF t \in Full THEN "closing"
                                 ELSE [held EXCEPT ![s] = "here"][t]]
      /\ panel' = [t \in Seat |-> IF t \in {s} \ Full THEN history(chat, chatFrom'[t], t)
                                  ELSE IF t \in Full \cup {} THEN <<>> ELSE panel[t]]
      /\ lossless' = [t \in Seat |-> t \in {s} \cup {} \/ lossless[t]]
      /\ UNCHANGED <<chat, chatSeq, said>>
  BY DEF handleJoin, handleResume, replay
<1>2. /\ chatSeq \in Nat /\ said \in Seq(Seat) /\ Len(said) = chatSeq
      /\ chatFrom \in [Seat -> 0 .. chatSeq]
      /\ held \in [Seat -> {"free", "here", "closing", "away"}]
      /\ lossless \in [Seat -> BOOLEAN]
      /\ Windowed(chat, chatSeq)
  BY DEF ChatInv, TypeOK
<1>3. /\ chatFrom' \in [Seat -> 0 .. chatSeq]
      /\ \A t \in Seat : t # s => chatFrom'[t] = chatFrom[t]
      /\ chatFrom'[s] < chatSeq \/ held[s] # "free" =>
            held[s] # "free" /\ chatFrom'[s] = chatFrom[s]
  BY <1>2 DEF handleJoin, handleResume
<1>4. /\ held' \in [Seat -> {"free", "here", "closing", "away"}]
      /\ held'[s] # "free" /\ \A t \in Seat : t # s => held'[t] = held[t]
      /\ held'[s] = "here" => s \notin Full
  BY <1>1, <1>2
<1>5. TypeOK'
  <2>1. lossless' \in [Seat -> BOOLEAN]
    BY <1>1, <1>2
  <2> QED BY <1>1, <1>2, <1>3, <1>4, <2>1 DEF TypeOK
<1>6. Attributed(chat, held', chatFrom', said)
  BY <1>3, <1>4, SeatsMove
<1>7. ASSUME NEW t \in Seat, held'[t] = "here"
      PROVE  /\ Shows(panel'[t], t, chatFrom'[t], chatSeq, said)
             /\ lossless'[t] => panel'[t] = history(chat, chatFrom'[t], t)
  <2>1. CASE t = s
    <3>1. panel'[t] = history(chat, chatFrom'[t], t)
      BY <1>1, <1>4, <1>7, <2>1
    <3>2. held'[t] # "free" /\ chatFrom'[t] \in 0 .. chatSeq
      BY <1>3, <1>7
    <3>3. Shows(history(chat, chatFrom'[t], t), t, chatFrom'[t], chatSeq, said)
      BY <1>2, <1>6, <3>2, HistoryShows
    <3> QED BY <3>1, <3>3
  <2>2. CASE t # s
    <3>1. panel'[t] = panel[t] /\ chatFrom'[t] = chatFrom[t] /\ held[t] = "here"
      BY <1>1, <1>3, <1>4, <1>7, <2>2
    <3>2. lossless'[t] => lossless[t]
      BY <1>1, <2>2
    <3> QED BY <3>1, <3>2 DEF ChatInv, PanelsShow, connected
  <2> QED BY <2>1, <2>2
<1>8. PanelsShow'
  BY <1>1, <1>7 DEF PanelsShow, connected
<1>9. Windowed(chat', chatSeq') /\ Attributed(chat', held', chatFrom', said')
  BY <1>1, <1>2, <1>6
<1> QED BY <1>5, <1>8, <1>9 DEF ChatInv

\* A connection that ends: its panel goes.
LEMMA ChatIsCutOff ==
    ASSUME ChatInv, NEW s \in Seat, handleJoinDead(s) \/ handleDisconnect(s)
    PROVE  ChatInv'
<1>1. /\ chatSeq \in Nat /\ said \in Seq(Seat) /\ Len(said) = chatSeq
      /\ chatFrom \in [Seat -> 0 .. chatSeq]
      /\ held \in [Seat -> {"free", "here", "closing", "away"}]
      /\ lossless \in [Seat -> BOOLEAN]
      /\ Windowed(chat, chatSeq)
  BY DEF ChatInv, TypeOK
<1>2. /\ UNCHANGED <<chat, chatSeq, said>>
      /\ held' \in [Seat -> {"free", "here", "closing", "away"}]
      /\ held'[s] = "away" /\ \A t \in Seat : t # s => held'[t] = held[t]
      /\ chatFrom' \in [Seat -> 0 .. chatSeq]
      /\ \A t \in Seat : t # s => chatFrom'[t] = chatFrom[t]
      /\ chatFrom'[s] < chatSeq \/ held[s] # "free" =>
            held[s] # "free" /\ chatFrom'[s] = chatFrom[s]
  <2>1. UNCHANGED <<chat, chatSeq, said>> /\ held' = [held EXCEPT ![s] = "away"]
    BY DEF handleJoinDead, handleDisconnect
  <2>2. CASE handleJoinDead(s)
    BY <1>1, <2>1, <2>2 DEF handleJoinDead
  <2>3. CASE handleDisconnect(s)
    BY <1>1, <2>1, <2>3 DEF handleDisconnect
  <2> QED BY <2>2, <2>3
<1>3. /\ lossless' \in [Seat -> BOOLEAN]
      /\ \A t \in Seat : t # s => panel'[t] = panel[t] /\ (lossless'[t] => lossless[t])
  <2>1. CASE handleJoinDead(s)
    BY <1>1, <2>1 DEF handleJoinDead
  <2>2. CASE handleDisconnect(s)
    <3>1. \A t \in Seat : t # s => panel'[t] = panel[t]
      BY <2>2 DEF handleDisconnect, cutOff
    <3>2. lossless' = [t \in Seat |-> t \in {s} \/ lossless[t]]
      BY <2>2 DEF handleDisconnect, cutOff
    <3> QED BY <3>1, <3>2
  <2> QED BY <2>1, <2>2
<1>4. TypeOK'
  BY <1>1, <1>2, <1>3 DEF TypeOK
<1>5. Attributed(chat, held', chatFrom', said)
  BY <1>2, SeatsMove
<1>6. ASSUME NEW t \in Seat, held'[t] = "here"
      PROVE  /\ Shows(panel'[t], t, chatFrom'[t], chatSeq, said)
             /\ lossless'[t] => panel'[t] = history(chat, chatFrom'[t], t)
  <2>1. t # s /\ held[t] = "here" /\ chatFrom'[t] = chatFrom[t] /\ panel'[t] = panel[t]
        /\ (lossless'[t] => lossless[t])
    BY <1>2, <1>3, <1>6
  <2> QED BY <2>1 DEF ChatInv, PanelsShow, connected
<1>7. PanelsShow'
  BY <1>2, <1>6 DEF PanelsShow, connected
<1>8. Windowed(chat', chatSeq') /\ Attributed(chat', held', chatFrom', said')
  BY <1>1, <1>2, <1>5
<1> QED BY <1>4, <1>7, <1>8 DEF ChatInv

\* A seat vacated: the names go from its lines, and then from what others see of them.
LEMMA ChatIsScrubbed ==
    ASSUME ChatInv, NEW s \in Seat, NEW Full, vacate(s, Full)
    PROVE  ChatInv'
<1> DEFINE scrubbed == \E k \in DOMAIN chat : chat[k].author = s
           others == connected \ {s}
           R == IF scrubbed THEN others ELSE {}
           lines == [k \in DOMAIN chat |->
                       IF chat[k].author = s THEN [chat[k] EXCEPT !.author = Nobody] ELSE chat[k]]
<1>1. /\ held[s] # "free" /\ s # Nobody
      /\ Full \subseteq R
      /\ chat' = lines
      /\ held' = [t \in Seat |-> IF t \in Full THEN "closing" ELSE [held EXCEPT ![s] = "free"][t]]
      /\ panel' = [t \in Seat |-> IF t \in R \ Full THEN history(lines, chatFrom[t], t)
                                  ELSE IF t \in Full \cup {s} THEN <<>> ELSE panel[t]]
      /\ lossless' = [t \in Seat |-> t \in R \cup {s} \/ lossless[t]]
      /\ chatFrom' = [chatFrom EXCEPT ![s] = 0]
      /\ UNCHANGED <<chatSeq, said>>
  BY ChatBounds DEF vacate, replay
<1>2. /\ chatSeq \in Nat /\ said \in Seq(Seat) /\ Len(said) = chatSeq
      /\ chatFrom \in [Seat -> 0 .. chatSeq]
      /\ held \in [Seat -> {"free", "here", "closing", "away"}]
      /\ lossless \in [Seat -> BOOLEAN]
      /\ Windowed(chat, chatSeq) /\ chat \in Seq(Line)
  BY DEF ChatInv, TypeOK, Windowed, Numbered
<1> HIDE DEF R
<1>3. s \notin Full /\ \A t \in Full : t \in Seat /\ held[t] = "here"
  BY <1>1 DEF R, connected
<1>4. /\ held' \in [Seat -> {"free", "here", "closing", "away"}]
      /\ held'[s] = "free"
      /\ \A t \in Seat : t # s => held'[t] = IF t \in Full THEN "closing" ELSE held[t]
      /\ \A t \in Seat : t # s => (held'[t] = "free" <=> held[t] = "free")
      /\ \A t \in Seat : t # s => chatFrom'[t] = chatFrom[t]
      /\ chatFrom' \in [Seat -> 0 .. chatSeq]
  BY <1>1, <1>2, <1>3
<1>5. TypeOK'
  <2>1. lossless' \in [Seat -> BOOLEAN]
    BY <1>1, <1>2
  <2> QED BY <1>1, <1>2, <1>4, <2>1 DEF TypeOK
<1>6. /\ DOMAIN lines = DOMAIN chat /\ lines \in Seq(Line) /\ Len(lines) = Len(chat)
      /\ \A k \in DOMAIN chat :
            /\ lines[k].seq = chat[k].seq
            /\ lines[k].author = IF chat[k].author = s THEN Nobody ELSE chat[k].author
  <2>1. \A k \in DOMAIN chat : chat[k] \in Line
    BY <1>2
  <2>2. \A k \in DOMAIN chat : /\ lines[k] \in Line
                               /\ lines[k].seq = chat[k].seq
                               /\ lines[k].author = IF chat[k].author = s THEN Nobody ELSE chat[k].author
    BY <2>1 DEF Line
  <2>3. DOMAIN chat = 1 .. Len(chat) /\ Len(chat) \in Nat
    BY <1>2
  <2>4. lines = [k \in 1 .. Len(chat) |-> lines[k]]
    BY <2>3
  <2> HIDE DEF lines
  <2>5. lines \in Seq(Line) /\ Len(lines) = Len(chat)
    BY <2>2, <2>3, <2>4
  <2> QED BY <2>2, <2>3, <2>4, <2>5
<1> HIDE DEF lines
<1>7. Windowed(lines, chatSeq)
  BY <1>2, <1>6 DEF Windowed, Numbered
<1>8. Attributed(lines, held', chatFrom', said)
  <2> SUFFICES ASSUME NEW k \in DOMAIN chat
               PROVE  LET author == lines[k].author
                          sayer == said[lines[k].seq]
                      IN  /\ author # Nobody =>
                               /\ author = sayer
                               /\ held'[author] # "free" /\ lines[k].seq > chatFrom'[author]
                          /\ held'[sayer] # "free" /\ lines[k].seq > chatFrom'[sayer] =>
                               author = sayer
    BY <1>6 DEF Attributed
  <2>1. said[chat[k].seq] \in Seat
    BY LinesAreSaid
  <2>2. /\ chat[k].author # Nobody =>
             chat[k].author = said[chat[k].seq] /\ held[chat[k].author] # "free"
             /\ chat[k].seq > chatFrom[chat[k].author]
        /\ held[said[chat[k].seq]] # "free" /\ chat[k].seq > chatFrom[said[chat[k].seq]]
             => chat[k].author = said[chat[k].seq]
    BY DEF ChatInv, Attributed
  <2>3. /\ lines[k].seq = chat[k].seq
        /\ lines[k].author = IF chat[k].author = s THEN Nobody ELSE chat[k].author
    BY <1>6
  <2> QED BY <1>1, <1>4, <2>1, <2>2, <2>3
<1>9. ~ scrubbed => lines = chat
  <2>1. ~ scrubbed => \A k \in DOMAIN chat : chat[k].author # s
    OBVIOUS
  <2>2. chat = [k \in DOMAIN chat |-> chat[k]]
    BY <1>2
  <2> HIDE DEF scrubbed
  <2> QED BY <2>1, <2>2 DEF lines
<1>10. ASSUME NEW t \in Seat, held'[t] = "here"
       PROVE  /\ Shows(panel'[t], t, chatFrom'[t], chatSeq, said)
              /\ lossless'[t] => panel'[t] = history(lines, chatFrom'[t], t)
  <2>1. t # s /\ t \notin Full /\ held[t] = "here" /\ chatFrom'[t] = chatFrom[t]
        /\ chatFrom'[t] \in 0 .. chatSeq /\ t \in others
    BY <1>4, <1>10 DEF connected
  <2>2. CASE scrubbed
    <3>1. panel'[t] = history(lines, chatFrom'[t], t)
      BY <1>1, <2>1, <2>2 DEF R
    <3>2. Shows(history(lines, chatFrom'[t], t), t, chatFrom'[t], chatSeq, said)
      BY <1>7, <1>8, <1>10, <2>1, HistoryShows
    <3> QED BY <3>1, <3>2
  <2>3. CASE ~ scrubbed
    <3>1. panel'[t] = panel[t] /\ t \notin R \cup {s}
      BY <1>1, <2>1, <2>3 DEF R
    <3>2. lossless'[t] => lossless[t]
      BY <1>1, <3>1
    <3>3. /\ Shows(panel[t], t, chatFrom[t], chatSeq, said)
          /\ lossless[t] => panel[t] = history(chat, chatFrom[t], t)
      BY <2>1 DEF ChatInv, PanelsShow, connected
    <3> QED BY <1>9, <2>1, <2>3, <3>1, <3>2, <3>3
  <2> QED BY <2>2, <2>3
<1>11. PanelsShow'
  BY <1>1, <1>10 DEF PanelsShow, connected
<1>12. Windowed(chat', chatSeq') /\ Attributed(chat', held', chatFrom', said')
  BY <1>1, <1>7, <1>8
<1> QED BY <1>5, <1>11, <1>12 DEF ChatInv

----------------------------------------------------------------------------

\* What the room's window and every connected panel hold, in every reachable state.
THEOREM ChatInvariance == Spec => []ChatInv
<1>1. Init => ChatInv
  BY ChatStarts
<1>2. ChatInv /\ [Next]_vars => ChatInv'
  <2> SUFFICES ASSUME ChatInv, [Next]_vars PROVE ChatInv'
    OBVIOUS
  <2>1. CASE \E s \in Seat, dropped \in SUBSET Seat : handleChat(s, dropped)
    BY <2>1, ChatIsSaid
  <2>2. CASE \E s \in Seat, Full \in SUBSET Seat : handleJoin(s, Full) \/ handleResume(s, Full)
    BY <2>2, ChatIsReplayed
  <2>3. CASE \E s \in Seat, Full \in SUBSET Seat : vacate(s, Full)
    BY <2>3, ChatIsScrubbed
  <2>4. CASE \E s \in Seat : handleJoinDead(s) \/ handleDisconnect(s)
    BY <2>4, ChatIsCutOff
  <2>5. CASE UNCHANGED vars
    BY <2>5 DEF vars, ChatInv, TypeOK, PanelsShow, connected
  <2> QED BY <2>1, <2>2, <2>3, <2>4, <2>5 DEF Next
<1> QED BY <1>1, <1>2, PTL DEF Spec

\* A client shows nothing said before it sat down, marks as its own exactly what it said,
\* in order; and shows what a replay would, naming nobody who has gone, unless a live line
\* was dropped: for any number of seats, any window and any conversation.
THEOREM PanelsAreTrueAlways == Spec => []PanelsAreTrue
<1>1. ChatInv => PanelsAreTrue
  <2> SUFFICES ASSUME ChatInv, NEW s \in connected
               PROVE  /\ \A k \in DOMAIN panel[s] :
                            /\ panel[s][k].seq > chatFrom[s]
                            /\ panel[s][k].fromMe <=> said[panel[s][k].seq] = s
                            /\ \A m \in DOMAIN panel[s] : k < m => panel[s][k].seq < panel[s][m].seq
                      /\ lossless[s] => /\ panel[s] = history(chat, chatFrom[s], s)
                                        /\ namesThePresent(panel[s])
    BY DEF PanelsAreTrue
  <2>1. /\ Shows(panel[s], s, chatFrom[s], chatSeq, said)
        /\ lossless[s] => panel[s] = history(chat, chatFrom[s], s)
        /\ s \in Seat /\ chatFrom[s] \in 0 .. chatSeq
        /\ Windowed(chat, chatSeq)
    BY DEF ChatInv, TypeOK, PanelsShow, connected
  <2>2. \A k \in DOMAIN panel[s] :
            /\ panel[s][k].seq > chatFrom[s]
            /\ panel[s][k].fromMe <=> said[panel[s][k].seq] = s
            /\ \A m \in DOMAIN panel[s] : k < m => panel[s][k].seq < panel[s][m].seq
    BY <2>1 DEF Shows
  <2>3. ASSUME lossless[s], NEW k \in DOMAIN panel[s]
        PROVE  panel[s][k].author # Nobody =>
                 /\ held[panel[s][k].author] # "free"
                 /\ panel[s][k].seq > chatFrom[panel[s][k].author]
    <3> DEFINE h == history(chat, chatFrom[s], s)
    <3>1. \A i \in DOMAIN h : \E j \in DOMAIN chat : h[i] = chatMessageFor(chat[j], s)
      BY <2>1, HistorySays
    <3>2. panel[s] = h
      BY <2>1, <2>3
    <3> HIDE DEF h
    <3>3. PICK j \in DOMAIN chat : panel[s][k] = chatMessageFor(chat[j], s)
      BY <2>3, <3>1, <3>2
    <3>4. panel[s][k].author = chat[j].author /\ panel[s][k].seq = chat[j].seq
      BY <3>3, MessageIs
    <3> QED BY <3>4 DEF ChatInv, Attributed
  <2> QED BY <2>1, <2>2, <2>3 DEF namesThePresent
<1> QED BY <1>1, ChatInvariance, PTL
=============================================================================
