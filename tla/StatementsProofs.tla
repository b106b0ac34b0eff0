--------------------------- MODULE StatementsProofs ---------------------------
(***************************************************************************)
(* Lemmas about the statements that programs are composed of: a program    *)
(* built by them from instructions of a set J and conditions of a set C    *)
(* has no other instructions, and none of its jumps leaves it.  The second *)
(* part is about where the instructions of a text are in a program that    *)
(* contains it; the last, about sequences that grow and shrink at an end.  *)
(***************************************************************************)
EXTENDS Statements, SequenceTheorems, TLAPS

JumpOps  == {"unless", "goto"}
Jumps(C) == [op : {"unless"}, cond : C, by : Int] \cup [op : {"goto"}, by : Int]

\* A jump may end behind the last instruction, where the next statement begins.
Inside(s, k) == s[k].op \in JumpOps => s[k].by \in Int /\ k + s[k].by \in 1 .. Len(s) + 1
Code(s, J, C) ==
  s \in Seq(J \cup Jumps(C)) /\ \A k \in 1 .. Len(s) : Inside(s, k)

LEMMA EmptyCode == ASSUME NEW J, NEW C PROVE Code(<<>>, J, C)
BY EmptySeq DEF Code

LEMMA OneCode ==
  ASSUME NEW J, NEW C, NEW i \in J, i.op \notin JumpOps
  PROVE  Code(<<i>>, J, C)
<1>1. <<i>> \in Seq(J \cup Jumps(C)) /\ Len(<<i>>) = 1 /\ <<i>>[1] = i
  OBVIOUS
<1> QED BY <1>1 DEF Code, Inside

LEMMA ConcatCode ==
  ASSUME NEW J, NEW C, NEW a, NEW b, Code(a, J, C), Code(b, J, C)
  PROVE  Code(a \o b, J, C)
<1> DEFINE S == J \cup Jumps(C)
<1>1. a \in Seq(S) /\ b \in Seq(S)
  BY DEF Code
<1>2. Len(a) \in Nat /\ Len(b) \in Nat
  BY <1>1, LenProperties
<1> HIDE DEF S
<1>3. /\ a \o b \in Seq(S) /\ Len(a \o b) = Len(a) + Len(b)
      /\ \A k \in 1 .. Len(a) + Len(b) :
           (a \o b)[k] = IF k <= Len(a) THEN a[k] ELSE b[k - Len(a)]
  BY <1>1, ConcatProperties
<1>4. ASSUME NEW k \in 1 .. Len(a \o b) PROVE Inside(a \o b, k)
  <2>1. CASE k <= Len(a)
    <3>1. Inside(a, k) /\ (a \o b)[k] = a[k]
      BY <1>2, <1>3, <2>1 DEF Code
    <3> QED BY <1>2, <1>3, <2>1, <3>1 DEF Inside
  <2>2. CASE k > Len(a)
    <3> DEFINE j == k - Len(a)
    <3>1. j \in 1 .. Len(b) /\ (a \o b)[k] = b[j]
      BY <1>2, <1>3, <2>2
    <3>2. Inside(b, j)
      BY <3>1 DEF Code
    <3> QED BY <1>2, <1>3, <2>2, <3>1, <3>2 DEF Inside
  <2> QED BY <1>2, <1>3, <2>1, <2>2
<1> QED BY <1>3, <1>4 DEF Code, S

\* The length of a statement made of three, and its instructions by their place.
LEMMA Three ==
  ASSUME NEW S, NEW a \in Seq(S), NEW b \in Seq(S), NEW c \in Seq(S)
  PROVE  /\ a \o b \o c \in Seq(S) /\ Len(a \o b \o c) = Len(a) + Len(b) + Len(c)
         /\ \A k \in 1 .. Len(a) : (a \o b \o c)[k] = a[k]
         /\ \A k \in 1 .. Len(b) : (a \o b \o c)[Len(a) + k] = b[k]
         /\ \A k \in 1 .. Len(c) : (a \o b \o c)[Len(a) + Len(b) + k] = c[k]
<1>1. Len(a) \in Nat /\ Len(b) \in Nat /\ Len(c) \in Nat
  BY LenProperties
<1>2. /\ a \o b \in Seq(S) /\ Len(a \o b) = Len(a) + Len(b)
      /\ \A k \in 1 .. Len(a) + Len(b) : (a \o b)[k] = IF k <= Len(a) THEN a[k] ELSE b[k - Len(a)]
  BY ConcatProperties
<1> DEFINE d == a \o b
<1> HIDE DEF d
<1>3. /\ d \o c \in Seq(S) /\ Len(d \o c) = Len(d) + Len(c)
      /\ \A k \in 1 .. Len(d) + Len(c) : (d \o c)[k] = IF k <= Len(d) THEN d[k] ELSE c[k - Len(d)]
  BY <1>2, ConcatProperties DEF d
<1> QED BY <1>1, <1>2, <1>3 DEF d

\* A statement is code if its instructions are and no jump of it leaves it.
LEMMA WhileCode ==
  ASSUME NEW J, NEW C, NEW c \in C, NEW body, Code(body, J, C)
  PROVE  Code(While(c, body), J, C)
<1> DEFINE S == J \cup Jumps(C)
           n == Len(body)
           a == Unless(c, n + 2)
           z == Goto(-(n + 1))
           s == While(c, body)
<1>1. body \in Seq(S) /\ n \in Nat
  BY LenProperties DEF Code
<1>2. /\ a \in Seq(S) /\ Len(a) = 1 /\ a[1].op = "unless" /\ a[1].by = n + 2
      /\ z \in Seq(S) /\ Len(z) = 1 /\ z[1].op = "goto" /\ z[1].by = -(n + 1)
  BY <1>1 DEF Unless, Goto, Jumps
<1>3. s = a \o body \o z
  BY DEF While
<1> HIDE DEF S, a, z, s
<1>4. /\ s \in Seq(S) /\ Len(s) = n + 2 /\ s[1] = a[1] /\ s[n + 2] = z[1]
      /\ \A k \in 1 .. n : s[1 + k] = body[k]
  <2>1. /\ s \in Seq(S) /\ Len(s) = 1 + n + 1
        /\ \A k \in 1 .. 1 : s[k] = a[k]
        /\ \A k \in 1 .. n : s[1 + k] = body[k]
        /\ \A k \in 1 .. 1 : s[1 + n + k] = z[k]
    <3>0. a \in Seq(S) /\ body \in Seq(S) /\ z \in Seq(S)
      BY <1>1, <1>2
    <3>1. a \o body \o z \in Seq(S) /\ Len(a \o body \o z) = Len(a) + Len(body) + Len(z)
      BY <3>0, Three
    <3>2. \A k \in 1 .. Len(a) : (a \o body \o z)[k] = a[k]
      BY <3>0, Three
    <3>3. \A k \in 1 .. Len(body) : (a \o body \o z)[Len(a) + k] = body[k]
      BY <3>0, Three
    <3>4. \A k \in 1 .. Len(z) : (a \o body \o z)[Len(a) + Len(body) + k] = z[k]
      BY <3>0, Three
    <3> QED BY <1>2, <1>3, <3>1, <3>2, <3>3, <3>4
  <2>2. 1 \in 1 .. 1 /\ 1 + n + 1 = n + 2
    BY <1>1
  <2> QED BY <2>1, <2>2
<1>5. ASSUME NEW k \in 1 .. n PROVE Inside(s, 1 + k)
  <2>1. Inside(body, k)
    BY DEF Code
  <2> QED BY <1>1, <1>4, <2>1 DEF Inside
<1>6. Inside(s, 1) /\ Inside(s, n + 2)
  BY <1>1, <1>2, <1>4 DEF Inside
<1>7. ASSUME NEW k \in 1 .. n + 2 PROVE Inside(s, k)
  <2>1. k = 1 \/ k = n + 2 \/ (k - 1 \in 1 .. n /\ 1 + (k - 1) = k)
    BY <1>1
  <2> QED BY <1>5, <1>6, <2>1
<1> QED BY <1>4, <1>7 DEF Code, S, s

LEMMA IfCode ==
  ASSUME NEW J, NEW C, NEW c \in C, NEW body, Code(body, J, C)
  PROVE  Code(If(c, body), J, C)
<1>1. body \in Seq(J \cup Jumps(C)) /\ Len(body) \in Nat
  BY LenProperties DEF Code
<1> DEFINE S == J \cup Jumps(C)
           n == Len(body)
           a == Unless(c, n + 1)
           s == If(c, body)
<1>2. a \in Seq(S) /\ Len(a) = 1 /\ a[1].op = "unless" /\ a[1].by = n + 1
  BY <1>1 DEF Unless, Jumps
<1>3. s = a \o body
  BY DEF If
<1> HIDE DEF S, a, s
<1>4. /\ s \in Seq(S) /\ Len(s) = n + 1 /\ s[1] = a[1]
      /\ \A k \in 1 .. n + 1 : k > 1 => s[k] = body[k - 1]
  BY <1>1, <1>2, <1>3, ConcatProperties DEF S
<1>5. ASSUME NEW k \in 1 .. n + 1 PROVE Inside(s, k)
  <2>1. CASE k = 1
    BY <1>1, <1>2, <1>4, <2>1 DEF Inside
  <2>2. CASE k > 1
    <3>1. Inside(body, k - 1)
      BY <1>1, <2>2 DEF Code
    <3> QED BY <1>1, <1>4, <2>2, <3>1 DEF Inside
  <2> QED BY <1>1, <2>1, <2>2
<1> QED BY <1>4, <1>5 DEF Code, S, s

LEMMA RepeatCode ==
  ASSUME NEW J, NEW C, NEW c \in C, NEW body, Code(body, J, C)
  PROVE  Code(Repeat(body, c), J, C)
<1>1. body \in Seq(J \cup Jumps(C)) /\ Len(body) \in Nat
  BY LenProperties DEF Code
<1> DEFINE S == J \cup Jumps(C)
           n == Len(body)
           z == Unless(c, -n)
           s == Repeat(body, c)
<1>2. z \in Seq(S) /\ Len(z) = 1 /\ z[1].op = "unless" /\ z[1].by = -n
  BY <1>1 DEF Unless, Jumps
<1>3. s = body \o z
  BY DEF Repeat
<1> HIDE DEF S, z, s
<1>4. /\ s \in Seq(S) /\ Len(s) = n + 1 /\ s[n + 1] = z[1]
      /\ \A k \in 1 .. n : s[k] = body[k]
  <2>1. /\ s \in Seq(S) /\ Len(s) = n + 1
        /\ \A k \in 1 .. n + 1 : s[k] = IF k <= n THEN body[k] ELSE z[k - n]
    <3>1. /\ body \o z \in Seq(S) /\ Len(body \o z) = n + Len(z)
          /\ \A k \in 1 .. n + Len(z) : (body \o z)[k] = IF k <= n THEN body[k] ELSE z[k - n]
      BY <1>1, <1>2, ConcatProperties DEF S
    <3> QED BY <1>2, <1>3, <3>1
  <2>2. n + 1 \in 1 .. n + 1 /\ ~(n + 1 <= n) /\ (n + 1) - n = 1
    BY <1>1
  <2>3. \A k \in 1 .. n : k \in 1 .. n + 1 /\ k <= n
    BY <1>1
  <2> QED BY <2>1, <2>2, <2>3
<1>5. ASSUME NEW k \in 1 .. n + 1 PROVE Inside(s, k)
  <2>1. CASE k = n + 1
    BY <1>1, <1>2, <1>4, <2>1 DEF Inside
  <2>2. CASE k <= n
    <3>1. Inside(body, k)
      BY <1>1, <2>2 DEF Code
    <3> QED BY <1>1, <1>4, <2>2, <3>1 DEF Inside
  <2> QED BY <1>1, <2>1, <2>2
<1> QED BY <1>4, <1>5 DEF Code, S, s

LEMMA IfElseCode ==
  ASSUME NEW J, NEW C, NEW c \in C, NEW a, NEW b, Code(a, J, C), Code(b, J, C)
  PROVE  Code(IfElse(c, a, b), J, C)
<1> DEFINE S == J \cup Jumps(C)
           m == Len(a)
           n == Len(b)
           u == Unless(c, m + 2)
           g == Goto(n + 1)
           p == u \o a \o g
           s == IfElse(c, a, b)
<1>1. a \in Seq(S) /\ m \in Nat /\ b \in Seq(S) /\ n \in Nat
  <2>1. a \in Seq(S) /\ b \in Seq(S)
    BY DEF Code
  <2> QED BY <2>1, LenProperties
<1>2. /\ u \in Seq(S) /\ Len(u) = 1 /\ u[1].op = "unless" /\ u[1].by = m + 2
      /\ g \in Seq(S) /\ Len(g) = 1 /\ g[1].op = "goto" /\ g[1].by = n + 1
  BY <1>1 DEF Unless, Goto, Jumps
<1>3. s = p \o b
  BY DEF IfElse
<1> HIDE DEF S, u, g, s
<1>4. /\ p \in Seq(S) /\ Len(p) = m + 2 /\ p[1] = u[1] /\ p[m + 2] = g[1]
      /\ \A k \in 1 .. m : p[1 + k] = a[k]
  <2>1. /\ p \in Seq(S) /\ Len(p) = 1 + m + 1
        /\ \A k \in 1 .. 1 : p[k] = u[k]
        /\ \A k \in 1 .. m : p[1 + k] = a[k]
        /\ \A k \in 1 .. 1 : p[1 + m + k] = g[k]
    <3>0. u \in Seq(S) /\ a \in Seq(S) /\ g \in Seq(S)
      BY <1>1, <1>2
    <3>1. u \o a \o g \in Seq(S) /\ Len(u \o a \o g) = Len(u) + Len(a) + Len(g)
      BY <3>0, Three
    <3>2. \A k \in 1 .. Len(u) : (u \o a \o g)[k] = u[k]
      BY <3>0, Three
    <3>3. \A k \in 1 .. Len(a) : (u \o a \o g)[Len(u) + k] = a[k]
      BY <3>0, Three
    <3>4. \A k \in 1 .. Len(g) : (u \o a \o g)[Len(u) + Len(a) + k] = g[k]
      BY <3>0, Three
    <3> QED BY <1>2, <3>1, <3>2, <3>3, <3>4
  <2>2. 1 \in 1 .. 1 /\ 1 + m + 1 = m + 2
    BY <1>1
  <2> QED BY <2>1, <2>2
<1> HIDE DEF p
<1>5. /\ s \in Seq(S) /\ Len(s) = m + 2 + n
      /\ \A k \in 1 .. m + 2 + n : s[k] = IF k <= m + 2 THEN p[k] ELSE b[k - (m + 2)]
  <2>1. /\ s \in Seq(S) /\ Len(s) = Len(p) + n
        /\ \A k \in 1 .. Len(p) + n : s[k] = IF k <= Len(p) THEN p[k] ELSE b[k - Len(p)]
    BY <1>1, <1>3, <1>4, ConcatProperties
  <2> QED BY <1>4, <2>1
<1>6. s[1] = u[1] /\ s[m + 2] = g[1] /\ \A k \in 1 .. m : s[1 + k] = a[k]
  BY <1>1, <1>4, <1>5
<1>7. ASSUME NEW k \in 1 .. m PROVE Inside(s, 1 + k)
  <2>1. Inside(a, k)
    BY DEF Code
  <2> QED BY <1>1, <1>5, <1>6, <2>1 DEF Inside
<1>8. ASSUME NEW k \in 1 .. n PROVE Inside(s, k + m + 2)
  <2>1. Inside(b, k)
    BY DEF Code
  <2>2. s[k + m + 2] = b[k]
    BY <1>1, <1>5
  <2>3. Len(s) = n + m + 2
    BY <1>1, <1>5
  <2> QED BY <1>1, <2>1, <2>2, <2>3 DEF Inside
<1>9. Inside(s, 1) /\ Inside(s, m + 2)
  BY <1>1, <1>2, <1>5, <1>6 DEF Inside
<1>10. ASSUME NEW k \in 1 .. m + 2 + n PROVE Inside(s, k)
  <2>1. \/ k = 1 \/ k = m + 2 \/ (k - 1 \in 1 .. m /\ 1 + (k - 1) = k)
        \/ (k - (m + 2) \in 1 .. n /\ (k - (m + 2)) + m + 2 = k)
    BY <1>1
  <2> QED BY <1>7, <1>8, <1>9, <2>1
<1> QED BY <1>5, <1>10 DEF Code, S, s

-----------------------------------------------------------------------------
(* A program: code that ends in an instruction which goes no further.      *)

EndsIn(s, J, C, last) ==
  /\ Len(s) \in Nat \ {0} /\ s[Len(s)] = last
  /\ \A k \in 1 .. Len(s) :
       /\ s[k] \in J \cup Jumps(C)
       /\ k # Len(s) /\ s[k].op \in JumpOps => s[k].by \in Int /\ k + s[k].by \in 1 .. Len(s)

LEMMA EndedCode ==
  ASSUME NEW J, NEW C, NEW b, Code(b, J, C), NEW i \in J
  PROVE  EndsIn(b \o <<i>>, J, C, i)
<1> DEFINE S == J \cup Jumps(C)
           z == <<i>>
           s == b \o z
<1>1. b \in Seq(S) /\ Len(b) \in Nat
  <2>1. b \in Seq(S)
    BY DEF Code
  <2> QED BY <2>1, LenProperties
<1>2. z \in Seq(S) /\ Len(z) = 1 /\ z[1] = i
  OBVIOUS
<1> HIDE DEF S, z
<1>3. /\ s \in Seq(S) /\ Len(s) = Len(b) + Len(z)
      /\ \A k \in 1 .. Len(b) + Len(z) : s[k] = IF k <= Len(b) THEN b[k] ELSE z[k - Len(b)]
  BY <1>1, <1>2, ConcatProperties
<1> HIDE DEF s
<1>4. Len(s) = Len(b) + 1 /\ s[Len(b) + 1] = i
  BY <1>1, <1>2, <1>3
<1>5. ASSUME NEW k \in 1 .. Len(s), k # Len(s), s[k].op \in JumpOps
      PROVE  s[k].by \in Int /\ k + s[k].by \in 1 .. Len(s)
  <2>1. k \in 1 .. Len(b) /\ s[k] = b[k]
    BY <1>1, <1>3, <1>4, <1>5
  <2>2. Inside(b, k)
    BY <2>1 DEF Code
  <2> QED BY <1>4, <1>5, <2>1, <2>2 DEF Inside
<1>6. ASSUME NEW k \in 1 .. Len(s) PROVE s[k] \in S
  BY <1>3, ElementOfSeq
<1>7. Len(s) \in Nat \ {0} /\ s[Len(s)] = i
  BY <1>1, <1>4
<1> QED BY <1>5, <1>6, <1>7 DEF EndsIn, S, s, z

LEMMA MoreEndsIn ==
  ASSUME NEW J, NEW J1, NEW C, NEW s, NEW i, J \subseteq J1, EndsIn(s, J, C, i)
  PROVE  EndsIn(s, J1, C, i)
BY DEF EndsIn

-----------------------------------------------------------------------------
(* A program in two phases: its first K instructions are of J1, the others *)
(* of J2, and no jump leads back from the second phase to the first.       *)

Phased(s, J1, J2, C, K) ==
  /\ Code(s, J1 \cup J2, C) /\ K \in 0 .. Len(s)
  /\ \A k \in 1 .. Len(s) :
       IF k <= K THEN s[k] \in J1 \cup Jumps(C)
                 ELSE /\ s[k] \in J2 \cup Jumps(C)
                      /\ s[k].op \in JumpOps => k + s[k].by > K

LEMMA MoreCode ==
  ASSUME NEW J, NEW J1, NEW C, NEW s, J \subseteq J1, Code(s, J, C)
  PROVE  Code(s, J1, C)
<1> DEFINE S == J \cup Jumps(C)
           T == J1 \cup Jumps(C)
<1>1. s \in Seq(S) /\ \A k \in 1 .. Len(s) : Inside(s, k)
  BY DEF Code
<1>2. S \subseteq T
  OBVIOUS
<1> HIDE DEF S, T
<1>3. s \in Seq(T)
  BY <1>1, <1>2
<1> QED BY <1>1, <1>3 DEF Code, T

LEMMA FirstPhase ==
  ASSUME NEW J1, NEW J2, NEW C, NEW a, Code(a, J1, C)
  PROVE  Phased(a, J1, J2, C, Len(a))
<1>1. Code(a, J1 \cup J2, C)
  BY MoreCode
<1>2. a \in Seq(J1 \cup Jumps(C)) /\ Len(a) \in Nat
  BY LenProperties DEF Code
<1>3. \A k \in 1 .. Len(a) : a[k] \in J1 \cup Jumps(C)
  BY <1>2, ElementOfSeq
<1> QED BY <1>1, <1>2, <1>3 DEF Phased

LEMMA LongerFirstPhase ==
  ASSUME NEW J1, NEW J2, NEW C, NEW a, Code(a, J1, C), NEW s, NEW K, Phased(s, J1, J2, C, K)
  PROVE  Phased(a \o s, J1, J2, C, Len(a) + K)
<1> DEFINE S == J1 \cup J2 \cup Jumps(C)
           n == Len(a)
           t == a \o s
<1>1. Code(a, J1 \cup J2, C) /\ Code(s, J1 \cup J2, C)
  BY MoreCode DEF Phased
<1>2. a \in Seq(S) /\ s \in Seq(S) /\ n \in Nat /\ Len(s) \in Nat /\ K \in 0 .. Len(s)
  <2>1. a \in Seq(S) /\ s \in Seq(S)
    BY <1>1 DEF Code
  <2> QED BY <2>1, LenProperties DEF Phased
<1>3. \A k \in 1 .. n : a[k] \in J1 \cup Jumps(C)
  <2>1. a \in Seq(J1 \cup Jumps(C))
    BY DEF Code
  <2> QED BY <2>1, ElementOfSeq
<1> HIDE DEF S
<1>4. /\ Len(t) = n + Len(s)
      /\ \A k \in 1 .. n + Len(s) : t[k] = IF k <= n THEN a[k] ELSE s[k - n]
  BY <1>2, ConcatProperties
<1>5. Code(t, J1 \cup J2, C)
  BY <1>1, ConcatCode
<1> HIDE DEF t, n
<1>6. ASSUME NEW k \in 1 .. Len(t)
      PROVE  IF k <= n + K THEN t[k] \in J1 \cup Jumps(C)
             ELSE /\ t[k] \in J2 \cup Jumps(C)
                  /\ t[k].op \in JumpOps => k + t[k].by > n + K
  <2>1. CASE k <= n
    BY <1>2, <1>3, <1>4, <2>1
  <2>2. CASE k > n
    <3> DEFINE j == k - n
    <3>1. j \in 1 .. Len(s) /\ t[k] = s[j] /\ k = j + n /\ j \in Int
      BY <1>2, <1>4, <2>2
    <3>2. /\ IF j <= K THEN s[j] \in J1 \cup Jumps(C)
             ELSE s[j] \in J2 \cup Jumps(C) /\ (s[j].op \in JumpOps => j + s[j].by > K)
          /\ s[j].op \in JumpOps => s[j].by \in Int
      BY <3>1 DEF Phased, Code, Inside
    <3> HIDE DEF j
    <3> QED BY <1>2, <3>1, <3>2
  <2> QED BY <1>2, <1>4, <2>1, <2>2
<1> QED BY <1>2, <1>4, <1>5, <1>6 DEF Phased, t, n

LEMMA LongerSecondPhase ==
  ASSUME NEW J1, NEW J2, NEW C, NEW b, Code(b, J2, C), NEW s, NEW K, Phased(s, J1, J2, C, K)
  PROVE  Phased(s \o b, J1, J2, C, K)
<1> DEFINE S == J1 \cup J2 \cup Jumps(C)
           n == Len(s)
           t == s \o b
<1>1. Code(b, J1 \cup J2, C) /\ Code(s, J1 \cup J2, C)
  BY MoreCode DEF Phased
<1>2. b \in Seq(S) /\ s \in Seq(S) /\ n \in Nat /\ Len(b) \in Nat /\ K \in 0 .. n
  <2>1. b \in Seq(S) /\ s \in Seq(S)
    BY <1>1 DEF Code
  <2> QED BY <2>1, LenProperties DEF Phased
<1>3. \A k \in 1 .. Len(b) : b[k] \in J2 \cup Jumps(C) /\ Inside(b, k)
  <2>1. b \in Seq(J2 \cup Jumps(C)) /\ \A k \in 1 .. Len(b) : Inside(b, k)
    BY DEF Code
  <2> QED BY <2>1, ElementOfSeq
<1> HIDE DEF S
<1>4. /\ Len(t) = n + Len(b)
      /\ \A k \in 1 .. n + Len(b) : t[k] = IF k <= n THEN s[k] ELSE b[k - n]
  BY <1>2, ConcatProperties
<1>5. Code(t, J1 \cup J2, C)
  BY <1>1, ConcatCode
<1>6. \A k \in 1 .. n : IF k <= K THEN s[k] \in J1 \cup Jumps(C)
                        ELSE s[k] \in J2 \cup Jumps(C) /\ (s[k].op \in JumpOps => k + s[k].by > K)
  BY DEF Phased
<1> HIDE DEF t, n
<1>7. ASSUME NEW k \in 1 .. Len(t)
      PROVE  IF k <= K THEN t[k] \in J1 \cup Jumps(C)
             ELSE /\ t[k] \in J2 \cup Jumps(C)
                  /\ t[k].op \in JumpOps => k + t[k].by > K
  <2>1. CASE k <= n
    BY <1>2, <1>4, <1>6, <2>1
  <2>2. CASE k > n
    <3> DEFINE j == k - n
    <3>1. j \in 1 .. Len(b) /\ t[k] = b[j] /\ k = j + n /\ j \in Int
      BY <1>2, <1>4, <2>2
    <3>2. /\ b[j] \in J2 \cup Jumps(C)
          /\ b[j].op \in JumpOps => b[j].by \in Int /\ j + b[j].by >= 1
      BY <1>2, <1>3, <3>1 DEF Inside
    <3> HIDE DEF j
    <3> QED BY <1>2, <2>2, <3>1, <3>2
  <2> QED BY <1>2, <1>4, <2>1, <2>2
<1> QED BY <1>2, <1>4, <1>5, <1>7 DEF Phased, t, n

LEMMA EndedPhases ==
  ASSUME NEW J1, NEW J2, NEW C, NEW s, NEW K, Phased(s, J1, J2, C, K),
         NEW i \in J2, i.op \notin JumpOps
  PROVE  /\ EndsIn(s \o <<i>>, J1 \cup J2, C, i)
         /\ Phased(s \o <<i>>, J1, J2, C, K)
<1>1. Code(<<i>>, J2, C)
  BY OneCode
<1>2. Code(s, J1 \cup J2, C) /\ i \in J1 \cup J2
  BY DEF Phased
<1> QED BY <1>1, <1>2, EndedCode, LongerSecondPhase

-----------------------------------------------------------------------------
(* Where an instruction of a text is: a text is at offset o of a program s if *)
(* it is spelled from the instruction behind o on.                            *)
IsText(t) == \E S : t \in Seq(S)
Holding(s, o, t) == \A j \in 1 .. Len(t) : s[o + j] = t[j]

LEMMA TextParts ==
  ASSUME NEW a, NEW b, IsText(a), IsText(b)
  PROVE  /\ IsText(a \o b)
         /\ Len(a) \in Nat /\ Len(b) \in Nat /\ Len(a \o b) = Len(a) + Len(b)
         /\ \A s : \A o \in Int : Holding(s, o, a \o b) => Holding(s, o, a) /\ Holding(s, o + Len(a), b)
<1>1. PICK A : a \in Seq(A)
  BY DEF IsText
<1>2. PICK B : b \in Seq(B)
  BY DEF IsText
<1> DEFINE S == A \cup B
<1>3. a \in Seq(S) /\ b \in Seq(S)
  BY <1>1, <1>2
<1> HIDE DEF S
<1>4. Len(a) \in Nat /\ Len(b) \in Nat
  BY <1>3, LenProperties
<1>5. /\ a \o b \in Seq(S) /\ Len(a \o b) = Len(a) + Len(b)
      /\ \A k \in 1 .. Len(a) + Len(b) : (a \o b)[k] = IF k <= Len(a) THEN a[k] ELSE b[k - Len(a)]
  BY <1>3, ConcatProperties
<1> DEFINE t == a \o b
<1> HIDE DEF t
<1>6. ASSUME NEW s, NEW o \in Int, Holding(s, o, t)
      PROVE  Holding(s, o, a) /\ Holding(s, o + Len(a), b)
  <2>1. \A k \in 1 .. Len(a) + Len(b) : s[o + k] = t[k]
    BY <1>5, <1>6 DEF Holding, t
  <2>2. \A j \in 1 .. Len(a) : s[o + j] = a[j]
    BY <1>4, <1>5, <2>1 DEF t
  <2>3. ASSUME NEW j \in 1 .. Len(b) PROVE s[(o + Len(a)) + j] = b[j]
    <3>1. Len(a) + j \in 1 .. Len(a) + Len(b) /\ ~(Len(a) + j <= Len(a)) /\ (Len(a) + j) - Len(a) = j
      BY <1>4
    <3>2. s[o + (Len(a) + j)] = t[Len(a) + j]
      BY <2>1, <3>1
    <3>3. t[Len(a) + j] = b[j]
      BY <1>5, <3>1 DEF t
    <3>4. o + (Len(a) + j) = (o + Len(a)) + j
      BY <1>4
    <3> QED BY <3>2, <3>3, <3>4
  <2> QED BY <2>2, <2>3 DEF Holding
<1> QED BY <1>4, <1>5, <1>6 DEF IsText, t

\* The text of a text that has been put together to be a sequence of instructions.
LEMMA CodeIsText ==
  ASSUME NEW s, NEW J, NEW C, Code(s, J, C) PROVE IsText(s) /\ Len(s) \in Nat
<1>1. s \in Seq(J \cup Jumps(C))
  BY DEF Code
<1> QED BY <1>1, LenProperties DEF IsText

LEMMA OneInstruction ==
  ASSUME NEW i
  PROVE  /\ IsText(<<i>>) /\ Len(<<i>>) = 1
         /\ \A s, o : Holding(s, o, <<i>>) => s[o + 1] = i
<1>1. <<i>> \in Seq({i}) /\ Len(<<i>>) = 1 /\ <<i>>[1] = i /\ 1 \in 1 .. 1
  OBVIOUS
<1> QED BY <1>1 DEF IsText, Holding

\* A text of several parts.
Parts4(t, a, b, c, d) ==
  /\ IsText(t) /\ Len(t) = Len(a) + Len(b) + Len(c) + Len(d)
  /\ \A s : \A o \in Int : Holding(s, o, t) =>
       /\ Holding(s, o, a) /\ Holding(s, o + Len(a), b) /\ Holding(s, o + Len(a) + Len(b), c)
       /\ Holding(s, o + Len(a) + Len(b) + Len(c), d)

LEMMA FourParts ==
  ASSUME NEW a, NEW b, NEW c, NEW d, IsText(a), IsText(b), IsText(c), IsText(d)
  PROVE  Parts4(a \o b \o c \o d, a, b, c, d)
<1> DEFINE ab == a \o b
           abc == ab \o c
           t == abc \o d
<1>1. /\ IsText(ab) /\ Len(a) \in Nat /\ Len(b) \in Nat /\ Len(ab) = Len(a) + Len(b)
      /\ \A s : \A o \in Int : Holding(s, o, ab) => Holding(s, o, a) /\ Holding(s, o + Len(a), b)
  BY TextParts
<1> HIDE DEF ab
<1>2. /\ IsText(abc) /\ Len(c) \in Nat /\ Len(abc) = Len(ab) + Len(c)
      /\ \A s : \A o \in Int : Holding(s, o, abc) => Holding(s, o, ab) /\ Holding(s, o + Len(ab), c)
  BY <1>1, TextParts
<1> HIDE DEF abc
<1>3. /\ IsText(t) /\ Len(d) \in Nat /\ Len(t) = Len(abc) + Len(d)
      /\ \A s : \A o \in Int : Holding(s, o, t) => Holding(s, o, abc) /\ Holding(s, o + Len(abc), d)
  BY <1>2, TextParts
<1> HIDE DEF t
<1>4. Len(t) = Len(a) + Len(b) + Len(c) + Len(d)
  BY <1>1, <1>2, <1>3
<1>5. ASSUME NEW s, NEW o \in Int, Holding(s, o, t)
      PROVE  /\ Holding(s, o, a) /\ Holding(s, o + Len(a), b) /\ Holding(s, o + Len(a) + Len(b), c)
             /\ Holding(s, o + Len(a) + Len(b) + Len(c), d)
  <2>1. Holding(s, o, abc) /\ Holding(s, o + Len(abc), d) /\ Holding(s, o, ab) /\ Holding(s, o + Len(ab), c)
    BY <1>2, <1>3, <1>5
  <2>2. /\ o + Len(abc) = o + Len(a) + Len(b) + Len(c)
        /\ o + Len(ab) = o + Len(a) + Len(b)
    BY <1>1, <1>2
  <2> QED BY <1>1, <2>1, <2>2
<1>6. Parts4(t, a, b, c, d)
  BY <1>3, <1>4, <1>5 DEF Parts4
<1> QED BY <1>6 DEF t, abc, ab

Parts5(t, a, b, c, d, e) ==
  /\ IsText(t) /\ Len(t) = Len(a) + Len(b) + Len(c) + Len(d) + Len(e)
  /\ \A s : \A o \in Int : Holding(s, o, t) =>
       /\ Holding(s, o, a) /\ Holding(s, o + Len(a), b) /\ Holding(s, o + Len(a) + Len(b), c)
       /\ Holding(s, o + Len(a) + Len(b) + Len(c), d)
       /\ Holding(s, o + Len(a) + Len(b) + Len(c) + Len(d), e)

LEMMA FiveParts ==
  ASSUME NEW a, NEW b, NEW c, NEW d, NEW e,
         IsText(a), IsText(b), IsText(c), IsText(d), IsText(e)
  PROVE  Parts5(a \o b \o c \o d \o e, a, b, c, d, e)
<1> DEFINE f == a \o b \o c \o d
           t == f \o e
<1>1. Parts4(f, a, b, c, d)
  BY FourParts
<1>2. Len(a) \in Nat /\ Len(b) \in Nat /\ Len(c) \in Nat /\ Len(d) \in Nat
  BY TextParts
<1> HIDE DEF f
<1>3. /\ IsText(f) /\ Len(f) = Len(a) + Len(b) + Len(c) + Len(d)
      /\ \A s : \A o \in Int : Holding(s, o, f) =>
           /\ Holding(s, o, a) /\ Holding(s, o + Len(a), b) /\ Holding(s, o + Len(a) + Len(b), c)
           /\ Holding(s, o + Len(a) + Len(b) + Len(c), d)
  BY <1>1 DEF Parts4
<1>4. /\ IsText(t) /\ Len(e) \in Nat /\ Len(t) = Len(f) + Len(e)
      /\ \A s : \A o \in Int : Holding(s, o, t) => Holding(s, o, f) /\ Holding(s, o + Len(f), e)
  BY <1>3, TextParts
<1> HIDE DEF t
<1>5. ASSUME NEW s, NEW o \in Int, Holding(s, o, t)
      PROVE  /\ Holding(s, o, a) /\ Holding(s, o + Len(a), b) /\ Holding(s, o + Len(a) + Len(b), c)
             /\ Holding(s, o + Len(a) + Len(b) + Len(c), d)
             /\ Holding(s, o + Len(a) + Len(b) + Len(c) + Len(d), e)
  <2>1. Holding(s, o, f) /\ Holding(s, o + Len(f), e)
    BY <1>4, <1>5
  <2>2. o + Len(f) = o + Len(a) + Len(b) + Len(c) + Len(d)
    BY <1>2, <1>3
  <2> QED BY <1>3, <2>1, <2>2
<1>6. Parts5(t, a, b, c, d, e)
  BY <1>3, <1>4, <1>5 DEF Parts5
<1> QED BY <1>6 DEF t, f

\* A text of four instructions.
Four(t, i, j, k, l) ==
  /\ IsText(t) /\ Len(t) = 4
  /\ \A s : \A o \in Int : Holding(s, o, t) =>
       s[o + 1] = i /\ s[o + 2] = j /\ s[o + 3] = k /\ s[o + 4] = l

LEMMA FourInstructions ==
  ASSUME NEW i, NEW j, NEW k, NEW l
  PROVE  Four(<<i>> \o <<j>> \o <<k>> \o <<l>>, i, j, k, l)
<1> DEFINE a == <<i>>
           b == <<j>>
           c == <<k>>
           d == <<l>>
           t == a \o b \o c \o d
<1>1. /\ IsText(a) /\ Len(a) = 1 /\ \A s, o : Holding(s, o, a) => s[o + 1] = i
      /\ IsText(b) /\ Len(b) = 1 /\ \A s, o : Holding(s, o, b) => s[o + 1] = j
      /\ IsText(c) /\ Len(c) = 1 /\ \A s, o : Holding(s, o, c) => s[o + 1] = k
      /\ IsText(d) /\ Len(d) = 1 /\ \A s, o : Holding(s, o, d) => s[o + 1] = l
  BY OneInstruction
<1> HIDE DEF a, b, c, d
<1>2. Parts4(t, a, b, c, d)
  BY <1>1, FourParts
<1> HIDE DEF t
<1>3. ASSUME NEW s, NEW o \in Int, Holding(s, o, t)
      PROVE  s[o + 1] = i /\ s[o + 2] = j /\ s[o + 3] = k /\ s[o + 4] = l
  <2>1. /\ o + Len(a) = o + 1 /\ o + Len(a) + Len(b) = o + 2 /\ o + Len(a) + Len(b) + Len(c) = o + 3
        /\ (o + 1) + 1 = o + 2 /\ (o + 2) + 1 = o + 3 /\ (o + 3) + 1 = o + 4
    BY <1>1
  <2>2. Holding(s, o, a) /\ Holding(s, o + 1, b) /\ Holding(s, o + 2, c) /\ Holding(s, o + 3, d)
    BY <1>2, <1>3, <2>1 DEF Parts4
  <2>3. s[o + 1] = i /\ s[(o + 1) + 1] = j /\ s[(o + 2) + 1] = k /\ s[(o + 3) + 1] = l
    BY <1>1, <2>2
  <2> QED BY <2>1, <2>3
<1>4. IsText(t) /\ Len(t) = 4
  BY <1>1, <1>2 DEF Parts4
<1>5. Four(t, i, j, k, l)
  BY <1>3, <1>4 DEF Four
<1> QED BY <1>5 DEF t, a, b, c, d

\* A text of n instructions: a and the instruction i.
More(t, a, n, i) ==
  /\ IsText(t) /\ Len(t) = n
  /\ \A s : \A o \in Int : Holding(s, o, t) => Holding(s, o, a) /\ s[o + n] = i

One(b, i) == IsText(b) /\ Len(b) = 1 /\ \A s, o : Holding(s, o, b) => s[o + 1] = i

LEMMA OneMore ==
  ASSUME NEW a, IsText(a), NEW n, n = Len(a) + 1, NEW i, NEW b, One(b, i)
  PROVE  More(a \o b, a, n, i)
<1>1. IsText(b) /\ Len(b) = 1 /\ \A s, o : Holding(s, o, b) => s[o + 1] = i
  BY DEF One
<1>2. /\ IsText(a \o b) /\ Len(a) \in Nat /\ Len(a \o b) = Len(a) + Len(b)
      /\ \A s : \A o \in Int : Holding(s, o, a \o b) => Holding(s, o, a) /\ Holding(s, o + Len(a), b)
  BY <1>1, TextParts
<1>3. ASSUME NEW s, NEW o \in Int, Holding(s, o, a \o b) PROVE s[o + n] = i
  <2>1. s[(o + Len(a)) + 1] = i
    BY <1>1, <1>2, <1>3
  <2>2. (o + Len(a)) + 1 = o + n
    BY <1>2
  <2> QED BY <2>1, <2>2
<1> QED BY <1>1, <1>2, <1>3 DEF More

FailAt(s, o) == s[o + 1].op = "unless" /\ s[o + 1].by = 2 /\ s[o + 2].op = "fail"

LEMMA FailText ==
  ASSUME NEW c
  PROVE  LET t == If(c, Fail) IN
         IsText(t) /\ Len(t) = 2 /\ \A s : \A o \in Int : Holding(s, o, t) => FailAt(s, o)
<1> DEFINE i == [op |-> "unless", cond |-> c, by |-> 2]
           j == [op |-> "fail"]
           a == <<i>>
           b == <<j>>
<1>1. a \o b = If(c, Fail)
  BY DEF If, Fail, Do, Unless
<1>2. i.op = "unless" /\ i.by = 2 /\ j.op = "fail"
  OBVIOUS
<1>3. One(a, i) /\ One(b, j)
  BY OneInstruction DEF One
<1>3a. IsText(a) /\ Len(a) + 1 = 2
  BY <1>3 DEF One
<1> HIDE DEF i, j, a, b
<1>4. More(a \o b, a, 2, j)
  BY <1>3, <1>3a, OneMore
<1>5. ASSUME NEW s, NEW o \in Int, Holding(s, o, a \o b) PROVE FailAt(s, o)
  BY <1>2, <1>3, <1>4, <1>5 DEF FailAt, More, One
<1> QED BY <1>1, <1>4, <1>5 DEF More

-----------------------------------------------------------------------------
(* Which instructions a part of a program has.                             *)

\* From place a + 1 to place b a program has instructions of J only, and its jumps
\* lead there or to the place behind.
Region(s, a, b, J, C) ==
  \A k \in a + 1 .. b :
    /\ s[k] \in J \cup Jumps(C)
    /\ s[k].op \in JumpOps => s[k].by \in Int /\ k + s[k].by \in a + 1 .. b + 1

LEMMA CodeRegion ==
  ASSUME NEW s, NEW o \in Int, NEW t, NEW J, NEW C, Holding(s, o, t), Code(t, J, C)
  PROVE  Region(s, o, o + Len(t), J, C)
<1>1. Len(t) \in Nat
  BY CodeIsText
<1>2. \A j \in 1 .. Len(t) : t[j] \in J \cup Jumps(C)
  <2>1. t \in Seq(J \cup Jumps(C))
    BY DEF Code
  <2> QED BY <2>1, ElementOfSeq
<1>3. ASSUME NEW k \in o + 1 .. o + Len(t)
      PROVE  /\ s[k] \in J \cup Jumps(C)
             /\ s[k].op \in JumpOps => s[k].by \in Int /\ k + s[k].by \in o + 1 .. o + Len(t) + 1
  <2> DEFINE j == k - o
  <2>1. j \in 1 .. Len(t) /\ o + j = k /\ j \in Int
    BY <1>1
  <2>2. s[k] = t[j]
    <3>1. s[o + j] = t[j]
      BY <2>1 DEF Holding
    <3> QED BY <2>1, <3>1
  <2>3. t[j].op \in JumpOps => t[j].by \in Int /\ j + t[j].by \in 1 .. Len(t) + 1
    BY <2>1 DEF Code, Inside
  <2> HIDE DEF j
  <2> QED BY <1>1, <1>2, <2>1, <2>2, <2>3
<1> QED BY <1>3 DEF Region

LEMMA Regions ==
  ASSUME NEW s, NEW a \in Int, NEW b \in Int, NEW c \in Int, NEW J, NEW C, a <= b, b <= c,
         Region(s, a, b, J, C), Region(s, b, c, J, C)
  PROVE  Region(s, a, c, J, C)
<1> SUFFICES ASSUME NEW k \in a + 1 .. c
             PROVE  /\ s[k] \in J \cup Jumps(C)
                    /\ s[k].op \in JumpOps => s[k].by \in Int /\ k + s[k].by \in a + 1 .. c + 1
  BY DEF Region
<1>1. CASE k <= b
  BY <1>1 DEF Region
<1>2. CASE k > b
  BY <1>2 DEF Region
<1> QED BY <1>1, <1>2

\* The last part of a text, and what comes before.
LEMMA LastRegion ==
  ASSUME NEW s, NEW o \in Int, NEW a, NEW b, NEW J, NEW C, IsText(a), Code(b, J, C), Holding(s, o, a \o b)
  PROVE  /\ IsText(a \o b) /\ Len(a) \in Nat /\ Len(b) \in Nat /\ Len(a \o b) = Len(a) + Len(b)
         /\ Holding(s, o, a) /\ Region(s, o + Len(a), o + Len(a \o b), J, C)
<1>1. IsText(b)
  BY CodeIsText
<1>2. /\ IsText(a \o b) /\ Len(a) \in Nat /\ Len(b) \in Nat /\ Len(a \o b) = Len(a) + Len(b)
      /\ Holding(s, o, a) /\ Holding(s, o + Len(a), b)
  BY <1>1, TextParts
<1>3. Region(s, o + Len(a), (o + Len(a)) + Len(b), J, C)
  BY <1>2, CodeRegion
<1>4. (o + Len(a)) + Len(b) = o + Len(a \o b)
  BY <1>2
<1> QED BY <1>2, <1>3, <1>4

LEMMA LastFour ==
  ASSUME NEW a, NEW b, NEW c, NEW d, NEW e, NEW J, NEW C, IsText(a), Code(b, J, C),
         Code(c, J, C), Code(d, J, C), Code(e, J, C)
  PROVE  /\ IsText(a \o b \o c \o d \o e) /\ Len(a) \in Nat
         /\ Len(a \o b \o c \o d \o e) \in Nat /\ Len(a \o b \o c \o d \o e) >= Len(a)
         /\ \A s : \A o \in Int : Holding(s, o, a \o b \o c \o d \o e) =>
              Holding(s, o, a) /\ Region(s, o + Len(a), o + Len(a \o b \o c \o d \o e), J, C)
<1> DEFINE P(x, y) ==
             /\ IsText(y) /\ Len(x) \in Nat /\ Len(y) \in Nat /\ Len(y) >= Len(x)
             /\ \A s : \A o \in Int : Holding(s, o, y) =>
                  Holding(s, o, x) /\ Region(s, o + Len(x), o + Len(y), J, C)
<1>1. ASSUME NEW x, NEW y, IsText(x), Code(y, J, C) PROVE P(x, x \o y)
  <2>1. /\ IsText(x \o y) /\ Len(x) \in Nat /\ Len(y) \in Nat /\ Len(x \o y) = Len(x) + Len(y)
    BY <1>1, CodeIsText, TextParts
  <2>2. \A s : \A o \in Int : Holding(s, o, x \o y) =>
          Holding(s, o, x) /\ Region(s, o + Len(x), o + Len(x \o y), J, C)
    BY <1>1, LastRegion
  <2> QED BY <2>1, <2>2
<1>2. ASSUME NEW x, NEW y, NEW z, P(x, y), P(y, z) PROVE P(x, z)
  <2>1. ASSUME NEW s, NEW o \in Int, Holding(s, o, z)
        PROVE  Holding(s, o, x) /\ Region(s, o + Len(x), o + Len(z), J, C)
    <3>1. Holding(s, o, y) /\ Region(s, o + Len(y), o + Len(z), J, C)
      BY <1>2, <2>1
    <3>2. Holding(s, o, x) /\ Region(s, o + Len(x), o + Len(y), J, C)
      BY <1>2, <3>1
    <3>3. /\ o + Len(x) \in Int /\ o + Len(y) \in Int /\ o + Len(z) \in Int
          /\ o + Len(x) <= o + Len(y) /\ o + Len(y) <= o + Len(z)
      BY <1>2
    <3> QED BY <3>1, <3>2, <3>3, Regions
  <2> QED BY <1>2, <2>1
<1>3. \A x, y : P(x, y) => IsText(y)
  OBVIOUS
<1> DEFINE ab == a \o b
           abc == ab \o c
           abcd == abc \o d
           t == abcd \o e
<1> HIDE DEF P
<1>4. P(a, ab)
  BY <1>1
<1>5. P(ab, abc)
  BY <1>1, <1>3, <1>4
<1>6. P(abc, abcd)
  BY <1>1, <1>3, <1>5
<1>7. P(abcd, t)
  BY <1>1, <1>3, <1>6
<1>8. P(a, t)
  BY <1>2, <1>4, <1>5, <1>6, <1>7
<1> QED BY <1>8 DEF P

-----------------------------------------------------------------------------
(* Sequences without their last, their first or one of their elements.      *)

LEMMA FrontOfConcat ==
  ASSUME NEW S, NEW p \in Seq(S), NEW c \in S
  PROVE  SubSeq(p \o <<c>>, 1, Len(p \o <<c>>) - 1) = p
<1> DEFINE s == p \o <<c>>
           f == SubSeq(s, 1, Len(s) - 1)
<1>1. /\ s \in Seq(S) /\ Len(s) = Len(p) + 1
      /\ \A i \in 1 .. Len(p) : s[i] = p[i]
  <2>1. <<c>> \in Seq(S) /\ Len(<<c>>) = 1
    OBVIOUS
  <2> QED BY <2>1, ConcatProperties
<1> HIDE DEF s
<1>2. \A i \in 1 .. Len(s) - 1 : s[i] \in S
  BY <1>1
<1>3. /\ f \in Seq(S) /\ Len(f) = Len(p)
      /\ \A i \in 1 .. Len(p) : f[i] = p[i]
  <2>1. Len(p) \in Nat
    OBVIOUS
  <2> QED BY <1>1, <1>2, <2>1, SubSeqProperties
<1> HIDE DEF f
<1>4. f = p
  BY <1>3, SeqEqual
<1> QED BY <1>4 DEF f, s

LEMMA TailOfConcat ==
  ASSUME NEW S, NEW p \in Seq(S), NEW c \in S
  PROVE  Tail(<<c>> \o p) = p /\ Head(<<c>> \o p) = c
<1> DEFINE s == <<c>> \o p
           f == Tail(s)
<1>1. /\ s \in Seq(S) /\ Len(s) = Len(p) + 1 /\ s[1] = c
      /\ \A i \in 1 .. Len(p) : s[i + 1] = p[i]
  <2>1. <<c>> \in Seq(S) /\ Len(<<c>>) = 1 /\ <<c>>[1] = c
    OBVIOUS
  <2>2. Len(p) \in Nat
    OBVIOUS
  <2> QED BY <2>1, <2>2, ConcatProperties
<1> HIDE DEF s
<1>2. s # <<>>
  BY <1>1
<1>3. /\ f \in Seq(S) /\ Len(f) = Len(p)
      /\ \A i \in 1 .. Len(p) : f[i] = p[i]
  BY <1>1, <1>2
<1>4. Head(s) = c
  BY <1>1, <1>2
<1> HIDE DEF f
<1>5. f = p
  BY <1>3, SeqEqual
<1> QED BY <1>4, <1>5 DEF f, s
=============================================================================
