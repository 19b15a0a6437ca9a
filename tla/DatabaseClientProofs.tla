------------------------ MODULE DatabaseClientProofs ------------------------
(***************************************************************************)
(* Theorems about DatabaseClient, on both adapters, for any number of      *)
(* callers and connections and for callbacks of any length and depth.      *)
(***************************************************************************)
EXTENDS DatabaseClient, SequenceTheorems, FiniteSetTheorems, WellFoundedInduction, TLAPS

-----------------------------------------------------------------------------
(***************************************************************************)
(* Stacks of savepoints.                                                   *)
(***************************************************************************)

Stacks == Seq(Savepoint)

\* What was written before the n-th entry of a stack.
Below(stack, n) == UNION {stack[k].writes : k \in 1 .. n - 1}

\* A set of naturals has a smallest element.
LEMMA SmallestExists ==
    ASSUME NEW S \in SUBSET Nat, S # {}
    PROVE  \E m \in S : \A n \in S : m <= n
<1>1. IsWellFoundedOn(OpToRel(<, Nat), Nat)
  BY NatLessThanWellFounded
<1>2. PICK m \in S : \A n \in S : <<n, m>> \notin OpToRel(<, Nat)
  BY <1>1, WFMin
<1>3. \A n \in S : ~(n < m)
  BY <1>2 DEF OpToRel
<1> QED BY <1>3

\* A name that is on the stack is found, at its latest place.
LEMMA LatestAt ==
    ASSUME NEW stack \in Stacks, NEW name,
           NEW j \in 1 .. Len(stack), stack[j].name = name
    PROVE  /\ At(stack, name) \in 1 .. Len(stack)
           /\ stack[At(stack, name)].name = name
           /\ \A k \in 1 .. Len(stack) : stack[k].name = name => k <= At(stack, name)
<1> DEFINE S == {k \in DOMAIN stack : stack[k].name = name}
           T == {Len(stack) - k : k \in S}
<1>0. Len(stack) \in Nat /\ DOMAIN stack = 1 .. Len(stack)
  BY LenProperties DEF Stacks
<1>1. T \in SUBSET Nat /\ T # {}
  BY <1>0
<1>2. PICK t \in T : \A u \in T : t <= u
  <2> HIDE DEF T
  <2> QED BY <1>1, SmallestExists
<1>3. PICK m \in S : t = Len(stack) - m
  OBVIOUS
<1>4. \A k \in S : m >= k
  <2>1. \A k \in S : t <= Len(stack) - k
    BY <1>2
  <2> QED BY <1>0, <1>3, <2>1
<1>5. Max(S) \in S /\ \A k \in S : Max(S) >= k
  <2> HIDE DEF S, T
  <2> QED BY <1>4 DEF Max
<1>6. At(stack, name) = Max(S)
  BY DEF At
<1> HIDE DEF T
<1> QED BY <1>0, <1>5, <1>6

\* The first n entries of a stack, of which the last is given the writes W.
Shortened(stack, n, W) == [SubSeq(stack, 1, n) EXCEPT ![n].writes = W]

LEMMA ShortenedIs ==
    ASSUME NEW stack \in Stacks, NEW n \in 1 .. Len(stack), NEW W \in SUBSET Write
    PROVE  /\ Shortened(stack, n, W) \in Stacks
           /\ Len(Shortened(stack, n, W)) = n
           /\ \A k \in 1 .. n : Shortened(stack, n, W)[k].name = stack[k].name
           /\ \A k \in 1 .. n : Shortened(stack, n, W)[k].writes =
                                  IF k = n THEN W ELSE stack[k].writes
<1> DEFINE part == SubSeq(stack, 1, n)
           entry == [part[n] EXCEPT !.writes = W]
<1>1. part \in Stacks /\ Len(part) = n /\ \A k \in 1 .. n : part[k] = stack[k]
  <2>1. \A k \in 1 .. n : stack[k] \in Savepoint
    BY ElementOfSeq DEF Stacks
  <2> QED BY <2>1, SubSeqProperties DEF Stacks
<1>2. n \in 1 .. Len(part) /\ part[n] \in Savepoint
  BY <1>1, ElementOfSeq DEF Stacks
<1>3. entry \in Savepoint /\ entry.name = part[n].name /\ entry.writes = W
  BY <1>2 DEF Savepoint
<1>4. [part EXCEPT ![n].writes = W] = [part EXCEPT ![n] = entry]
  OBVIOUS
<1> HIDE DEF part, entry
<1>5. /\ [part EXCEPT ![n] = entry] \in Stacks
      /\ Len([part EXCEPT ![n] = entry]) = Len(part)
      /\ \A j \in 1 .. Len(part) :
             [part EXCEPT ![n] = entry][j] = IF j = n THEN entry ELSE part[j]
  BY <1>1, <1>2, <1>3, ExceptSeq DEF Stacks
<1>6. LET short == [part EXCEPT ![n] = entry] IN
      /\ short \in Stacks
      /\ Len(short) = n
      /\ \A k \in 1 .. n : short[k].name = stack[k].name
      /\ \A k \in 1 .. n : short[k].writes = IF k = n THEN W ELSE stack[k].writes
  BY <1>1, <1>3, <1>5
<1> QED BY <1>4, <1>6 DEF part, Shortened

LEMMA BelowType ==
    ASSUME NEW stack \in Stacks, NEW n \in Nat, n <= Len(stack) + 1
    PROVE  Below(stack, n) \in SUBSET Write
<1>1. \A k \in 1 .. n - 1 : stack[k] \in Savepoint
  BY ElementOfSeq, LenProperties DEF Stacks
<1> QED BY <1>1 DEF Below, Savepoint

LEMMA BelowSplit ==
    ASSUME NEW stack, NEW n \in Nat \ {0}
    PROVE  /\ Below(stack, n + 1) = Below(stack, n) \cup stack[n].writes
           /\ Below(stack, 1) = {}
BY DEF Below

LEMMA BelowGrows ==
    ASSUME NEW stack, NEW m \in Nat, NEW n \in Nat, m <= n
    PROVE  Below(stack, m) \subseteq Below(stack, n)
BY DEF Below

LEMMA BelowSame ==
    ASSUME NEW stack, NEW other, NEW n \in Nat,
           \A k \in 1 .. n - 1 : stack[k].writes = other[k].writes
    PROVE  Below(stack, n) = Below(other, n)
BY DEF Below

LEMMA AllOfBelow ==
    ASSUME NEW stack \in Stacks
    PROVE  AllOf(stack) = Below(stack, Len(stack) + 1)
<1>1. DOMAIN stack = 1 .. Len(stack) /\ Len(stack) \in Nat
  BY LenProperties DEF Stacks
<1> QED BY <1>1 DEF AllOf, Below

-----------------------------------------------------------------------------
(***************************************************************************)
(* The transactions that are open in each other, and the stack of their    *)
(* connection.  The writes between the entries p[i] and p[i + 1] of the    *)
(* stack are those of the i-th transaction and of what was nested in it;   *)
(* on Postgres, where a savepoint stays when it is rolled back to, several *)
(* entries may belong to one transaction.  lite stands for the adapter,    *)
(* sp for the writes that a rejected transaction has left behind.          *)
(***************************************************************************)

MadeUpTo(clients, i) == UNION {clients[l].made : l \in 1 .. i}

\* The i-th transaction lies between the entries m and n.
Between(client, stack, m, n, before) ==
    /\ stack[m].name = client.name
    /\ client.made \subseteq Below(stack, n)
    /\ Below(stack, n) \subseteq before
    /\ ~client.spoilt => n = m + 1

Placed(lite, clients, stack, sp, p) ==
    /\ p \in [1 .. Len(clients) + 1 -> Nat]
    /\ p[1] = 1
    /\ p[Len(clients) + 1] = Len(stack) + 1
    /\ \A i, j \in 1 .. Len(clients) + 1 : i < j => p[i] < p[j]
    /\ \A i \in 1 .. Len(clients) :
           Between(clients[i], stack, p[i], p[i + 1], MadeUpTo(clients, i) \cup sp)
    /\ lite => \A i \in 1 .. Len(clients) + 1 : p[i] = i

Nested(lite, clients, stack, sp) == \E p : Placed(lite, clients, stack, sp, p)

\* What the clients of a transaction have in common with those before a step.
Alike(clients, before, n) ==
    \A i \in 1 .. n : /\ clients[i].name = before[i].name
                      /\ clients[i].made = before[i].made
                      /\ clients[i].spoilt = before[i].spoilt

LEMMA MadeSame ==
    ASSUME NEW clients, NEW before, NEW n \in Nat, Alike(clients, before, n)
    PROVE  \A i \in 1 .. n : MadeUpTo(clients, i) = MadeUpTo(before, i)
BY DEF MadeUpTo, Alike

LEMMA PlacesWithin ==
    ASSUME NEW lite, NEW clients \in Seq(Client), NEW stack \in Stacks, NEW sp, NEW p,
           Placed(lite, clients, stack, sp, p), Len(clients) >= 1
    PROVE  /\ Len(clients) \in Nat /\ Len(stack) \in Nat
           /\ \A i \in 1 .. Len(clients) : p[i] \in 1 .. Len(stack)
           /\ \A i \in 1 .. Len(clients) : p[i] < p[i + 1] /\ p[i + 1] \in Nat
           /\ \A i, j \in 1 .. Len(clients) + 1 : i <= j => p[i] <= p[j]
<1>1. Len(clients) \in Nat /\ Len(stack) \in Nat
  BY LenProperties DEF Stacks
<1>2. \A i, j \in 1 .. Len(clients) + 1 : i <= j => p[i] <= p[j]
  BY <1>1 DEF Placed
<1>3. \A i \in 1 .. Len(clients) : p[i] < p[i + 1] /\ p[i + 1] \in Nat
  <2> SUFFICES ASSUME NEW i \in 1 .. Len(clients) PROVE p[i] < p[i + 1] /\ p[i + 1] \in Nat
    OBVIOUS
  <2>1. i \in 1 .. Len(clients) + 1 /\ i + 1 \in 1 .. Len(clients) + 1 /\ i < i + 1
    BY <1>1
  <2> QED BY <2>1 DEF Placed
<1>4. \A i \in 1 .. Len(clients) : p[i] \in 1 .. Len(stack)
  <2> SUFFICES ASSUME NEW i \in 1 .. Len(clients) PROVE p[i] \in 1 .. Len(stack)
    OBVIOUS
  <2>1. p[1] <= p[i] /\ p[i] < p[Len(clients) + 1] /\ p[i] \in Nat
    BY <1>1, <1>2 DEF Placed
  <2> QED BY <1>1, <2>1 DEF Placed
<1> QED BY <1>1, <1>2, <1>3, <1>4

\* A transaction that begins: it is alone, and has written nothing.
LEMMA Beginning ==
    ASSUME NEW lite, NEW sp
    PROVE  Nested(lite, <<Opened(0, None)>>, <<[name |-> None, writes |-> {}]>>, sp)
<1> DEFINE clients == <<Opened(0, None)>>
           stack == <<[name |-> None, writes |-> {}]>>
           p == [i \in 1 .. 2 |-> i]
<1>1. Len(clients) = 1 /\ Len(stack) = 1 /\ p[1] = 1 /\ p[2] = 2
  OBVIOUS
<1>2. /\ stack[1].name = None /\ stack[1].writes = {} /\ clients[1].name = None
      /\ clients[1].made = {} /\ clients[1].spoilt = FALSE
  BY DEF Opened
<1>3. Below(stack, 2) = {}
  BY <1>2 DEF Below
<1> HIDE DEF clients, stack, p
<1>4. p \in [1 .. 2 -> Nat] /\ \A i \in 1 .. 2 : p[i] = i
  BY DEF p
<1>5. \A i, j \in 1 .. 2 : i < j => p[i] < p[j]
  BY <1>4
<1>6. Between(clients[1], stack, p[1], p[1 + 1], MadeUpTo(clients, 1) \cup sp)
  BY <1>1, <1>2, <1>3 DEF Between
<1>7. Placed(lite, clients, stack, sp, p)
  BY <1>1, <1>4, <1>5, <1>6 DEF Placed
<1> QED BY <1>7 DEF Nested, clients, stack

PushedOn(more, clients, top, stack, D, L) ==
    /\ Len(more) = D + 1
    /\ Alike(more, clients, D)
    /\ more[D + 1].made = {}
    /\ Len(top) = L + 1
    /\ \A k \in 1 .. L : top[k] = stack[k]
    /\ top[L + 1].name = more[D + 1].name
    /\ top[L + 1].writes = {}

\* A savepoint is set.
LEMMA Pushing ==
    ASSUME NEW lite, NEW clients \in Seq(Client), NEW stack \in Stacks, NEW sp,
           NEW D \in Nat, D = Len(clients), D >= 1, NEW L \in Nat, L = Len(stack),
           Nested(lite, clients, stack, sp),
           NEW more \in Seq(Client), NEW top \in Stacks,
           PushedOn(more, clients, top, stack, D, L)
    PROVE  Nested(lite, more, top, sp)
<1> USE DEF PushedOn
<1>1. PICK p : Placed(lite, clients, stack, sp, p)
  BY DEF Nested
<1> DEFINE q == [i \in 1 .. D + 2 |-> IF i = D + 2 THEN L + 2 ELSE p[i]]
<1>2. /\ \A i \in 1 .. D : p[i] \in 1 .. L
      /\ \A i \in 1 .. D : p[i] < p[i + 1] /\ p[i + 1] \in Nat
      /\ \A i, j \in 1 .. D + 1 : i <= j => p[i] <= p[j]
  BY <1>1, PlacesWithin
<1>3. p \in [1 .. D + 1 -> Nat] /\ p[1] = 1 /\ p[D + 1] = L + 1
  BY <1>1 DEF Placed
<1>4. \A i \in 1 .. D + 1 : q[i] = p[i]
  OBVIOUS
<1>5. q[D + 2] = L + 2 /\ q \in [1 .. D + 2 -> Nat]
  BY <1>3
<1> HIDE DEF q
<1>6. \A n \in Nat : n <= L + 1 => Below(top, n) = Below(stack, n)
  <2> SUFFICES ASSUME NEW n \in Nat, n <= L + 1
               PROVE  Below(top, n) = Below(stack, n)
    OBVIOUS
  <2>1. \A k \in 1 .. n - 1 : top[k].writes = stack[k].writes
    OBVIOUS
  <2> QED BY <2>1, BelowSame
<1>7. Below(top, L + 2) = Below(stack, L + 1)
  <2>1. L + 1 \in Nat \ {0} /\ (L + 1) + 1 = L + 2
    OBVIOUS
  <2>2. Below(top, (L + 1) + 1) = Below(top, L + 1) \cup top[L + 1].writes
    <3> HIDE DEF PushedOn
    <3>1. PICK m \in Nat \ {0} : m = L + 1
      BY <2>1
    <3>2. Below(top, m + 1) = Below(top, m) \cup top[m].writes
      BY BelowSplit
    <3> QED BY <3>1, <3>2
  <2> QED BY <1>6, <2>1, <2>2
<1>8. \A i \in 1 .. D : MadeUpTo(more, i) = MadeUpTo(clients, i)
  BY MadeSame
<1>9. MadeUpTo(clients, D) \subseteq MadeUpTo(more, D + 1)
  <2>1. MadeUpTo(more, D) \subseteq MadeUpTo(more, D + 1)
    BY DEF MadeUpTo
  <2> QED BY <1>8, <2>1
<1>10. ASSUME NEW i \in 1 .. D + 2, NEW j \in 1 .. D + 2, i < j PROVE q[i] < q[j]
  <2>1. CASE j = D + 2
    <3>1. i \in 1 .. D + 1 /\ i <= D + 1 /\ D + 1 \in 1 .. D + 1
      BY <1>10
    <3>2. q[i] = p[i] /\ p[i] <= p[D + 1] /\ p[i] \in Nat
      BY <1>2, <1>3, <1>4, <3>1
    <3> QED BY <1>3, <1>5, <2>1, <3>2
  <2>2. CASE j # D + 2
    <3>1. i \in 1 .. D + 1 /\ j \in 1 .. D + 1
      BY <1>10, <2>2
    <3> QED BY <1>1, <1>4, <1>10, <3>1 DEF Placed
  <2> QED BY <2>1, <2>2
<1>11. ASSUME NEW i \in 1 .. D + 1
       PROVE  Between(more[i], top, q[i], q[i + 1], MadeUpTo(more, i) \cup sp)
  <2>1. CASE i = D + 1
    <3>1. q[i] = L + 1 /\ q[i + 1] = L + 2
      BY <1>3, <1>4, <1>5, <2>1
    <3>2. D \in 1 .. D
      OBVIOUS
    <3>3. Below(stack, p[D + 1]) \subseteq MadeUpTo(clients, D) \cup sp
      BY <1>1, <3>2 DEF Placed, Between
    <3> QED BY <1>3, <1>7, <1>9, <2>1, <3>1, <3>3 DEF Between
  <2>2. CASE i # D + 1
    <3>1. i \in 1 .. D /\ i \in 1 .. D + 1 /\ i + 1 \in 1 .. D + 1 /\ i + 1 <= D + 1
          /\ D + 1 \in 1 .. D + 1
      BY <2>2
    <3>2. q[i] = p[i] /\ q[i + 1] = p[i + 1]
      BY <1>4, <3>1
    <3>3. p[i + 1] \in Nat /\ p[i + 1] <= L + 1
      BY <1>2, <1>3, <3>1
    <3>4. Below(top, p[i + 1]) = Below(stack, p[i + 1])
      BY <1>6, <3>3
    <3>5. top[p[i]] = stack[p[i]]
      BY <1>2, <3>1
    <3>6. Between(clients[i], stack, p[i], p[i + 1], MadeUpTo(clients, i) \cup sp)
      BY <1>1, <3>1 DEF Placed
    <3>7. /\ more[i].name = clients[i].name /\ more[i].made = clients[i].made
          /\ more[i].spoilt = clients[i].spoilt
      BY <3>1 DEF Alike
    <3> QED BY <1>8, <3>1, <3>2, <3>4, <3>5, <3>6, <3>7 DEF Between
  <2> QED BY <2>1, <2>2
<1>12. ASSUME lite, NEW i \in 1 .. D + 2 PROVE q[i] = i
  <2>1. \A j \in 1 .. D + 1 : p[j] = j
    BY <1>1, <1>12 DEF Placed
  <2>2. D + 1 \in 1 .. D + 1
    OBVIOUS
  <2>3. L + 1 = D + 1
    BY <1>3, <2>1, <2>2
  <2>4. CASE i = D + 2
    BY <1>5, <2>3, <2>4
  <2>5. CASE i # D + 2
    <3>1. i \in 1 .. D + 1
      BY <2>5
    <3> QED BY <1>4, <2>1, <3>1
  <2> QED BY <2>4, <2>5
<1>13. q[1] = 1
  <2>1. 1 \in 1 .. D + 1
    OBVIOUS
  <2> QED BY <1>3, <1>4, <2>1
<1>14. Len(more) + 1 = D + 2 /\ Len(top) + 1 = L + 2
  OBVIOUS
<1>15. Placed(lite, more, top, sp, q)
  BY <1>5, <1>10, <1>11, <1>12, <1>13, <1>14 DEF Placed
<1> QED BY <1>15 DEF Nested

WroteTo(more, clients, top, stack, D, L, w) ==
    /\ Len(more) = D
    /\ Alike(more, clients, D - 1)
    /\ more[D].name = clients[D].name
    /\ more[D].spoilt = clients[D].spoilt
    /\ more[D].made = clients[D].made \cup {w}
    /\ Len(top) = L
    /\ \A k \in 1 .. L : top[k].name = stack[k].name
    /\ \A k \in 1 .. L - 1 : top[k].writes = stack[k].writes
    /\ top[L].writes = stack[L].writes \cup {w}

\* The innermost transaction writes.
LEMMA Writing ==
    ASSUME NEW lite, NEW clients \in Seq(Client), NEW stack \in Stacks, NEW sp,
           NEW D \in Nat, D = Len(clients), D >= 1, NEW L \in Nat, L = Len(stack),
           Nested(lite, clients, stack, sp), NEW w,
           NEW more \in Seq(Client), NEW top \in Stacks,
           WroteTo(more, clients, top, stack, D, L, w)
    PROVE  Nested(lite, more, top, sp)
<1> USE DEF WroteTo
<1>1. PICK p : Placed(lite, clients, stack, sp, p)
  BY DEF Nested
<1>2. /\ \A i \in 1 .. D : p[i] \in 1 .. L
      /\ \A i \in 1 .. D : p[i] < p[i + 1] /\ p[i + 1] \in Nat
      /\ \A i, j \in 1 .. D + 1 : i <= j => p[i] <= p[j]
  <2>1. Len(clients) >= 1
    OBVIOUS
  <2>2. /\ \A i \in 1 .. Len(clients) : p[i] \in 1 .. Len(stack)
        /\ \A i \in 1 .. Len(clients) : p[i] < p[i + 1] /\ p[i + 1] \in Nat
        /\ \A i, j \in 1 .. Len(clients) + 1 : i <= j => p[i] <= p[j]
    BY <1>1, <2>1, PlacesWithin
  <2> QED BY <2>2
<1>3. p \in [1 .. D + 1 -> Nat] /\ p[1] = 1 /\ p[D + 1] = L + 1
  BY <1>1 DEF Placed
<1>4. \A n \in Nat : n <= L => Below(top, n) = Below(stack, n)
  BY BelowSame
<1>5. Below(top, L + 1) = Below(stack, L + 1) \cup {w}
  <2>1. D \in 1 .. D /\ L \in Nat \ {0}
    BY <1>2
  <2>2. /\ Below(top, L + 1) = Below(top, L) \cup top[L].writes
        /\ Below(stack, L + 1) = Below(stack, L) \cup stack[L].writes
    BY <2>1, BelowSplit
  <2> QED BY <1>4, <2>2
<1>6. \A i \in 1 .. D - 1 : MadeUpTo(more, i) = MadeUpTo(clients, i)
  BY MadeSame
<1>7. MadeUpTo(clients, D) \cup {w} \subseteq MadeUpTo(more, D)
  <2>1. \A l \in 1 .. D : clients[l].made \subseteq more[l].made
    <3> SUFFICES ASSUME NEW l \in 1 .. D PROVE clients[l].made \subseteq more[l].made
      OBVIOUS
    <3>1. CASE l = D
      BY <3>1
    <3>2. CASE l # D
      <4>1. l \in 1 .. D - 1
        BY <3>2
      <4> QED BY <4>1 DEF Alike
    <3> QED BY <3>1, <3>2
  <2>2. D \in 1 .. D /\ w \in more[D].made
    OBVIOUS
  <2>3. w \in MadeUpTo(more, D)
    BY <2>2 DEF MadeUpTo
  <2> QED BY <2>1, <2>3 DEF MadeUpTo
<1>8. ASSUME NEW i \in 1 .. D
      PROVE  Between(more[i], top, p[i], p[i + 1], MadeUpTo(more, i) \cup sp)
  <2>1. Between(clients[i], stack, p[i], p[i + 1], MadeUpTo(clients, i) \cup sp)
    BY <1>1 DEF Placed
  <2>2. top[p[i]].name = stack[p[i]].name
    BY <1>2
  <2>3. CASE i = D
    BY <1>3, <1>5, <1>7, <2>1, <2>2, <2>3 DEF Between
  <2>4. CASE i # D
    <3>1. i \in 1 .. D - 1 /\ i + 1 \in 1 .. D
      BY <2>4
    <3>2. Below(top, p[i + 1]) = Below(stack, p[i + 1])
      BY <1>2, <1>4, <3>1
    <3>3. /\ more[i].name = clients[i].name /\ more[i].made = clients[i].made
          /\ more[i].spoilt = clients[i].spoilt
      BY <3>1 DEF Alike
    <3> QED BY <1>6, <2>1, <2>2, <3>1, <3>2, <3>3 DEF Between
  <2> QED BY <2>3, <2>4
<1>9. Placed(lite, more, top, sp, p)
  BY <1>1, <1>8 DEF Placed
<1> QED BY <1>9 DEF Nested

\* The innermost transaction ends: its savepoints go, but for those that a
\* rejection on Postgres leaves.  The stack is cut to n entries.
CutTo(lite, clients, stack, sp, p, rest, short, n, sp2) ==
    LET D == Len(clients) IN
    /\ D >= 2
    /\ Len(rest) = D - 1
    /\ Alike(rest, clients, D - 2)
    /\ rest[D - 1].name = clients[D - 1].name
    /\ Len(short) = n
    /\ n >= p[D] - 1
    /\ \A k \in 1 .. n : short[k].name = stack[k].name
    /\ \A k \in 1 .. p[D] - 2 : short[k].writes = stack[k].writes
    /\ sp \subseteq sp2
    /\ rest[D - 1].made \subseteq Below(short, n + 1)
    /\ Below(short, n + 1) \subseteq MadeUpTo(rest, D - 1) \cup sp2
    /\ ~rest[D - 1].spoilt => n = p[D - 1]
    /\ lite => n = D - 1

LEMMA Popping ==
    ASSUME NEW lite, NEW clients \in Seq(Client), NEW stack \in Stacks, NEW sp, NEW p,
           Placed(lite, clients, stack, sp, p),
           NEW rest \in Seq(Client), NEW short \in Stacks, NEW n \in Nat, NEW sp2,
           CutTo(lite, clients, stack, sp, p, rest, short, n, sp2)
    PROVE  Nested(lite, rest, short, sp2)
<1>01. PICK D \in Nat, L \in Nat : D = Len(clients) /\ L = Len(stack)
  BY LenProperties DEF Stacks
<1>02. /\ D >= 2
       /\ Len(rest) = D - 1
       /\ Alike(rest, clients, D - 2)
       /\ rest[D - 1].name = clients[D - 1].name
       /\ Len(short) = n
       /\ n >= p[D] - 1
       /\ \A k \in 1 .. n : short[k].name = stack[k].name
       /\ \A k \in 1 .. p[D] - 2 : short[k].writes = stack[k].writes
       /\ sp \subseteq sp2
       /\ rest[D - 1].made \subseteq Below(short, n + 1)
       /\ Below(short, n + 1) \subseteq MadeUpTo(rest, D - 1) \cup sp2
       /\ ~rest[D - 1].spoilt => n = p[D - 1]
       /\ lite => n = D - 1
  BY <1>01 DEF CutTo
<1> USE <1>01, <1>02
<1> DEFINE q == [i \in 1 .. D |-> IF i = D THEN n + 1 ELSE p[i]]
<1>2. /\ \A i \in 1 .. D : p[i] \in 1 .. L
      /\ \A i \in 1 .. D : p[i] < p[i + 1] /\ p[i + 1] \in Nat
      /\ \A i, j \in 1 .. D + 1 : i <= j => p[i] <= p[j]
  <2>1. Len(clients) >= 1
    OBVIOUS
  <2>2. /\ \A i \in 1 .. Len(clients) : p[i] \in 1 .. Len(stack)
        /\ \A i \in 1 .. Len(clients) : p[i] < p[i + 1] /\ p[i + 1] \in Nat
        /\ \A i, j \in 1 .. Len(clients) + 1 : i <= j => p[i] <= p[j]
    BY <2>1, PlacesWithin
  <2> QED BY <2>2
<1>3. p \in [1 .. D + 1 -> Nat] /\ p[1] = 1 /\ p[D + 1] = L + 1
  BY DEF Placed
<1>03. \A i, j \in 1 .. D + 1 : i < j => p[i] < p[j]
  BY DEF Placed
<1>04. \A i \in 1 .. D + 1 : p[i] \in Nat
  <2> HIDE <1>01, <1>02
  <2> QED BY <1>3
<1>4. \A i \in 1 .. D - 1 : q[i] = p[i]
  OBVIOUS
<1>5. q[D] = n + 1 /\ q \in [1 .. D -> Nat]
  BY <1>3
<1> HIDE DEF q
<1>6. \A m \in Nat : m <= p[D] - 1 => Below(short, m) = Below(stack, m)
  <2> SUFFICES ASSUME NEW m \in Nat, m <= p[D] - 1
               PROVE  Below(short, m) = Below(stack, m)
    OBVIOUS
  <2>1. D \in 1 .. D /\ p[D] \in Nat
    BY <1>2
  <2>2. \A k \in 1 .. m - 1 : k \in 1 .. p[D] - 2
    BY <2>1
  <2>3. \A k \in 1 .. m - 1 : short[k].writes = stack[k].writes
    BY <2>2
  <2> QED BY <2>3, BelowSame
<1>7. \A i \in 1 .. D - 2 : MadeUpTo(rest, i) = MadeUpTo(clients, i)
  BY MadeSame
<1>8. \A i \in 1 .. D - 1 : p[i] \in Nat /\ p[i] <= n /\ p[i] <= p[D] - 1
  <2> SUFFICES ASSUME NEW i \in 1 .. D - 1
               PROVE p[i] \in Nat /\ p[i] <= n /\ p[i] <= p[D] - 1
    OBVIOUS
  <2>1. i \in 1 .. D + 1 /\ D \in 1 .. D + 1 /\ i < D
    OBVIOUS
  <2>2. p[i] < p[D]
    BY <1>03, <2>1
  <2>3. p[i] \in Nat /\ p[D] \in Nat
    <3> HIDE <1>01, <1>02
    <3>1. i \in 1 .. D + 1
      BY <2>1
    <3>2. D \in 1 .. D + 1
      BY <2>1
    <3> QED BY <1>04, <3>1, <3>2
  <2> QED BY <2>2, <2>3
<1>10. ASSUME NEW i \in 1 .. D, NEW j \in 1 .. D, i < j PROVE q[i] < q[j]
  <2>0. i \in 1 .. D - 1
    BY <1>10
  <2>1. CASE j = D
    <3>1. q[i] = p[i] /\ p[i] \in Nat /\ p[i] <= n
      BY <1>4, <1>8, <2>0
    <3>2. q[j] = n + 1
      BY <1>5, <2>1
    <3> QED BY <3>1, <3>2
  <2>2. CASE j # D
    <3>1. j \in 1 .. D - 1 /\ i \in 1 .. D + 1 /\ j \in 1 .. D + 1
      BY <2>2
    <3>2. p[i] < p[j]
      BY <1>10, <3>1 DEF Placed
    <3> QED BY <1>4, <2>0, <3>1, <3>2
  <2> QED BY <2>1, <2>2
<1>11. ASSUME NEW i \in 1 .. D - 1
       PROVE  Between(rest[i], short, q[i], q[i + 1], MadeUpTo(rest, i) \cup sp2)
  <2>0. /\ i \in 1 .. D /\ q[i] = p[i] /\ p[i] \in 1 .. n
    BY <1>2, <1>4, <1>8
  <2>1. Between(clients[i], stack, p[i], p[i + 1], MadeUpTo(clients, i) \cup sp)
    BY <2>0 DEF Placed
  <2>2. short[p[i]].name = stack[p[i]].name
    BY <2>0
  <2>3. CASE i = D - 1
    <3>1. q[i + 1] = n + 1
      BY <1>5, <2>3
    <3>2. ~rest[i].spoilt => n + 1 = q[i] + 1
      BY <2>0, <2>3
    <3> QED BY <2>0, <2>1, <2>2, <2>3, <3>1, <3>2 DEF Between
  <2>4. CASE i # D - 1
    <3>1. i \in 1 .. D - 2 /\ i + 1 \in 1 .. D - 1
      BY <2>4
    <3>2. q[i + 1] = p[i + 1] /\ p[i + 1] \in Nat /\ p[i + 1] <= p[D] - 1
      BY <1>4, <1>8, <3>1
    <3>3. Below(short, p[i + 1]) = Below(stack, p[i + 1])
      BY <1>6, <3>2
    <3>4. /\ rest[i].name = clients[i].name /\ rest[i].made = clients[i].made
          /\ rest[i].spoilt = clients[i].spoilt
      BY <3>1 DEF Alike
    <3> QED BY <1>7, <2>0, <2>1, <2>2, <3>1, <3>2, <3>3, <3>4 DEF Between
  <2> QED BY <2>3, <2>4
<1>12. ASSUME lite, NEW i \in 1 .. D PROVE q[i] = i
  <2>1. \A j \in 1 .. D + 1 : p[j] = j
    BY <1>12 DEF Placed
  <2>2. CASE i = D
    BY <1>5, <1>12, <2>2
  <2>3. CASE i # D
    <3>1. i \in 1 .. D - 1 /\ i \in 1 .. D + 1
      BY <2>3
    <3> QED BY <1>4, <2>1, <3>1
  <2> QED BY <2>2, <2>3
<1>13. q[1] = 1
  <2>1. 1 \in 1 .. D - 1
    OBVIOUS
  <2> QED BY <1>3, <1>4, <2>1
<1>14. Len(rest) + 1 = D /\ Len(short) + 1 = n + 1
  OBVIOUS
<1>15. Placed(lite, rest, short, sp2, q)
  BY <1>5, <1>10, <1>11, <1>12, <1>13, <1>14 DEF Placed
<1> QED BY <1>15 DEF Nested

\* RELEASE keeps all that was written, in one entry less or more.
ReleasedFrom(short, stack, L, j, k) ==
    /\ k \in j .. L
    /\ short \in Stacks
    /\ Len(short) = k - 1
    /\ \A i \in 1 .. k - 1 : short[i].name = stack[i].name
    /\ \A i \in 1 .. k - 2 : short[i].writes = stack[i].writes
    /\ Below(short, k) = Below(stack, L + 1)

LEMMA ReleasedIs ==
    ASSUME NEW stack \in Stacks, NEW L \in Nat, L = Len(stack), NEW name,
           NEW j \in 2 .. L, stack[j].name = name
    PROVE  ReleasedFrom(Released(stack, name), stack, L, j, At(stack, name))
<1> DEFINE k == At(stack, name)
           short == Released(stack, name)
           W == UNION {stack[i].writes : i \in k - 1 .. Len(stack)}
<1>1. k \in j .. L
  <2>1. j \in 1 .. Len(stack)
    OBVIOUS
  <2>2. k \in 1 .. Len(stack) /\ \A i \in 1 .. Len(stack) : stack[i].name = name => i <= k
    BY <2>1, LatestAt
  <2> QED BY <2>1, <2>2
<1>2. short = Shortened(stack, k - 1, W)
  BY DEF Released, Shortened
<1> HIDE DEF k, short
<1>3. k \in Nat /\ k >= 2 /\ k - 1 \in 1 .. Len(stack)
  BY <1>1
<1>4. W \in SUBSET Write
  <2>1. \A i \in 1 .. Len(stack) : stack[i] \in Savepoint
    BY ElementOfSeq DEF Stacks
  <2>2. \A i \in k - 1 .. Len(stack) : i \in 1 .. Len(stack)
    BY <1>3
  <2>3. \A i \in k - 1 .. Len(stack) : stack[i].writes \in SUBSET Write
    BY <2>1, <2>2 DEF Savepoint
  <2> QED BY <2>3
<1>5. W \cup Below(stack, k - 1) = Below(stack, L + 1)
  <2>1. \A i \in 1 .. L : i \in 1 .. (k - 1) - 1 \/ i \in k - 1 .. Len(stack)
    BY <1>3
  <2>2. (L + 1) - 1 = L /\ \A i \in k - 1 .. Len(stack) : i \in 1 .. L
    BY <1>3
  <2>3. \A i \in 1 .. (k - 1) - 1 : i \in 1 .. L
    BY <1>3
  <2> QED BY <2>1, <2>2, <2>3 DEF Below
<1> HIDE DEF W
<1>6. /\ short \in Stacks
      /\ Len(short) = k - 1
      /\ \A i \in 1 .. k - 1 : short[i].name = stack[i].name
      /\ \A i \in 1 .. k - 1 : short[i].writes = IF i = k - 1 THEN W ELSE stack[i].writes
  <2>1. PICK n \in 1 .. Len(stack) : n = k - 1
    BY <1>3
  <2>2. /\ Shortened(stack, n, W) \in Stacks
        /\ Len(Shortened(stack, n, W)) = n
        /\ \A i \in 1 .. n : Shortened(stack, n, W)[i].name = stack[i].name
        /\ \A i \in 1 .. n : Shortened(stack, n, W)[i].writes =
                               IF i = n THEN W ELSE stack[i].writes
    BY <1>4, ShortenedIs
  <2>3. short = Shortened(stack, n, W)
    BY <1>2, <2>1
  <2> HIDE DEF Stacks
  <2> QED BY <2>1, <2>2, <2>3
<1>7. \A i \in 1 .. k - 2 : short[i].writes = stack[i].writes
  BY <1>3, <1>6
<1>8. Below(short, k) = Below(stack, L + 1)
  <2>1. k - 1 \in Nat \ {0} /\ (k - 1) + 1 = k
    BY <1>3
  <2>2. Below(short, k) = Below(short, k - 1) \cup short[k - 1].writes
    BY <2>1, BelowSplit
  <2>3. \A i \in 1 .. (k - 1) - 1 : short[i].writes = stack[i].writes
    BY <1>3, <1>7
  <2>4. Below(short, k - 1) = Below(stack, k - 1)
    BY <2>1, <2>3, BelowSame
  <2>5. short[k - 1].writes = W
    BY <1>3, <1>6
  <2> QED BY <1>5, <2>2, <2>4, <2>5
<1>9. /\ k \in j .. L
      /\ short \in Stacks
      /\ Len(short) = k - 1
      /\ \A i \in 1 .. k - 1 : short[i].name = stack[i].name
      /\ \A i \in 1 .. k - 2 : short[i].writes = stack[i].writes
      /\ Below(short, k) = Below(stack, L + 1)
  BY <1>1, <1>6, <1>7, <1>8
<1> QED BY <1>9 DEF k, short, ReleasedFrom

\* ROLLBACK TO undoes what the savepoint and those after it hold.
RolledBackFrom(short, stack, L, j, k) ==
    /\ k \in j .. L
    /\ short \in Stacks
    /\ Len(short) = k
    /\ \A i \in 1 .. k : short[i].name = stack[i].name
    /\ \A i \in 1 .. k - 1 : short[i].writes = stack[i].writes
    /\ Below(short, k + 1) = Below(stack, k)

LEMMA RolledBackIs ==
    ASSUME NEW stack \in Stacks, NEW L \in Nat, L = Len(stack), NEW name,
           NEW j \in 1 .. L, stack[j].name = name
    PROVE  RolledBackFrom(RolledBack(stack, name), stack, L, j, At(stack, name))
<1> DEFINE k == At(stack, name)
           short == RolledBack(stack, name)
<1>1. k \in j .. L
  <2>1. j \in 1 .. Len(stack)
    OBVIOUS
  <2>2. k \in 1 .. Len(stack) /\ \A i \in 1 .. Len(stack) : stack[i].name = name => i <= k
    BY <2>1, LatestAt
  <2> QED BY <2>1, <2>2
<1>2. short = Shortened(stack, k, {})
  BY DEF RolledBack, Shortened
<1> HIDE DEF k, short
<1>3. k \in 1 .. Len(stack) /\ {} \in SUBSET Write
  BY <1>1
<1>6. /\ short \in Stacks
      /\ Len(short) = k
      /\ \A i \in 1 .. k : short[i].name = stack[i].name
      /\ \A i \in 1 .. k : short[i].writes = IF i = k THEN {} ELSE stack[i].writes
  BY <1>2, <1>3, ShortenedIs
<1>7. \A i \in 1 .. k - 1 : short[i].writes = stack[i].writes
  BY <1>3, <1>6
<1>8. Below(short, k + 1) = Below(stack, k)
  <2>1. k \in Nat \ {0}
    BY <1>3
  <2>2. Below(short, k + 1) = Below(short, k) \cup short[k].writes
    BY <2>1, BelowSplit
  <2>4. Below(short, k) = Below(stack, k)
    BY <2>1, <1>7, BelowSame
  <2>5. short[k].writes = {}
    BY <1>3, <1>6
  <2> QED BY <2>2, <2>4, <2>5
<1>9. /\ k \in j .. L
      /\ short \in Stacks
      /\ Len(short) = k
      /\ \A i \in 1 .. k : short[i].name = stack[i].name
      /\ \A i \in 1 .. k - 1 : short[i].writes = stack[i].writes
      /\ Below(short, k + 1) = Below(stack, k)
  BY <1>1, <1>6, <1>7, <1>8
<1> QED BY <1>9 DEF k, short, RolledBackFrom

\* Where the innermost transaction and the one around it begin.
InnermostAt(lite, clients, stack, sp, p, D, L) ==
    /\ p[D] \in 2 .. L /\ p[D - 1] \in Nat /\ p[D - 1] < p[D]
    /\ stack[p[D]].name = clients[D].name
    /\ clients[D - 1].made \subseteq Below(stack, p[D])
    /\ Below(stack, p[D]) \subseteq MadeUpTo(clients, D - 1) \cup sp
    /\ ~clients[D - 1].spoilt => p[D] = p[D - 1] + 1
    /\ clients[D].made \subseteq Below(stack, L + 1)
    /\ Below(stack, L + 1) \subseteq MadeUpTo(clients, D) \cup sp
    /\ ~clients[D].spoilt => L = p[D]
    /\ lite => p[D] = D /\ L = D

LEMMA Innermost ==
    ASSUME NEW lite, NEW clients \in Seq(Client), NEW stack \in Stacks, NEW sp, NEW p,
           NEW D \in Nat, D = Len(clients), D >= 2, NEW L \in Nat, L = Len(stack),
           Placed(lite, clients, stack, sp, p)
    PROVE  InnermostAt(lite, clients, stack, sp, p, D, L)
<1>1. /\ \A i \in 1 .. Len(clients) : p[i] \in 1 .. Len(stack)
      /\ \A i \in 1 .. Len(clients) : p[i] < p[i + 1] /\ p[i + 1] \in Nat
  <2>1. Len(clients) >= 1
    OBVIOUS
  <2> QED BY <2>1, PlacesWithin
<1>2. D \in 1 .. D /\ D - 1 \in 1 .. D /\ (D - 1) + 1 = D /\ D + 1 \in 1 .. D + 1
      /\ D \in 1 .. D + 1
  OBVIOUS
<1>3. p[D + 1] = L + 1
  BY DEF Placed
<1>4. p[D - 1] \in 1 .. L /\ p[D] \in 1 .. L /\ p[D - 1] < p[D]
  BY <1>1, <1>2
<1>5. Between(clients[D], stack, p[D], p[D + 1], MadeUpTo(clients, D) \cup sp)
  BY <1>2 DEF Placed
<1>6. Between(clients[D - 1], stack, p[D - 1], p[D], MadeUpTo(clients, D - 1) \cup sp)
  BY <1>2 DEF Placed
<1>7. lite => p[D] = D /\ p[D + 1] = D + 1
  BY <1>2 DEF Placed
<1>8. p[D] \in 2 .. L
  BY <1>4
<1>9. ~clients[D].spoilt => L = p[D]
  BY <1>3, <1>4, <1>5 DEF Between
<1>10. lite => L = D
  BY <1>3, <1>7
<1> QED BY <1>3, <1>4, <1>5, <1>6, <1>7, <1>8, <1>9, <1>10 DEF Between, InnermostAt

\* The clients around a nested transaction that resolves, and one that is rejected.
RestResolved(rest, clients, D) ==
    /\ Len(rest) = D - 1
    /\ Alike(rest, clients, D - 2)
    /\ rest[D - 1].name = clients[D - 1].name
    /\ rest[D - 1].made = clients[D - 1].made \cup clients[D].made
    /\ ~rest[D - 1].spoilt => ~clients[D - 1].spoilt /\ ~clients[D].spoilt

RestRejected(lite, rest, clients, D, sp, sp2) ==
    /\ Len(rest) = D - 1
    /\ Alike(rest, clients, D - 2)
    /\ rest[D - 1].name = clients[D - 1].name
    /\ rest[D - 1].made = clients[D - 1].made
    /\ rest[D - 1].spoilt = TRUE
    /\ sp \subseteq sp2
    /\ ~lite /\ clients[D].spoilt => clients[D].made \subseteq sp2

Left(lite, rest, top, sp) == top \in Stacks /\ Nested(lite, rest, top, sp)

\* A nested transaction resolves.
LEMMA Releasing ==
    ASSUME NEW lite, NEW clients \in Seq(Client), NEW stack \in Stacks, NEW sp,
           NEW D \in Nat, D = Len(clients), D >= 2,
           Nested(lite, clients, stack, sp),
           NEW rest \in Seq(Client), RestResolved(rest, clients, D)
    PROVE  Left(lite, rest, Released(stack, clients[D].name), sp)
<1> USE DEF RestResolved, Left
<1>1. PICK p : Placed(lite, clients, stack, sp, p)
  BY DEF Nested
<1>2. PICK L \in Nat : L = Len(stack)
  BY LenProperties DEF Stacks
<1>3. /\ p[D] \in 2 .. L /\ p[D - 1] \in Nat /\ p[D - 1] < p[D]
      /\ stack[p[D]].name = clients[D].name
      /\ clients[D - 1].made \subseteq Below(stack, p[D])
      /\ ~clients[D - 1].spoilt => p[D] = p[D - 1] + 1
      /\ clients[D].made \subseteq Below(stack, L + 1)
      /\ Below(stack, L + 1) \subseteq MadeUpTo(clients, D) \cup sp
      /\ ~clients[D].spoilt => L = p[D]
      /\ lite => p[D] = D /\ L = D
  <2>1. InnermostAt(lite, clients, stack, sp, p, D, L)
    BY <1>1, <1>2, Innermost
  <2> QED BY <2>1 DEF InnermostAt
<1>4. PICK k, short : k = At(stack, clients[D].name) /\ short = Released(stack, clients[D].name)
  OBVIOUS
<1>5. /\ k \in p[D] .. L
      /\ short \in Stacks
      /\ Len(short) = k - 1
      /\ \A i \in 1 .. k - 1 : short[i].name = stack[i].name
      /\ \A i \in 1 .. k - 2 : short[i].writes = stack[i].writes
      /\ Below(short, k) = Below(stack, L + 1)
  <2>1. ReleasedFrom(short, stack, L, p[D], k)
    BY <1>2, <1>3, <1>4, ReleasedIs
  <2> QED BY <2>1 DEF ReleasedFrom
<1>6. PICK n \in Nat : n = k - 1
  BY <1>3, <1>5
<1>7. n + 1 = k /\ n >= p[D] - 1
  BY <1>3, <1>5, <1>6
<1>8. \A i \in 1 .. p[D] - 2 : short[i].writes = stack[i].writes
  <2>1. \A i \in 1 .. p[D] - 2 : i \in 1 .. k - 2
    BY <1>3, <1>5
  <2> QED BY <1>5, <2>1
<1>9. Below(stack, p[D]) \subseteq Below(stack, L + 1)
  <2>1. p[D] \in Nat /\ L + 1 \in Nat /\ p[D] <= L + 1
    BY <1>3
  <2> QED BY <2>1, BelowGrows
<1>10. rest[D - 1].made \subseteq Below(short, n + 1)
  BY <1>3, <1>5, <1>7, <1>9
<1>11. MadeUpTo(clients, D) \subseteq MadeUpTo(rest, D - 1)
  <2> SUFFICES ASSUME NEW l \in 1 .. D PROVE clients[l].made \subseteq MadeUpTo(rest, D - 1)
    BY DEF MadeUpTo
  <2>1. CASE l \in 1 .. D - 2
    <3>1. l \in 1 .. D - 1 /\ rest[l].made = clients[l].made
      BY <2>1 DEF Alike
    <3> QED BY <3>1 DEF MadeUpTo
  <2>2. CASE l \in {D - 1, D}
    <3>1. D - 1 \in 1 .. D - 1 /\ clients[l].made \subseteq rest[D - 1].made
      BY <2>2
    <3> QED BY <3>1 DEF MadeUpTo
  <2> QED BY <2>1, <2>2
<1>12. Below(short, n + 1) \subseteq MadeUpTo(rest, D - 1) \cup sp
  BY <1>3, <1>5, <1>7, <1>11
<1>13. ~rest[D - 1].spoilt => n = p[D - 1]
  BY <1>3, <1>5, <1>6
<1>14. lite => n = D - 1
  BY <1>3, <1>5, <1>6
<1>15. Len(short) = n /\ \A i \in 1 .. n : short[i].name = stack[i].name
  BY <1>5, <1>6
<1>16. Nested(lite, rest, short, sp)
  <2>1. CutTo(lite, clients, stack, sp, p, rest, short, n, sp)
    BY <1>7, <1>8, <1>10, <1>12, <1>13, <1>14, <1>15 DEF CutTo
  <2> QED BY <1>1, <1>5, <2>1, Popping
<1> QED BY <1>4, <1>5, <1>16

\* A nested transaction is rejected.  On Postgres its savepoint stays, and so does
\* what it wrote before one that was nested in it was rejected.
LEMMA Undoing ==
    ASSUME NEW lite, lite <=> adapter = "sqlite",
           NEW clients \in Seq(Client), NEW stack \in Stacks, NEW sp,
           NEW D \in Nat, D = Len(clients), D >= 2,
           Nested(lite, clients, stack, sp),
           NEW rest \in Seq(Client), NEW sp2,
           RestRejected(lite, rest, clients, D, sp, sp2)
    PROVE  Left(lite, rest, Undone(stack, clients[D].name), sp2)
<1> USE DEF RestRejected, Left
<1>1. PICK p : Placed(lite, clients, stack, sp, p)
  BY DEF Nested
<1>2. PICK L \in Nat : L = Len(stack)
  BY LenProperties DEF Stacks
<1>3. /\ p[D] \in 2 .. L /\ p[D - 1] \in Nat /\ p[D - 1] < p[D]
      /\ stack[p[D]].name = clients[D].name
      /\ clients[D - 1].made \subseteq Below(stack, p[D])
      /\ Below(stack, p[D]) \subseteq MadeUpTo(clients, D - 1) \cup sp
      /\ Below(stack, L + 1) \subseteq MadeUpTo(clients, D) \cup sp
      /\ ~clients[D].spoilt => L = p[D]
      /\ lite => p[D] = D /\ L = D
  <2>1. InnermostAt(lite, clients, stack, sp, p, D, L)
    BY <1>1, <1>2, Innermost
  <2> QED BY <2>1 DEF InnermostAt
<1>4. PICK k, back : k = At(stack, clients[D].name) /\ back = RolledBack(stack, clients[D].name)
  OBVIOUS
<1>5. /\ k \in p[D] .. L
      /\ back \in Stacks
      /\ Len(back) = k
      /\ \A i \in 1 .. k : back[i].name = stack[i].name
      /\ \A i \in 1 .. k - 1 : back[i].writes = stack[i].writes
      /\ Below(back, k + 1) = Below(stack, k)
  <2>1. p[D] \in 1 .. L
    BY <1>3
  <2>2. RolledBackFrom(back, stack, L, p[D], k)
    BY <1>2, <1>3, <1>4, <2>1, RolledBackIs
  <2> QED BY <2>2 DEF RolledBackFrom
<1>6. MadeUpTo(rest, D - 1) = MadeUpTo(clients, D - 1)
  <2>1. \A l \in 1 .. D - 1 : l \in 1 .. D - 2 \/ l = D - 1
    OBVIOUS
  <2>2. \A l \in 1 .. D - 1 : rest[l].made = clients[l].made
    BY <2>1 DEF Alike
  <2>3. {rest[l].made : l \in 1 .. D - 1} = {clients[l].made : l \in 1 .. D - 1}
    BY <2>2
  <2> QED BY <2>3 DEF MadeUpTo
<1>7. MadeUpTo(clients, D) \subseteq MadeUpTo(clients, D - 1) \cup clients[D].made
  <2>1. \A l \in 1 .. D : l \in 1 .. D - 1 \/ l = D
    OBVIOUS
  <2> QED BY <2>1 DEF MadeUpTo
<1>8. k \in Nat /\ k >= 2 /\ k <= L /\ p[D] \in Nat
  BY <1>3, <1>5
<1>9. \A i \in 1 .. p[D] - 2 : i \in 1 .. k - 1 /\ i \in 1 .. k - 2
  BY <1>3, <1>5
<1>10. Below(stack, k) \subseteq Below(stack, L + 1) /\ Below(stack, p[D]) \subseteq Below(stack, k)
  <2>1. k <= L + 1 /\ p[D] <= k /\ L + 1 \in Nat
    BY <1>5, <1>8
  <2> QED BY <1>8, <2>1, BelowGrows
<1>11. CASE ~lite
  <2>1. Undone(stack, clients[D].name) = back
    BY <1>4, <1>11 DEF Undone
  <2>2. Below(stack, k) \subseteq MadeUpTo(clients, D - 1) \cup sp2
    <3>1. CASE clients[D].spoilt
      BY <1>3, <1>7, <1>10, <1>11, <3>1
    <3>2. CASE ~clients[D].spoilt
      <4>1. k = p[D]
        BY <1>3, <1>5, <3>2
      <4> QED BY <1>3, <4>1
    <3> QED BY <3>1, <3>2
  <2>3. rest[D - 1].made \subseteq Below(back, k + 1)
    BY <1>3, <1>5, <1>10
  <2>4. Below(back, k + 1) \subseteq MadeUpTo(rest, D - 1) \cup sp2
    BY <1>5, <1>6, <2>2
  <2>5. \A i \in 1 .. p[D] - 2 : back[i].writes = stack[i].writes
    BY <1>5, <1>9
  <2>6. k >= p[D] - 1
    BY <1>5, <1>8
  <2>7. Nested(lite, rest, back, sp2)
    <3>1. CutTo(lite, clients, stack, sp, p, rest, back, k, sp2)
      BY <1>5, <1>8, <1>11, <2>3, <2>4, <2>5, <2>6 DEF CutTo
    <3> QED BY <1>1, <1>5, <1>8, <3>1, Popping
  <2> QED BY <1>5, <2>1, <2>7
<1>12. CASE lite
  <2>1. PICK short : short = Released(back, clients[D].name)
    OBVIOUS
  <2>2. Undone(stack, clients[D].name) = short
    BY <1>4, <1>12, <2>1 DEF Undone
  <2>3. k = D /\ L = D /\ p[D] = D
    BY <1>3, <1>5, <1>12
  <2>4. D \in 2 .. D /\ back[D].name = clients[D].name
    BY <1>3, <1>5, <2>3
  <2>5. /\ At(back, clients[D].name) \in D .. D
        /\ short \in Stacks
        /\ Len(short) = At(back, clients[D].name) - 1
        /\ \A i \in 1 .. At(back, clients[D].name) - 1 : short[i].name = back[i].name
        /\ \A i \in 1 .. At(back, clients[D].name) - 2 : short[i].writes = back[i].writes
        /\ Below(short, At(back, clients[D].name)) = Below(back, D + 1)
    <3>1. ReleasedFrom(short, back, D, D, At(back, clients[D].name))
      BY <1>5, <2>1, <2>3, <2>4, ReleasedIs
    <3> QED BY <3>1 DEF ReleasedFrom
  <2>6. At(back, clients[D].name) = D
    BY <2>5
  <2>7. Below(short, D) = Below(stack, D)
    BY <1>5, <2>3, <2>5, <2>6
  <2>8. \A i \in 1 .. D - 1 : short[i].name = stack[i].name
    <3>1. \A i \in 1 .. D - 1 : i \in 1 .. k
      BY <2>3
    <3> QED BY <1>5, <2>5, <2>6, <3>1
  <2>9. \A i \in 1 .. p[D] - 2 : short[i].writes = stack[i].writes
    BY <1>5, <1>9, <2>3, <2>5, <2>6
  <2>10. PICK n \in Nat : n = D - 1
    OBVIOUS
  <2>11. n + 1 = D /\ n >= p[D] - 1 /\ Len(short) = n
    BY <2>3, <2>5, <2>6, <2>10
  <2>12. rest[D - 1].made \subseteq Below(short, n + 1)
    BY <1>3, <2>3, <2>7, <2>11
  <2>13. Below(short, n + 1) \subseteq MadeUpTo(rest, D - 1) \cup sp2
    BY <1>3, <1>6, <2>3, <2>7, <2>11
  <2>14. \A i \in 1 .. n : short[i].name = stack[i].name
    BY <2>8, <2>10
  <2>15. Nested(lite, rest, short, sp2)
    <3>1. CutTo(lite, clients, stack, sp, p, rest, short, n, sp2)
      BY <2>9, <2>10, <2>11, <2>12, <2>13, <2>14 DEF CutTo
    <3> QED BY <1>1, <2>5, <3>1, Popping
  <2> QED BY <2>2, <2>5, <2>15
<1> QED BY <1>11, <1>12

-----------------------------------------------------------------------------
(***************************************************************************)
(* The clients of a transaction, and how many are called on each.          *)
(***************************************************************************)

CalledOn(clients, v) == {i \in 1 .. Len(clients) : clients[i].via = v}

\* A nested transaction is called on a client before it, and no client has more
\* of them open than its depth says.
ClientsOK(clients) ==
    /\ Len(clients) >= 1
    /\ clients[1].via = 0
    /\ \A i \in 2 .. Len(clients) : clients[i].via \in 1 .. i - 1
    /\ \A v \in 1 .. Len(clients) : Cardinality(CalledOn(clients, v)) <= clients[v].depth

\* The clients are the same but for the depth of the i-th, or its writes.
Recounted(clients, i, depth) == [clients EXCEPT ![i].depth = depth]
Remade(clients, i, made) == [clients EXCEPT ![i].made = made]

LEMMA ClientType ==
    ASSUME NEW clients \in Seq(Client), NEW i \in 1 .. Len(clients)
    PROVE  /\ clients[i] \in Client
           /\ clients[i].depth \in Nat
           /\ clients[i].made \in SUBSET Write
           /\ clients[i].spoilt \in BOOLEAN
<1>1. clients[i] \in Client
  BY ElementOfSeq
<1> QED BY <1>1 DEF Client

RecountedFrom(more, clients, i, depth) ==
    /\ more \in Seq(Client)
    /\ Len(more) = Len(clients)
    /\ \A j \in 1 .. Len(clients) :
           /\ more[j].via = clients[j].via
           /\ more[j].depth = IF j = i THEN depth ELSE clients[j].depth
    /\ Alike(more, clients, Len(clients))

LEMMA RecountedIs ==
    ASSUME NEW clients \in Seq(Client), NEW i \in 1 .. Len(clients), NEW depth \in Nat
    PROVE  RecountedFrom(Recounted(clients, i, depth), clients, i, depth)
<1>1. PICK e : e = [clients[i] EXCEPT !.depth = depth]
  OBVIOUS
<1>2. clients[i] \in Client
  BY ClientType
<1>3. /\ e \in Client /\ e.depth = depth /\ e.via = clients[i].via
      /\ e.name = clients[i].name /\ e.made = clients[i].made /\ e.spoilt = clients[i].spoilt
  BY <1>1, <1>2 DEF Client
<1>4. PICK r : r = [clients EXCEPT ![i] = e]
  OBVIOUS
<1>5. Recounted(clients, i, depth) = r
  BY <1>1, <1>4 DEF Recounted
<1>6. /\ r \in Seq(Client)
      /\ Len(r) = Len(clients)
      /\ \A j \in 1 .. Len(clients) : r[j] = IF j = i THEN e ELSE clients[j]
  BY <1>3, <1>4, ExceptSeq
<1> QED BY <1>3, <1>5, <1>6 DEF Alike, RecountedFrom

RemadeFrom(more, clients, i, made) ==
    /\ more \in Seq(Client)
    /\ Len(more) = Len(clients)
    /\ \A j \in 1 .. Len(clients) :
           /\ more[j].via = clients[j].via
           /\ more[j].depth = clients[j].depth
           /\ more[j].name = clients[j].name
           /\ more[j].spoilt = clients[j].spoilt
           /\ more[j].made = IF j = i THEN made ELSE clients[j].made

LEMMA RemadeIs ==
    ASSUME NEW clients \in Seq(Client), NEW i \in 1 .. Len(clients), NEW made \in SUBSET Write
    PROVE  RemadeFrom(Remade(clients, i, made), clients, i, made)
<1>1. PICK e : e = [clients[i] EXCEPT !.made = made]
  OBVIOUS
<1>2. clients[i] \in Client
  BY ClientType
<1>3. /\ e \in Client /\ e.made = made /\ e.via = clients[i].via
      /\ e.name = clients[i].name /\ e.depth = clients[i].depth /\ e.spoilt = clients[i].spoilt
  BY <1>1, <1>2 DEF Client
<1>4. PICK r : r = [clients EXCEPT ![i] = e]
  OBVIOUS
<1>5. Remade(clients, i, made) = r
  BY <1>1, <1>4 DEF Remade
<1>6. /\ r \in Seq(Client)
      /\ Len(r) = Len(clients)
      /\ \A j \in 1 .. Len(clients) : r[j] = IF j = i THEN e ELSE clients[j]
  BY <1>3, <1>4, ExceptSeq
<1> QED BY <1>3, <1>5, <1>6 DEF RemadeFrom

LEMMA CalledOnFinite ==
    ASSUME NEW clients \in Seq(Client), NEW v
    PROVE  /\ IsFiniteSet(CalledOn(clients, v))
           /\ Cardinality(CalledOn(clients, v)) \in Nat
<1>1. 1 \in Int /\ Len(clients) \in Int
  BY LenProperties
<1>2. IsFiniteSet(1 .. Len(clients))
  BY <1>1, FS_Interval
<1>3. CalledOn(clients, v) \subseteq 1 .. Len(clients)
  BY DEF CalledOn
<1> QED BY <1>2, <1>3, FS_Subset, FS_CardinalityType

\* A client that something is called on has a depth to count down.
LEMMA DepthLeft ==
    ASSUME NEW clients \in Seq(Client), ClientsOK(clients),
           NEW D \in Nat, D = Len(clients), D >= 2
    PROVE  /\ clients[D].via \in 1 .. D - 1
           /\ clients[clients[D].via].depth >= 1
<1>1. PICK v \in 1 .. D - 1 : v = clients[D].via
  <2>1. D \in 2 .. Len(clients)
    OBVIOUS
  <2> QED BY <2>1 DEF ClientsOK
<1>2. D \in CalledOn(clients, v)
  BY <1>1 DEF CalledOn
<1>3. Cardinality(CalledOn(clients, v)) # 0
  BY <1>2, CalledOnFinite, FS_EmptySet
<1>4. v \in 1 .. Len(clients)
  BY <1>1
<1>5. Cardinality(CalledOn(clients, v)) <= clients[v].depth
  BY <1>4 DEF ClientsOK
<1>6. Cardinality(CalledOn(clients, v)) \in Nat /\ clients[v].depth \in Nat
  BY <1>4, CalledOnFinite, ClientType
<1>7. clients[v].depth >= 1
  BY <1>3, <1>5, <1>6
<1> QED BY <1>1, <1>7

\* Counting in a client that is called, and out.
CalledIn(more, clients, D, u) ==
    /\ Len(more) = D + 1
    /\ \A j \in 1 .. D : more[j].via = clients[j].via
    /\ \A j \in 1 .. D : more[j].depth = IF j = u THEN clients[j].depth + 1
                                                   ELSE clients[j].depth
    /\ more[D + 1].via = u /\ more[D + 1].depth = 0

LEMMA CountedIn ==
    ASSUME NEW clients \in Seq(Client), ClientsOK(clients),
           NEW D \in Nat, D = Len(clients), NEW u \in 1 .. D,
           NEW more \in Seq(Client), CalledIn(more, clients, D, u)
    PROVE  ClientsOK(more)
<1> USE DEF CalledIn
<1>1. D >= 1 /\ Len(more) >= 1 /\ more[1].via = 0
  <2>1. D >= 1 /\ clients[1].via = 0
    BY DEF ClientsOK
  <2>2. 1 \in 1 .. D
    BY <2>1
  <2> QED BY <2>1, <2>2
<1>2. ASSUME NEW i \in 2 .. D + 1 PROVE more[i].via \in 1 .. i - 1
  <2>1. CASE i = D + 1
    BY <2>1
  <2>2. CASE i # D + 1
    <3>1. i \in 2 .. D /\ i \in 1 .. D
      BY <2>2
    <3> QED BY <3>1 DEF ClientsOK
  <2> QED BY <2>1, <2>2
<1>3. \A i \in 1 .. D + 1 : more[i].via \in Nat /\ more[i].via < i
  <2> SUFFICES ASSUME NEW i \in 1 .. D + 1 PROVE more[i].via \in Nat /\ more[i].via < i
    OBVIOUS
  <2>1. i = 1 \/ i \in 2 .. D + 1
    OBVIOUS
  <2> QED BY <1>1, <1>2, <2>1
<1>4. CalledOn(more, D + 1) = {}
  BY <1>3 DEF CalledOn
<1>5. ASSUME NEW v \in 1 .. D
      PROVE  CalledOn(more, v) = CalledOn(clients, v) \cup (IF v = u THEN {D + 1} ELSE {})
  <2>1. \A i \in 1 .. D + 1 : i \in 1 .. D \/ i = D + 1
    OBVIOUS
  <2>2. \A i \in 1 .. D : i \in 1 .. D + 1
    OBVIOUS
  <2> QED BY <2>1, <2>2 DEF CalledOn
<1>6. ASSUME NEW v \in 1 .. D + 1
      PROVE  Cardinality(CalledOn(more, v)) <= more[v].depth
  <2>1. CASE v = D + 1
    <3>1. Cardinality(CalledOn(more, v)) = 0 /\ more[v].depth = 0
      BY <1>4, <2>1, FS_EmptySet
    <3> QED BY <3>1
  <2>2. CASE v # D + 1
    <3>1. v \in 1 .. D
      BY <2>2
    <3>2. Cardinality(CalledOn(clients, v)) <= clients[v].depth
      BY <3>1 DEF ClientsOK
    <3>3. /\ IsFiniteSet(CalledOn(clients, v))
          /\ Cardinality(CalledOn(clients, v)) \in Nat
          /\ clients[v].depth \in Nat
      BY <3>1, CalledOnFinite, ClientType
    <3>4. CASE v = u
      <4>1. D + 1 \notin CalledOn(clients, v)
        BY DEF CalledOn
      <4>2. Cardinality(CalledOn(clients, v) \cup {D + 1}) = Cardinality(CalledOn(clients, v)) + 1
        BY <3>3, <4>1, FS_AddElement
      <4>3. CalledOn(more, v) = CalledOn(clients, v) \cup {D + 1}
        BY <1>5, <3>1, <3>4
      <4>4. more[v].depth = clients[v].depth + 1
        BY <3>1, <3>4
      <4> QED BY <3>2, <3>3, <4>2, <4>3, <4>4
    <3>5. CASE v # u
      <4>1. CalledOn(more, v) = CalledOn(clients, v)
        <5>1. CalledOn(more, v)
                = CalledOn(clients, v) \cup (IF v = u THEN {D + 1} ELSE {})
          BY <1>5, <3>1
        <5> QED BY <3>5, <5>1, Zenon
      <4>2. more[v].depth = clients[v].depth
        BY <3>1, <3>5
      <4> QED BY <3>2, <4>1, <4>2
    <3> QED BY <3>4, <3>5
  <2> QED BY <2>1, <2>2
<1> QED BY <1>1, <1>2, <1>6 DEF ClientsOK

ReturnedFrom(rest, clients, D, u) ==
    /\ Len(rest) = D - 1
    /\ \A j \in 1 .. D - 1 : rest[j].via = clients[j].via
    /\ \A j \in 1 .. D - 1 : rest[j].depth = IF j = u THEN clients[j].depth - 1
                                                       ELSE clients[j].depth

LEMMA CountedOut ==
    ASSUME NEW clients \in Seq(Client), ClientsOK(clients),
           NEW D \in Nat, D = Len(clients), D >= 2, NEW u, u = clients[D].via,
           NEW rest \in Seq(Client), ReturnedFrom(rest, clients, D, u)
    PROVE  ClientsOK(rest)
<1> USE DEF ReturnedFrom
<1>1. Len(rest) >= 1 /\ rest[1].via = 0
  <2>1. 1 \in 1 .. D - 1
    OBVIOUS
  <2> QED BY <2>1 DEF ClientsOK
<1>2. ASSUME NEW i \in 2 .. D - 1 PROVE rest[i].via \in 1 .. i - 1
  <2>1. i \in 2 .. D /\ i \in 1 .. D - 1
    OBVIOUS
  <2> QED BY <2>1 DEF ClientsOK
<1>3. ASSUME NEW v \in 1 .. D - 1
      PROVE  CalledOn(rest, v) = CalledOn(clients, v) \ {D}
  <2>1. \A i \in 1 .. D : i \in 1 .. D - 1 \/ i = D
    OBVIOUS
  <2>2. \A i \in 1 .. D - 1 : i \in 1 .. D /\ i # D
    OBVIOUS
  <2> QED BY <2>1, <2>2 DEF CalledOn
<1>4. ASSUME NEW v \in 1 .. D - 1
      PROVE  Cardinality(CalledOn(rest, v)) <= rest[v].depth
  <2>1. v \in 1 .. D
    OBVIOUS
  <2>2. Cardinality(CalledOn(clients, v)) <= clients[v].depth
    BY <2>1 DEF ClientsOK
  <2>3. /\ IsFiniteSet(CalledOn(clients, v))
        /\ Cardinality(CalledOn(clients, v)) \in Nat
        /\ clients[v].depth \in Nat
    BY <2>1, CalledOnFinite, ClientType
  <2>0. CalledOn(rest, v) = CalledOn(clients, v) \ {D}
    BY <1>3
  <2>4. CASE v = u
    <3>1. D \in CalledOn(clients, v)
      BY <2>4 DEF CalledOn
    <3>2. Cardinality(CalledOn(clients, v) \ {D}) = Cardinality(CalledOn(clients, v)) - 1
      BY <2>3, <3>1, FS_RemoveElement
    <3>3. rest[v].depth = clients[v].depth - 1
      BY <2>4
    <3>4. Cardinality(CalledOn(rest, v)) = Cardinality(CalledOn(clients, v)) - 1
      BY <2>0, <3>2
    <3> QED BY <2>2, <2>3, <3>3, <3>4
  <2>5. CASE v # u
    <3>1. D \notin CalledOn(clients, v)
      BY <2>5 DEF CalledOn
    <3>2. CalledOn(rest, v) = CalledOn(clients, v)
      BY <2>0, <3>1
    <3>3. rest[v].depth = clients[v].depth
      BY <2>5
    <3> QED BY <2>2, <3>2, <3>3
  <2> QED BY <2>4, <2>5
<1> QED BY <1>1, <1>2, <1>4 DEF ClientsOK

\* Counting up without a call, as a savepoint that is refused does.
LEMMA CountedAlike ==
    ASSUME NEW clients \in Seq(Client), ClientsOK(clients),
           NEW more \in Seq(Client), Len(more) = Len(clients),
           \A j \in 1 .. Len(clients) : more[j].via = clients[j].via,
           \A j \in 1 .. Len(clients) : more[j].depth >= clients[j].depth
    PROVE  ClientsOK(more)
<1>1. \A v : CalledOn(more, v) = CalledOn(clients, v)
  BY DEF CalledOn
<1>2. ASSUME NEW v \in 1 .. Len(clients)
      PROVE  Cardinality(CalledOn(more, v)) <= more[v].depth
  <2>1. Cardinality(CalledOn(clients, v)) <= clients[v].depth
    BY DEF ClientsOK
  <2>2. /\ Cardinality(CalledOn(clients, v)) \in Nat /\ clients[v].depth \in Nat
        /\ more[v].depth \in Nat
    BY CalledOnFinite, ClientType
  <2> QED BY <1>1, <2>1, <2>2
<1>3. Len(clients) >= 1 /\ Len(clients) \in Nat /\ clients[1].via = 0
  BY LenProperties DEF ClientsOK
<1>4. 1 \in 1 .. Len(clients)
  BY <1>3
<1>5. \A i \in 2 .. Len(clients) : more[i].via \in 1 .. i - 1
  <2>1. \A i \in 2 .. Len(clients) : i \in 1 .. Len(clients)
    BY <1>3
  <2> QED BY <2>1 DEF ClientsOK
<1> QED BY <1>2, <1>3, <1>4, <1>5 DEF ClientsOK

\* What a client takes over from the transaction that was nested in it.
Rejoined(clients, i, made, spoilt) ==
    [clients EXCEPT ![i].made = made, ![i].spoilt = spoilt]

RejoinedFrom(r, clients, i, made, spoilt) ==
    /\ r \in Seq(Client)
    /\ Len(r) = Len(clients)
    /\ \A j \in 1 .. Len(clients) :
           /\ r[j].via = clients[j].via
           /\ r[j].depth = clients[j].depth
           /\ r[j].name = clients[j].name
           /\ j # i => r[j].made = clients[j].made /\ r[j].spoilt = clients[j].spoilt
    /\ r[i].made = made /\ r[i].spoilt = spoilt

LEMMA RejoinedIs ==
    ASSUME NEW clients \in Seq(Client), NEW i \in 1 .. Len(clients),
           NEW made \in SUBSET Write, NEW spoilt \in BOOLEAN
    PROVE  RejoinedFrom(Rejoined(clients, i, made, spoilt), clients, i, made, spoilt)
<1>1. PICK e : e = [clients[i] EXCEPT !.made = made, !.spoilt = spoilt]
  OBVIOUS
<1>2. clients[i] \in Client
  BY ClientType
<1>3. /\ e \in Client /\ e.made = made /\ e.via = clients[i].via
      /\ e.name = clients[i].name /\ e.depth = clients[i].depth /\ e.spoilt = spoilt
  BY <1>1, <1>2 DEF Client
<1>4. PICK r : r = [clients EXCEPT ![i] = e]
  OBVIOUS
<1>5. Rejoined(clients, i, made, spoilt) = r
  <2>1. DOMAIN clients = 1 .. Len(clients)
    BY LenProperties
  <2> QED BY <1>1, <1>4, <2>1 DEF Rejoined
<1>6. /\ r \in Seq(Client)
      /\ Len(r) = Len(clients)
      /\ \A j \in 1 .. Len(clients) : r[j] = IF j = i THEN e ELSE clients[j]
  BY <1>3, <1>4, ExceptSeq
<1>7. /\ \A j \in 1 .. Len(clients) :
             /\ r[j].via = clients[j].via
             /\ r[j].depth = clients[j].depth
             /\ r[j].name = clients[j].name
             /\ j # i => r[j].made = clients[j].made /\ r[j].spoilt = clients[j].spoilt
      /\ r[i].made = made /\ r[i].spoilt = spoilt
  BY <1>3, <1>6
<1> QED BY <1>5, <1>6, <1>7 DEF RejoinedFrom

PoppedFrom(rest, clients, resolved) ==
    LET D == Len(clients) IN
    /\ rest \in Seq(Client)
    /\ Len(rest) = D - 1
    /\ ClientsOK(rest)
    /\ Alike(rest, clients, D - 2)
    /\ rest[D - 1].name = clients[D - 1].name
    /\ rest[D - 1].made = IF resolved THEN clients[D - 1].made \cup clients[D].made
                          ELSE clients[D - 1].made
    /\ rest[D - 1].spoilt = (clients[D - 1].spoilt \/ ~resolved \/ clients[D].spoilt)

LEMMA PoppedIs ==
    ASSUME NEW t \in Tasks, task[t].clients \in Seq(Client), ClientsOK(task[t].clients),
           Depth(t) > 1, NEW resolved \in BOOLEAN
    PROVE  PoppedFrom(Popped(t, resolved), task[t].clients, resolved)
<1>1. PICK clients \in Seq(Client) : clients = task[t].clients
  OBVIOUS
<1>2. PICK D \in Nat : D = Len(clients)
  BY LenProperties
<1>3. D >= 2 /\ ClientsOK(clients)
  BY <1>1, <1>2 DEF Depth
<1>4. PICK v \in 1 .. D - 1 : v = clients[D].via
  BY <1>2, <1>3, DepthLeft
<1>5. clients[v].depth >= 1 /\ clients[v].depth \in Nat
  <2>1. v \in 1 .. Len(clients)
    BY <1>2, <1>3
  <2> QED BY <1>2, <1>3, <1>4, <2>1, DepthLeft, ClientType
<1>6. PICK part : part = SubSeq(clients, 1, D - 1)
  OBVIOUS
<1>7. part \in Seq(Client) /\ Len(part) = D - 1 /\ \A i \in 1 .. D - 1 : part[i] = clients[i]
  <2>1. \A i \in 1 .. D - 1 : clients[i] \in Client
    <3>1. \A i \in 1 .. D - 1 : i \in 1 .. Len(clients)
      BY <1>2
    <3> QED BY <3>1, ClientType
  <2> QED BY <1>3, <1>6, <2>1, SubSeqProperties
<1>8. PICK less : less = Recounted(part, v, part[v].depth - 1)
  OBVIOUS
<1>9. part[v].depth - 1 = clients[v].depth - 1 /\ part[v].depth - 1 \in Nat
  BY <1>5, <1>7
<1>10. /\ less \in Seq(Client)
       /\ Len(less) = D - 1
       /\ \A j \in 1 .. D - 1 :
              /\ less[j].via = part[j].via
              /\ less[j].depth = IF j = v THEN part[v].depth - 1 ELSE part[j].depth
       /\ Alike(less, part, D - 1)
  <2>1. PICK d \in Nat : d = part[v].depth - 1
    BY <1>9
  <2>2. v \in 1 .. Len(part)
    BY <1>7
  <2>3. less = Recounted(part, v, d)
    BY <1>8, <2>1
  <2>4. /\ less \in Seq(Client)
        /\ Len(less) = Len(part)
        /\ \A j \in 1 .. Len(part) :
               /\ less[j].via = part[j].via
               /\ less[j].depth = IF j = v THEN d ELSE part[j].depth
        /\ Alike(less, part, Len(part))
    <3>1. RecountedFrom(less, part, v, d)
      BY <1>7, <2>2, <2>3, RecountedIs
    <3> QED BY <3>1 DEF RecountedFrom
  <2> QED BY <1>7, <2>1, <2>4
<1>11. PICK made : made = IF resolved THEN clients[D - 1].made \cup clients[D].made
                          ELSE clients[D - 1].made
  OBVIOUS
<1>12. PICK spoilt : spoilt = (clients[D - 1].spoilt \/ ~resolved \/ clients[D].spoilt)
  OBVIOUS
<1>13. made \in SUBSET Write /\ spoilt \in BOOLEAN
  <2>1. D \in 1 .. Len(clients) /\ D - 1 \in 1 .. Len(clients)
    BY <1>2, <1>3
  <2>2. /\ clients[D].made \in SUBSET Write /\ clients[D - 1].made \in SUBSET Write
        /\ clients[D].spoilt \in BOOLEAN /\ clients[D - 1].spoilt \in BOOLEAN
    BY <2>1, ClientType
  <2> QED BY <1>11, <1>12, <2>2
<1>14. less[D - 1].made = clients[D - 1].made /\ less[D - 1].spoilt = clients[D - 1].spoilt
  <2>1. D - 1 \in 1 .. D - 1
    BY <1>3
  <2> QED BY <1>7, <1>10, <2>1 DEF Alike
<1>15. PICK rest : rest = Rejoined(less, D - 1, made, spoilt)
  OBVIOUS
<1>16. Popped(t, resolved) = rest
  <2> DEFINE C == task[t].clients
             P == SubSeq(C, 1, Depth(t) - 1)
             U == C[Depth(t)].via
             Q == Recounted(P, U, P[U].depth - 1)
  <2>1. Popped(t, resolved) =
          Rejoined(Q, Depth(t) - 1,
                   IF resolved THEN Q[Depth(t) - 1].made \cup C[Depth(t)].made
                               ELSE Q[Depth(t) - 1].made,
                   Q[Depth(t) - 1].spoilt \/ ~resolved \/ C[Depth(t)].spoilt)
    BY DEF Popped, Recounted, Rejoined
  <2>2. C = clients /\ Depth(t) = D
    BY <1>1, <1>2 DEF Depth
  <2>3. P = part /\ U = v
    BY <1>4, <1>6, <2>2
  <2>4. Q = less
    BY <1>8, <2>3
  <2> HIDE DEF Q, U, P, C
  <2>5. Popped(t, resolved) = Rejoined(less, D - 1, made, spoilt)
    BY <1>11, <1>12, <1>14, <2>1, <2>2, <2>4
  <2> QED BY <1>15, <2>5
<1>17. /\ rest \in Seq(Client)
       /\ Len(rest) = D - 1
       /\ \A j \in 1 .. D - 1 :
              /\ rest[j].via = less[j].via
              /\ rest[j].depth = less[j].depth
              /\ rest[j].name = less[j].name
              /\ j # D - 1 => rest[j].made = less[j].made /\ rest[j].spoilt = less[j].spoilt
       /\ rest[D - 1].made = made /\ rest[D - 1].spoilt = spoilt
  <2>1. D - 1 \in 1 .. Len(less)
    BY <1>3, <1>10
  <2>2. RejoinedFrom(rest, less, D - 1, made, spoilt)
    BY <1>10, <1>13, <1>15, <2>1, RejoinedIs
  <2>3. Len(less) = D - 1
    BY <1>10
  <2> QED BY <2>2, <2>3 DEF RejoinedFrom
<1>18. \A j \in 1 .. D - 1 :
          /\ rest[j].via = clients[j].via
          /\ rest[j].depth = IF j = v THEN clients[j].depth - 1 ELSE clients[j].depth
  BY <1>7, <1>10, <1>17
<1>19. ClientsOK(rest)
  <2>1. \A j \in 1 .. D - 1 : rest[j].via = clients[j].via
    BY <1>18
  <2>2. \A j \in 1 .. D - 1 : rest[j].depth = IF j = v THEN clients[j].depth - 1
                                                    ELSE clients[j].depth
    BY <1>18
  <2>3. rest \in Seq(Client) /\ ReturnedFrom(rest, clients, D, v)
    BY <1>17, <2>1, <2>2 DEF ReturnedFrom
  <2> QED BY <1>2, <1>3, <1>4, <2>3, CountedOut
<1>20. Alike(rest, clients, D - 2)
  <2> SUFFICES ASSUME NEW j \in 1 .. D - 2
               PROVE  /\ rest[j].name = clients[j].name /\ rest[j].made = clients[j].made
                      /\ rest[j].spoilt = clients[j].spoilt
    BY DEF Alike
  <2>1. j \in 1 .. D - 1 /\ j # D - 1
    OBVIOUS
  <2> QED BY <1>7, <1>10, <1>17, <2>1 DEF Alike
<1>21. rest[D - 1].name = clients[D - 1].name
  <2>1. D - 1 \in 1 .. D - 1
    BY <1>3
  <2> QED BY <1>7, <1>10, <1>17, <2>1 DEF Alike
<1> QED BY <1>1, <1>2, <1>11, <1>12, <1>16, <1>17, <1>19, <1>20, <1>21 DEF PoppedFrom

-----------------------------------------------------------------------------
(***************************************************************************)
(* The inductive invariant.                                                *)
(***************************************************************************)

Running == {"open", "ending"}

Live(t) == task[t].pc \in Running

\* What a caller's transactions have left behind; on SQLite nothing stays.
Spared(lite, k) == IF lite THEN {} ELSE k.spared

\* A caller k with its detached task ch and the stack of its connection.
CallerOK(lite, k, ch, stack) ==
    /\ k.pc \in {"idle", "queued"} =>
           k.conn = None /\ ch.pc = "none" /\ k.refused = FALSE
    /\ k.pc \in Running => /\ k.conn \in Connections
                           /\ ClientsOK(k.clients)
                           /\ Nested(lite, k.clients, stack, Spared(lite, k))
    /\ k.pc \in {"ending", "ended"} => Len(k.clients) = 1
    /\ ch.pc # "none" => k.conn \in Connections

\* What a caller has written is its own.
OwnedBy(k, t) ==
    /\ \A w \in k.spared : w[1] = t
    /\ \A i \in 1 .. Len(k.clients) : \A w \in k.clients[i].made : w[1] = t

\* A connection belongs to one transaction, and to the calls that were made
\* before an earlier one on it had ended.
Exclusive ==
    \A t, u \in Tasks :
        t # u /\ Live(t) /\ task[u].conn = task[t].conn
        => ~Live(u) /\ child[u].pc # "calling"

\* What is not committed belongs to an open transaction.
Occupied ==
    \A c \in Connections :
        conn[c].stack # <<>> => \E t \in Tasks : Live(t) /\ task[t].conn = c

\* Those who wait have been called, and wait once.
Waiting ==
    /\ \A k \in 1 .. Len(queue) : task[queue[k]].pc = "queued"
    /\ \A j, k \in 1 .. Len(queue) : queue[j] = queue[k] => j = k

CallersOK ==
    \A t \in Tasks :
        /\ CallerOK(adapter = "sqlite", task[t], child[t], conn[task[t].conn].stack)
        /\ OwnedBy(task[t], t)

\* The writes in the database, of one caller.
KeptOf(t, k, ch, lite, base) ==
    /\ k.pc = "ended" /\ k.outcome = "resolved" /\ k.refused = FALSE =>
           k.clients[1].made \subseteq base
    /\ \A w \in base : w[1] = t =>
        \/ /\ k.pc = "ended" /\ k.outcome \in {"resolved", "unknown"} /\ k.refused = FALSE
           /\ w \in k.clients[1].made \cup Spared(lite, k)
        \/ ch.stray /\ w = <<t, 0>>

Kept == \A t \in Tasks : KeptOf(t, task[t], child[t], adapter = "sqlite", db)

\* What a transaction remembers of the refused statements is the state of its
\* connection, and no other connection is aborted.
Marked ==
    /\ \A t \in Tasks : Live(t) => task[t].refused = conn[task[t].conn].aborted
    /\ \A c \in Connections :
           (\A t \in Tasks : task[t].conn = c => ~Live(t)) => conn[c].aborted = FALSE

IInv == TypeOK /\ CallersOK /\ Exclusive /\ Occupied /\ Waiting /\ Kept

LEMMA KeptProperties ==
    ASSUME TypeOK
    PROVE  Kept => ResolvedIsKept /\ NothingElseIsKept
<1>1. adapter = "sqlite" \/ adapter = "postgres"
  BY DatabaseClientConstants DEF TypeOK
<1>0. \A t \in Tasks : task[t].refused \in BOOLEAN
  BY DEF TypeOK, Task
<1>2. Kept => ResolvedIsKept
  BY <1>0 DEF Kept, KeptOf, ResolvedIsKept, Closed, Made
<1>3. Kept => NothingElseIsKept
  BY <1>0, <1>1 DEF Kept, KeptOf, NothingElseIsKept, Closed, Made, Spared
<1> QED BY <1>2, <1>3

LEMMA InitInv == Init => IInv
<1> SUFFICES ASSUME Init PROVE IInv
  OBVIOUS
<1>1. TypeOK
  <2>1. <<>> \in Seq(Client) /\ <<>> \in Seq(Savepoint) /\ <<>> \in Seq(Tasks)
    BY EmptySeq
  <2>2. [pc |-> "idle", call |-> "statement", conn |-> None, clients |-> <<>>,
         outcome |-> "none", spared |-> {}, refused |-> FALSE] \in Task
    BY <2>1 DEF Task
  <2>3. [pc |-> "none", stray |-> FALSE] \in Child
    BY DEF Child
  <2>4. Idle \in Connection
    BY <2>1 DEF Idle, Connection
  <2>5. task \in [Tasks -> Task]
    BY <2>2 DEF Init
  <2>6. child \in [Tasks -> Child]
    BY <2>3 DEF Init
  <2>7. conn \in [Connections -> Connection]
    BY <2>4 DEF Init
  <2> QED BY <2>1, <2>5, <2>6, <2>7 DEF Init, TypeOK
<1>2. \A t \in Tasks : /\ task[t].pc = "idle" /\ task[t].conn = None /\ task[t].spared = {}
                       /\ task[t].clients = <<>> /\ task[t].refused = FALSE
                       /\ child[t].pc = "none"
  BY DEF Init
<1>3. Len(<<>>) = 0
  OBVIOUS
<1>4. CallersOK
  BY <1>2, <1>3 DEF CallersOK, CallerOK, OwnedBy, Running
<1>5. Exclusive
  BY <1>2 DEF Exclusive, Live, Running
<1>6. Occupied
  BY DEF Init, Occupied, Idle
<1>7. Waiting
  BY <1>3 DEF Init, Waiting
<1>8. Kept
  BY <1>2 DEF Init, Kept, KeptOf
<1> QED BY <1>1, <1>4, <1>5, <1>6, <1>7, <1>8 DEF IInv

\* A step of a transaction that stays open.
LEMMA Working ==
    ASSUME IInv, NEW t \in Tasks, Live(t), UNCHANGED <<adapter, queue, db>>,
           steps' \in Nat, faults' \in Nat,
           NEW k \in Task, NEW ch \in Child, NEW cn \in Connection,
           task' = [task EXCEPT ![t] = k],
           child' = [child EXCEPT ![t] = ch],
           conn' = [conn EXCEPT ![task[t].conn] = cn],
           k.pc \in Running, k.conn = task[t].conn, ch.stray = child[t].stray,
           CallerOK(adapter = "sqlite", k, ch, cn.stack),
           OwnedBy(k, t)
    PROVE  IInv'
<1>1. TypeOK /\ CallersOK /\ Exclusive /\ Occupied /\ Waiting /\ Kept
  BY DEF IInv
<1>2. PICK c \in Connections : c = task[t].conn
  BY <1>1 DEF CallersOK, CallerOK, Live
<1>3. /\ task \in [Tasks -> Task] /\ child \in [Tasks -> Child]
      /\ conn \in [Connections -> Connection]
  BY <1>1 DEF TypeOK
<1>4. /\ task'[t] = k /\ child'[t] = ch /\ conn'[c] = cn
      /\ \A u \in Tasks \ {t} : task'[u] = task[u] /\ child'[u] = child[u]
      /\ \A d \in Connections \ {c} : conn'[d] = conn[d]
  BY <1>2, <1>3
<1>5. \A u \in Tasks : Live(u)' <=> Live(u)
  BY <1>4 DEF Live
<1>6. \A u \in Tasks : task'[u].conn = task[u].conn
  BY <1>4
<1>7. TypeOK'
  <2>1. task' \in [Tasks -> Task] /\ child' \in [Tasks -> Child]
    BY <1>3
  <2>2. conn' \in [Connections -> Connection]
    BY <1>2, <1>3
  <2> QED BY <1>1, <2>1, <2>2 DEF TypeOK
<1>8. CallersOK'
  <2> SUFFICES ASSUME NEW u \in Tasks
               PROVE  /\ CallerOK(adapter = "sqlite", task'[u], child'[u], conn'[task'[u].conn].stack)
                      /\ OwnedBy(task'[u], u)
    BY DEF CallersOK
  <2>1. CASE u = t
    <3>1. conn'[task'[u].conn].stack = cn.stack
      BY <1>2, <1>4, <2>1
    <3> QED BY <1>4, <2>1, <3>1
  <2>2. CASE u # t
    <3>1. /\ CallerOK(adapter = "sqlite", task[u], child[u], conn[task[u].conn].stack)
          /\ OwnedBy(task[u], u)
      BY <1>1 DEF CallersOK
    <3>2. CASE Live(u)
      <4>1. task[u].conn \in Connections
        BY <3>1, <3>2 DEF CallerOK, Live
      <4>2. task[u].conn # c
        BY <1>1, <1>2, <2>2, <3>2 DEF Exclusive
      <4> QED BY <1>4, <2>2, <3>1, <4>1, <4>2
    <3>3. CASE ~Live(u)
      BY <1>4, <2>2, <3>1, <3>3 DEF CallerOK, Live
    <3> QED BY <3>2, <3>3
  <2> QED BY <2>1, <2>2
<1>9. Exclusive'
  <2> SUFFICES ASSUME NEW a \in Tasks, NEW b \in Tasks, a # b, Live(a),
                      task[b].conn = task[a].conn
               PROVE  ~Live(b) /\ child'[b].pc # "calling"
    BY <1>5, <1>6 DEF Exclusive
  <2>1. ~Live(b) /\ child[b].pc # "calling"
    BY <1>1 DEF Exclusive
  <2> QED BY <1>4, <2>1
<1>10. Occupied'
  <2> SUFFICES ASSUME NEW d \in Connections, conn'[d].stack # <<>>
               PROVE  \E u \in Tasks : Live(u) /\ task[u].conn = d
    BY <1>5, <1>6 DEF Occupied
  <2>1. CASE d = c
    BY <1>2, <2>1
  <2>2. CASE d # c
    BY <1>1, <1>4, <2>2 DEF Occupied
  <2> QED BY <2>1, <2>2
<1>11. Waiting'
  <2>1. \A i \in 1 .. Len(queue) : queue[i] # t
    BY <1>1 DEF Waiting, Live, Running
  <2>2. \A i \in 1 .. Len(queue) : queue[i] \in Tasks
    BY <1>1, ElementOfSeq DEF TypeOK
  <2>3. \A i \in 1 .. Len(queue) : task'[queue[i]] = task[queue[i]]
    BY <1>4, <2>1, <2>2
  <2> QED BY <1>1, <2>3 DEF Waiting
<1>12. Kept'
  <2> SUFFICES ASSUME NEW u \in Tasks
               PROVE  KeptOf(u, task'[u], child'[u], adapter = "sqlite", db)
    BY DEF Kept
  <2>0. KeptOf(u, task[u], child[u], adapter = "sqlite", db)
    BY <1>1 DEF Kept
  <2>1. CASE u = t
    <3>1. k.pc # "ended" /\ task[t].pc # "ended"
      BY DEF Running, Live
    <3> QED BY <1>4, <2>0, <2>1, <3>1 DEF KeptOf
  <2>2. CASE u # t
    BY <1>4, <2>0, <2>2
  <2> QED BY <2>1, <2>2
<1> QED BY <1>7, <1>8, <1>9, <1>10, <1>11, <1>12 DEF IInv

-----------------------------------------------------------------------------
(***************************************************************************)
(* The steps of a callback.                                                *)
(***************************************************************************)

\* What is known of a transaction that is open.
LiveFacts(t, c, clients, stack, sp, D, L) ==
    /\ task[t] \in Task /\ child[t] \in Child /\ conn[c] \in Connection
    /\ c \in Connections /\ c = task[t].conn
    /\ clients = task[t].clients /\ clients \in Seq(Client)
    /\ stack = conn[c].stack /\ stack \in Stacks
    /\ sp = Spared(adapter = "sqlite", task[t])
    /\ D \in Nat /\ D = Len(clients) /\ D = Depth(t) /\ D >= 1
    /\ L \in Nat /\ L = Len(stack) /\ L >= 1
    /\ ClientsOK(clients)
    /\ Nested(adapter = "sqlite", clients, stack, sp)
    /\ child[t].pc # "none" => c \in Connections
    /\ task[t].pc = "ending" => D = 1
    /\ OwnedBy(task[t], t)

LEMMA LiveKnown ==
    ASSUME IInv, NEW t \in Tasks, Live(t)
    PROVE  \E c, clients, stack, sp, D, L : LiveFacts(t, c, clients, stack, sp, D, L)
<1>1. /\ CallerOK(adapter = "sqlite", task[t], child[t], conn[task[t].conn].stack)
      /\ OwnedBy(task[t], t)
  BY DEF IInv, CallersOK
<1>2. PICK c \in Connections : c = task[t].conn
  BY <1>1 DEF CallerOK, Live
<1>3. task[t] \in Task /\ child[t] \in Child /\ conn[c] \in Connection
  BY DEF IInv, TypeOK
<1>4. PICK clients \in Seq(Client) : clients = task[t].clients
  BY <1>3 DEF Task
<1>5. PICK stack \in Stacks : stack = conn[c].stack
  BY <1>3 DEF Connection, Stacks
<1>6. PICK D \in Nat, L \in Nat : D = Len(clients) /\ L = Len(stack)
  BY LenProperties DEF Stacks
<1>7. PICK sp : sp = Spared(adapter = "sqlite", task[t])
  OBVIOUS
<1>8. ClientsOK(clients) /\ Nested(adapter = "sqlite", clients, stack, sp)
  BY <1>1, <1>2, <1>4, <1>5, <1>7 DEF CallerOK, Live
<1>9. D >= 1 /\ D = Depth(t)
  BY <1>4, <1>6, <1>8 DEF ClientsOK, Depth
<1>10. L >= 1
  <2>1. PICK p : Placed(adapter = "sqlite", clients, stack, sp, p)
    BY <1>8 DEF Nested
  <2>2. Len(clients) >= 1
    BY <1>6, <1>9
  <2>3. \A i \in 1 .. Len(clients) : p[i] \in 1 .. Len(stack)
    BY <2>1, <2>2, PlacesWithin
  <2>4. 1 \in 1 .. Len(clients)
    BY <1>6, <2>2
  <2>5. p[1] \in 1 .. Len(stack)
    BY <2>3, <2>4
  <2> QED BY <1>6, <2>5
<1>11. task[t].pc = "ending" => D = 1
  BY <1>1, <1>4, <1>6 DEF CallerOK
<1>12. LiveFacts(t, c, clients, stack, sp, D, L)
  BY <1>1, <1>2, <1>3, <1>4, <1>5, <1>6, <1>7, <1>8, <1>9, <1>10, <1>11 DEF LiveFacts
<1> QED BY <1>12

WrittenFrom(top, stack, L, w) ==
    /\ top \in Stacks
    /\ Len(top) = L
    /\ \A k \in 1 .. L : top[k].name = stack[k].name
    /\ \A k \in 1 .. L - 1 : top[k].writes = stack[k].writes
    /\ top[L].writes = stack[L].writes \cup {w}

LEMMA WrittenIs ==
    ASSUME NEW stack \in Stacks, NEW L \in Nat, L = Len(stack), L >= 1, NEW w \in Write
    PROVE  WrittenFrom(Written(stack, w), stack, L, w)
<1>1. PICK e : e = [stack[L] EXCEPT !.writes = stack[L].writes \cup {w}]
  OBVIOUS
<1>2. L \in 1 .. Len(stack)
  OBVIOUS
<1>3. stack[L] \in Savepoint
  BY <1>2, ElementOfSeq DEF Stacks
<1>4. e \in Savepoint /\ e.name = stack[L].name /\ e.writes = stack[L].writes \cup {w}
  BY <1>1, <1>3 DEF Savepoint
<1>5. PICK top : top = [stack EXCEPT ![L] = e]
  OBVIOUS
<1>6. Written(stack, w) = top
  BY <1>1, <1>5 DEF Written
<1>7. /\ top \in Seq(Savepoint)
      /\ Len(top) = Len(stack)
      /\ \A j \in 1 .. Len(stack) : top[j] = IF j = L THEN e ELSE stack[j]
  BY <1>2, <1>4, <1>5, ExceptSeq DEF Stacks
<1>8. \A j \in 1 .. L - 1 : j \in 1 .. Len(stack) /\ j # L
  OBVIOUS
<1> QED BY <1>2, <1>4, <1>6, <1>7, <1>8 DEF WrittenFrom, Stacks

WriteKept(lite, clients, stack, sp, D, w) ==
    LET made == clients[D].made \cup {w}
        more == Remade(clients, D, made)
    IN /\ RemadeFrom(more, clients, D, made)
       /\ more \in Seq(Client) /\ Len(more) = D
       /\ ClientsOK(more)
       /\ Written(stack, w) \in Stacks
       /\ Nested(lite, more, Written(stack, w), sp)

\* The innermost client and the top of the stack take a write.
LEMMA WriteKeeps ==
    ASSUME NEW lite, NEW clients \in Seq(Client), NEW stack \in Stacks, NEW sp,
           NEW D \in Nat, D = Len(clients), D >= 1, Len(stack) >= 1,
           ClientsOK(clients), Nested(lite, clients, stack, sp), NEW w \in Write
    PROVE  WriteKept(lite, clients, stack, sp, D, w)
<1>0. PICK L \in Nat : L = Len(stack) /\ L >= 1
  BY LenProperties DEF Stacks
<1> DEFINE more == Remade(clients, D, clients[D].made \cup {w})
<1>1. D \in 1 .. Len(clients)
  OBVIOUS
<1>2. clients[D].made \in SUBSET Write
  BY <1>1, ClientType
<1>3. PICK m \in SUBSET Write : m = clients[D].made \cup {w}
  BY <1>2
<1>4. RemadeFrom(more, clients, D, m)
  BY <1>1, <1>3, RemadeIs
<1> HIDE DEF more
<1>5. /\ more \in Seq(Client)
      /\ Len(more) = D
      /\ \A j \in 1 .. D :
             /\ more[j].via = clients[j].via
             /\ more[j].depth = clients[j].depth
             /\ more[j].name = clients[j].name
             /\ more[j].spoilt = clients[j].spoilt
             /\ more[j].made = IF j = D THEN m ELSE clients[j].made
  BY <1>4 DEF RemadeFrom
<1>6. ClientsOK(more)
  <2>1. \A j \in 1 .. Len(clients) : more[j].via = clients[j].via
    BY <1>5
  <2>2. \A j \in 1 .. Len(clients) : more[j].depth >= clients[j].depth
    <3> SUFFICES ASSUME NEW j \in 1 .. Len(clients) PROVE more[j].depth >= clients[j].depth
      OBVIOUS
    <3>1. clients[j].depth \in Nat
      BY ClientType
    <3>2. more[j].depth = clients[j].depth
      BY <1>5
    <3> QED BY <3>1, <3>2
  <2> QED BY <1>5, <2>1, <2>2, CountedAlike
<1>7. WrittenFrom(Written(stack, w), stack, L, w)
  BY <1>0, WrittenIs
<1>8. Alike(more, clients, D - 1)
  <2>1. \A j \in 1 .. D - 1 : j \in 1 .. D /\ j # D
    OBVIOUS
  <2> QED BY <1>5, <2>1 DEF Alike
<1>9. /\ more[D].name = clients[D].name /\ more[D].spoilt = clients[D].spoilt
      /\ more[D].made = clients[D].made \cup {w}
  BY <1>1, <1>3, <1>5
<1>10. PICK top \in Stacks : top = Written(stack, w)
  BY <1>7 DEF WrittenFrom
<1>11. /\ Len(top) = L
       /\ \A k \in 1 .. L : top[k].name = stack[k].name
       /\ \A k \in 1 .. L - 1 : top[k].writes = stack[k].writes
       /\ top[L].writes = stack[L].writes \cup {w}
  BY <1>7, <1>10 DEF WrittenFrom
<1>12. Nested(lite, more, top, sp)
  <2>1. WroteTo(more, clients, top, stack, D, L, w)
    BY <1>5, <1>8, <1>9, <1>11 DEF WroteTo
  <2> QED BY <1>0, <1>5, <2>1, Writing
<1> QED BY <1>3, <1>4, <1>5, <1>6, <1>10, <1>12 DEF more, WriteKept

LEMMA LiveWrite ==
    ASSUME NEW t, NEW c, NEW clients, NEW stack, NEW sp, NEW D, NEW L,
           LiveFacts(t, c, clients, stack, sp, D, L), NEW w \in Write
    PROVE  WriteKept(adapter = "sqlite", clients, stack, sp, D, w)
<1>1. PICK lite : lite = (adapter = "sqlite")
  OBVIOUS
<1>2. /\ clients \in Seq(Client) /\ stack \in Stacks
      /\ D \in Nat /\ D = Len(clients) /\ D >= 1
      /\ L \in Nat /\ L = Len(stack) /\ L >= 1
      /\ ClientsOK(clients)
      /\ Nested(lite, clients, stack, sp)
  BY <1>1 DEF LiveFacts
<1>3. WriteKept(lite, clients, stack, sp, D, w)
  BY <1>2, WriteKeeps
<1> QED BY <1>1, <1>3

LEMMA OwnedWrite ==
    ASSUME NEW k, NEW t, OwnedBy(k, t), NEW clients \in Seq(Client), clients = k.clients,
           NEW D \in Nat, D = Len(clients), NEW w, w[1] = t,
           NEW m, m = clients[D].made \cup {w}, D >= 1,
           NEW more, RemadeFrom(more, clients, D, m), NEW k2, k2.clients = more,
           k2.spared = k.spared
    PROVE  OwnedBy(k2, t)
<1>1. D \in 1 .. Len(clients)
  OBVIOUS
<1>2. \A i \in 1 .. D : more[i].made = IF i = D THEN m ELSE clients[i].made
  BY DEF RemadeFrom
<1>3. Len(more) = D
  BY DEF RemadeFrom
<1>4. \A i \in 1 .. D : \A v \in clients[i].made : v[1] = t
  BY DEF OwnedBy
<1>5. \A i \in 1 .. D : \A v \in more[i].made : v[1] = t
  <2>1. \A v \in m : v[1] = t
    BY <1>1, <1>4
  <2> QED BY <1>2, <1>4, <2>1
<1>6. \A v \in k2.spared : v[1] = t
  BY DEF OwnedBy
<1> QED BY <1>3, <1>5, <1>6 DEF OwnedBy


\* A task as it is after a step that leaves it in its callback.
Continued(k, t, more, spared) ==
    /\ k \in Task
    /\ k.pc = task[t].pc /\ k.conn = task[t].conn
    /\ k.clients = more /\ k.spared = spared

LEMMA ContinuedIs ==
    ASSUME NEW t \in Tasks, task[t] \in Task, NEW more \in Seq(Client),
           NEW spared \in SUBSET Write, NEW refused \in BOOLEAN
    PROVE  /\ Continued([task[t] EXCEPT !.clients = more], t, more, task[t].spared)
           /\ Continued([task[t] EXCEPT !.clients = more, !.spared = spared,
                                        !.refused = refused], t, more, spared)
BY DEF Task, Continued

LEMMA Reworked ==
    ASSUME IInv, NEW t \in Tasks, Live(t), UNCHANGED <<adapter, queue, db>>,
           steps' \in Nat, faults' \in Nat,
           NEW more, NEW spared, NEW k, Continued(k, t, more, spared),
           task[t].pc = "ending" => Len(more) = 1,
           NEW ch \in Child, ch.stray = child[t].stray,
           NEW cn \in Connection,
           task' = [task EXCEPT ![t] = k],
           child' = [child EXCEPT ![t] = ch],
           conn' = [conn EXCEPT ![task[t].conn] = cn],
           ClientsOK(more),
           Nested(adapter = "sqlite", more, cn.stack,
                  IF adapter = "sqlite" THEN {} ELSE spared),
           OwnedBy(k, t)
    PROVE  IInv'
<1>1. CallerOK(adapter = "sqlite", task[t], child[t], conn[task[t].conn].stack)
  BY DEF IInv, CallersOK
<1>2. task[t].conn \in Connections
  BY <1>1 DEF CallerOK, Live
<1>3. /\ k \in Task /\ k.pc = task[t].pc /\ k.conn = task[t].conn
      /\ k.clients = more /\ k.spared = spared
  BY DEF Continued
<1>4. Spared(adapter = "sqlite", k) = IF adapter = "sqlite" THEN {} ELSE spared
  BY <1>3 DEF Spared
<1>5. k.pc \in Running
  BY <1>3 DEF Live
<1>6. k.pc \notin {"idle", "queued", "ended"}
  BY <1>5 DEF Running
<1>7. CallerOK(adapter = "sqlite", k, ch, cn.stack)
  BY <1>2, <1>3, <1>4, <1>5, <1>6 DEF CallerOK
<1> QED BY <1>3, <1>5, <1>7, Working

\* A statement in the transaction of t.
LEMMA WriteStep ==
    ASSUME IInv, NEW t \in Tasks, Live(t), UNCHANGED <<adapter, queue, db>>,
           steps' \in Nat, faults' \in Nat,
           NEW w \in Write, w[1] = t,
           NEW ch \in Child, ch.stray = child[t].stray,
           child' = [child EXCEPT ![t] = ch],
           task' = [task EXCEPT ![t].clients[Depth(t)].made = @ \cup {w}],
           conn' = [conn EXCEPT ![task[t].conn].stack = Written(@, w)]
    PROVE  IInv'
<1>1. PICK c, clients, stack, sp, D, L : LiveFacts(t, c, clients, stack, sp, D, L)
  BY LiveKnown
<1>2. /\ task[t] \in Task /\ conn[c] \in Connection
      /\ c \in Connections /\ c = task[t].conn
      /\ clients = task[t].clients /\ clients \in Seq(Client)
      /\ stack = conn[c].stack /\ stack \in Stacks
      /\ sp = Spared(adapter = "sqlite", task[t])
      /\ D \in Nat /\ D = Len(clients) /\ D = Depth(t) /\ D >= 1
      /\ L \in Nat /\ L = Len(stack) /\ L >= 1
      /\ ClientsOK(clients)
      /\ Nested(adapter = "sqlite", clients, stack, sp)
      /\ task[t].pc = "ending" => D = 1
      /\ OwnedBy(task[t], t)
  BY <1>1 DEF LiveFacts
<1>3. task \in [Tasks -> Task] /\ conn \in [Connections -> Connection]
  BY DEF IInv, TypeOK
<1>4. PICK more, m : more = Remade(clients, D, m) /\ m = clients[D].made \cup {w}
  OBVIOUS
<1>5. PICK top : top = Written(stack, w)
  OBVIOUS
<1>6. /\ RemadeFrom(more, clients, D, m)
      /\ more \in Seq(Client) /\ Len(more) = D
      /\ ClientsOK(more)
      /\ top \in Stacks
      /\ Nested(adapter = "sqlite", more, top, sp)
  <2>1. WriteKept(adapter = "sqlite", clients, stack, sp, D, w)
    BY <1>1, LiveWrite
  <2> QED BY <1>4, <1>5, <2>1 DEF WriteKept
<1>7. PICK k : k = [task[t] EXCEPT !.clients = more]
  OBVIOUS
<1>8. Continued(k, t, more, task[t].spared)
  BY <1>2, <1>6, <1>7, ContinuedIs DEF Task
<1>9. PICK cn : cn = [conn[c] EXCEPT !.stack = top]
  OBVIOUS
<1>10. cn \in Connection /\ cn.stack = top
  BY <1>2, <1>6, <1>9 DEF Connection, Stacks
<1>11. task' = [task EXCEPT ![t] = k]
  BY <1>2, <1>4, <1>7 DEF Remade
<1>12. conn' = [conn EXCEPT ![task[t].conn] = cn]
  BY <1>2, <1>5, <1>9
<1>13. OwnedBy(k, t)
  BY <1>2, <1>4, <1>6, <1>8, OwnedWrite DEF Continued
<1>14. sp = IF adapter = "sqlite" THEN {} ELSE task[t].spared
  BY <1>2 DEF Spared
<1>15. Nested(adapter = "sqlite", more, cn.stack,
              IF adapter = "sqlite" THEN {} ELSE task[t].spared)
  BY <1>6, <1>10, <1>14
<1> QED BY <1>2, <1>6, <1>8, <1>10, <1>11, <1>12, <1>13, <1>15, Reworked

LEMMA StatementInv == ASSUME IInv, NEW t \in Tasks, Statement(t) PROVE IInv'
<1>1. Live(t) /\ steps' \in Nat /\ steps' \in 0 .. MaxSteps /\ faults' \in Nat
  BY DatabaseClientConstants DEF Statement, Step, Live, Running, IInv, TypeOK
<1>2. PICK w : w = <<t, steps'>>
  OBVIOUS
<1>3. w \in Write /\ w[1] = t
  BY <1>1, <1>2 DEF Write
<1>4. PICK ch : ch = child[t]
  OBVIOUS
<1>5. ch \in Child /\ ch.stray = child[t].stray /\ child' = [child EXCEPT ![t] = ch]
  BY <1>4 DEF Statement, IInv, TypeOK
<1>6. /\ task' = [task EXCEPT ![t].clients[Depth(t)].made = @ \cup {w}]
      /\ conn' = [conn EXCEPT ![task[t].conn].stack = Written(@, w)]
      /\ UNCHANGED <<adapter, queue, db>>
  BY <1>2 DEF Statement
<1> QED BY <1>1, <1>3, <1>5, <1>6, WriteStep


\* A step that changes neither the clients of t nor the stack.
LEMMA QuietStep ==
    ASSUME IInv, NEW t \in Tasks, Live(t), UNCHANGED <<adapter, queue, db>>,
           steps' \in Nat, faults' \in Nat,
           NEW k \in Task, k.pc \in Running, k.conn = task[t].conn,
           k.clients = task[t].clients, k.spared = task[t].spared,
           k.pc = "ending" => Depth(t) = 1,
           NEW ch \in Child, ch.stray = child[t].stray,
           NEW cn \in Connection, cn.stack = conn[task[t].conn].stack,
           task' = [task EXCEPT ![t] = k],
           child' = [child EXCEPT ![t] = ch],
           conn' = [conn EXCEPT ![task[t].conn] = cn]
    PROVE  IInv'
<1>1. /\ CallerOK(adapter = "sqlite", task[t], child[t], conn[task[t].conn].stack)
      /\ OwnedBy(task[t], t)
  BY DEF IInv, CallersOK
<1>2. task[t].conn \in Connections
  BY <1>1 DEF CallerOK, Live
<1>3. OwnedBy(k, t)
  BY <1>1 DEF OwnedBy
<1>4. Spared(adapter = "sqlite", k) = Spared(adapter = "sqlite", task[t])
  BY DEF Spared
<1>5. k.pc \notin {"idle", "queued", "ended"}
  BY DEF Running
<1>6. k.pc = "ending" => Len(k.clients) = 1
  BY DEF Depth
<1>7. CallerOK(adapter = "sqlite", k, ch, cn.stack)
  BY <1>1, <1>2, <1>4, <1>5, <1>6 DEF CallerOK, Live
<1> QED BY <1>3, <1>7, Working

LEMMA Types == ASSUME IInv, NEW t \in Tasks
               PROVE  /\ task \in [Tasks -> Task] /\ task[t] \in Task
                      /\ child \in [Tasks -> Child] /\ child[t] \in Child
                      /\ conn \in [Connections -> Connection]
                      /\ Live(t) => /\ task[t].conn \in Connections
                                    /\ conn[task[t].conn] \in Connection
                                    /\ task[t].pc = "ending" => Depth(t) = 1
                      /\ steps \in Nat /\ faults \in Nat
<1>1. CallerOK(adapter = "sqlite", task[t], child[t], conn[task[t].conn].stack)
  BY DEF IInv, CallersOK
<1> QED BY <1>1 DEF IInv, TypeOK, CallerOK, Live, Depth

\* A statement of the transaction is refused.
LEMMA RefusesStep ==
    ASSUME IInv, NEW t \in Tasks, Live(t), UNCHANGED <<adapter, queue, db>>,
           steps' \in Nat, faults' \in Nat, Refuses(t),
           NEW ch \in Child, ch.stray = child[t].stray,
           child' = [child EXCEPT ![t] = ch]
    PROVE  IInv'
<1>1. /\ task \in [Tasks -> Task] /\ task[t] \in Task
      /\ conn \in [Connections -> Connection]
      /\ task[t].conn \in Connections /\ conn[task[t].conn] \in Connection
      /\ task[t].pc = "ending" => Depth(t) = 1
  BY Types
<1>2. PICK b \in BOOLEAN : b = (adapter = "postgres")
  OBVIOUS
<1>3. PICK cn, k : /\ cn = [conn[task[t].conn] EXCEPT !.aborted = b]
                   /\ k = [task[t] EXCEPT !.refused = b]
  OBVIOUS
<1>4. cn \in Connection /\ cn.stack = conn[task[t].conn].stack
  BY <1>1, <1>3 DEF Connection
<1>5. /\ k \in Task /\ k.pc = task[t].pc /\ k.conn = task[t].conn
      /\ k.clients = task[t].clients /\ k.spared = task[t].spared
  BY <1>1, <1>3 DEF Task
<1>6. task' = [task EXCEPT ![t] = k] /\ conn' = [conn EXCEPT ![task[t].conn] = cn]
  BY <1>1, <1>2, <1>3 DEF Refuses
<1>7. k.pc \in Running
  BY <1>5 DEF Live
<1> QED BY <1>1, <1>4, <1>5, <1>6, <1>7, QuietStep

LEMMA StatementFailsInv == ASSUME IInv, NEW t \in Tasks, StatementFails(t) PROVE IInv'
<1>1. Live(t) /\ steps' \in Nat /\ faults' \in Nat /\ UNCHANGED <<adapter, queue, db>>
  BY Types DEF StatementFails, Step, Live, Running
<1>2. PICK ch \in Child : ch = child[t]
  BY Types
<1>3. child' = [child EXCEPT ![t] = ch] /\ ch.stray = child[t].stray
  BY <1>2, Types DEF StatementFails
<1>4. Refuses(t)
  BY DEF StatementFails
<1> QED BY <1>1, <1>2, <1>3, <1>4, RefusesStep

LEMMA ReturnInv ==
    ASSUME IInv, NEW t \in Tasks, NEW outcome \in {"resolved", "rejected"},
           Return(t, outcome)
    PROVE  IInv'
<1>1. /\ Live(t) /\ steps' \in Nat /\ faults' \in Nat /\ UNCHANGED <<adapter, queue, db>>
      /\ Depth(t) = 1
  BY Types DEF Return, Live, Running, counters
<1>2. /\ task \in [Tasks -> Task] /\ task[t] \in Task
      /\ child \in [Tasks -> Child] /\ child[t] \in Child
      /\ conn \in [Connections -> Connection]
      /\ task[t].conn \in Connections /\ conn[task[t].conn] \in Connection
  BY <1>1, Types
<1>3. PICK k : k = [task[t] EXCEPT !.pc = "ending", !.outcome = outcome]
  OBVIOUS
<1>4. /\ k \in Task /\ k.pc = "ending" /\ k.conn = task[t].conn
      /\ k.clients = task[t].clients /\ k.spared = task[t].spared
  BY <1>2, <1>3 DEF Task
<1>5. k.pc \in Running
  BY <1>4 DEF Running
<1>6. /\ task' = [task EXCEPT ![t] = k] /\ child' = [child EXCEPT ![t] = child[t]]
      /\ conn' = [conn EXCEPT ![task[t].conn] = conn[task[t].conn]]
  BY <1>2, <1>3 DEF Return
<1> QED BY <1>1, <1>2, <1>4, <1>5, <1>6, QuietStep

LEMMA DetachInv == ASSUME IInv, NEW t \in Tasks, Detach(t) PROVE IInv'
<1>1. /\ Live(t) /\ steps' \in Nat /\ faults' \in Nat /\ UNCHANGED <<adapter, queue, db>>
      /\ task[t].pc = "open"
  BY Types DEF Detach, Live, Running, counters
<1>2. /\ task \in [Tasks -> Task] /\ task[t] \in Task
      /\ child \in [Tasks -> Child] /\ child[t] \in Child
      /\ conn \in [Connections -> Connection]
      /\ task[t].conn \in Connections /\ conn[task[t].conn] \in Connection
  BY <1>1, Types
<1>3. PICK ch : ch = [child[t] EXCEPT !.pc = "running"]
  OBVIOUS
<1>4. ch \in Child /\ ch.stray = child[t].stray
  BY <1>2, <1>3 DEF Child
<1>5. task[t].pc \in Running
  BY <1>1 DEF Live
<1>6. /\ task' = [task EXCEPT ![t] = task[t]] /\ child' = [child EXCEPT ![t] = ch]
      /\ conn' = [conn EXCEPT ![task[t].conn] = conn[task[t].conn]]
  BY <1>2, <1>3 DEF Detach
<1> QED BY <1>1, <1>2, <1>4, <1>5, <1>6, QuietStep

\* A detached task that calls, or is refused, while its transaction is open.
ChildTurns(t, pc) ==
    /\ child' = [child EXCEPT ![t].pc = pc]
    /\ UNCHANGED <<adapter, task, queue, conn, db, counters>>

LEMMA ChildQuietInv ==
    ASSUME IInv, NEW t \in Tasks, Live(t), NEW pc \in {"calling", "ended"},
           ChildTurns(t, pc)
    PROVE  IInv'
<1>1. steps' \in Nat /\ faults' \in Nat /\ UNCHANGED <<adapter, queue, db>>
  BY Types DEF counters, ChildTurns
<1>2. /\ task \in [Tasks -> Task] /\ task[t] \in Task
      /\ child \in [Tasks -> Child] /\ child[t] \in Child
      /\ conn \in [Connections -> Connection]
      /\ task[t].conn \in Connections /\ conn[task[t].conn] \in Connection
      /\ task[t].pc = "ending" => Depth(t) = 1
  BY Types
<1>3. PICK ch : ch = [child[t] EXCEPT !.pc = pc]
  OBVIOUS
<1>4. ch \in Child /\ ch.stray = child[t].stray
  BY <1>2, <1>3 DEF Child
<1>5. task[t].pc \in Running
  BY DEF Live
<1>6. PICK k \in Task, cn \in Connection : k = task[t] /\ cn = conn[task[t].conn]
  BY <1>2
<1>7. /\ task' = [task EXCEPT ![t] = k] /\ child' = [child EXCEPT ![t] = ch]
      /\ conn' = [conn EXCEPT ![task[t].conn] = cn]
  BY <1>2, <1>3, <1>6 DEF ChildTurns
<1>8. k.pc \in Running /\ (k.pc = "ending" => Depth(t) = 1)
  BY <1>2, <1>5, <1>6
<1> QED BY <1>1, <1>4, <1>6, <1>7, <1>8, QuietStep


\* The clients, the stack and the rejected writes that a step of t leaves are
\* as the invariant has them.
Reworks(t, more, top, spared) ==
    /\ more \in Seq(Client) /\ top \in Stacks /\ spared \in SUBSET Write
    /\ ClientsOK(more)
    /\ task[t].pc = "ending" => Len(more) = 1
    /\ Nested(adapter = "sqlite", more, top, IF adapter = "sqlite" THEN {} ELSE spared)
    /\ \A w \in spared : w[1] = t
    /\ \A i \in 1 .. Len(more) : \A w \in more[i].made : w[1] = t

Reworking(t, more, top, spared, refused, aborted) ==
    /\ task' = [task EXCEPT ![t] = [task[t] EXCEPT !.clients = more, !.spared = spared,
                                                   !.refused = refused]]
    /\ conn' = [conn EXCEPT ![task[t].conn] =
                   [conn[task[t].conn] EXCEPT !.stack = top, !.aborted = aborted]]
    /\ UNCHANGED <<adapter, child, queue, db>>
    /\ steps' \in Nat /\ faults' \in Nat

LEMMA ReworkStep ==
    ASSUME IInv, NEW t \in Tasks, Live(t), NEW more, NEW top, NEW spared,
           NEW refused \in BOOLEAN, NEW aborted \in BOOLEAN,
           Reworks(t, more, top, spared), Reworking(t, more, top, spared, refused, aborted)
    PROVE  IInv'
<1>1. /\ more \in Seq(Client) /\ top \in Stacks /\ spared \in SUBSET Write
      /\ ClientsOK(more)
      /\ task[t].pc = "ending" => Len(more) = 1
      /\ Nested(adapter = "sqlite", more, top, IF adapter = "sqlite" THEN {} ELSE spared)
  BY DEF Reworks
<1>2. /\ task[t] \in Task /\ conn[task[t].conn] \in Connection /\ child[t] \in Child
      /\ child \in [Tasks -> Child]
  BY Types
<1>3. PICK k : k = [task[t] EXCEPT !.clients = more, !.spared = spared, !.refused = refused]
  OBVIOUS
<1>4. Continued(k, t, more, spared)
  BY <1>1, <1>2, <1>3, ContinuedIs
<1>5. PICK cn : cn = [conn[task[t].conn] EXCEPT !.stack = top, !.aborted = aborted]
  OBVIOUS
<1>6. cn \in Connection /\ cn.stack = top
  BY <1>1, <1>2, <1>5 DEF Connection, Stacks
<1>7. OwnedBy(k, t)
  BY <1>4 DEF OwnedBy, Continued, Reworks
<1>8. PICK ch \in Child : ch = child[t]
  BY <1>2
<1>9. /\ task' = [task EXCEPT ![t] = k] /\ conn' = [conn EXCEPT ![task[t].conn] = cn]
      /\ child' = [child EXCEPT ![t] = ch]
      /\ UNCHANGED <<adapter, queue, db>> /\ steps' \in Nat /\ faults' \in Nat
  BY <1>2, <1>3, <1>5, <1>8 DEF Reworking
<1>10. ch.stray = child[t].stray
  BY <1>8
<1>11. Nested(adapter = "sqlite", more, cn.stack, IF adapter = "sqlite" THEN {} ELSE spared)
  BY <1>1, <1>6
<1> QED BY <1>1, <1>4, <1>6, <1>7, <1>9, <1>10, <1>11, Reworked

LEMMA NestedAlike ==
    ASSUME NEW lite, NEW clients \in Seq(Client), NEW stack, NEW sp,
           Nested(lite, clients, stack, sp),
           NEW more, Len(more) = Len(clients), Alike(more, clients, Len(clients))
    PROVE  Nested(lite, more, stack, sp)
<1>1. PICK p : Placed(lite, clients, stack, sp, p)
  BY DEF Nested
<1>2. PICK D \in Nat : D = Len(clients)
  BY LenProperties
<1>3. \A i \in 1 .. D : MadeUpTo(more, i) = MadeUpTo(clients, i)
  BY <1>2, MadeSame
<1>4. ASSUME NEW i \in 1 .. D
      PROVE  Between(more[i], stack, p[i], p[i + 1], MadeUpTo(more, i) \cup sp)
  <2>1. Between(clients[i], stack, p[i], p[i + 1], MadeUpTo(clients, i) \cup sp)
    BY <1>1, <1>2 DEF Placed
  <2>2. /\ more[i].name = clients[i].name /\ more[i].made = clients[i].made
        /\ more[i].spoilt = clients[i].spoilt
    BY <1>2 DEF Alike
  <2> QED BY <1>3, <2>1, <2>2 DEF Between
<1>5. Placed(lite, more, stack, sp, p)
  BY <1>1, <1>2, <1>4 DEF Placed
<1> QED BY <1>5 DEF Nested

LEMMA LiveRefused ==
    ASSUME NEW t, NEW c, NEW clients, NEW stack, NEW sp, NEW D, NEW L,
           LiveFacts(t, c, clients, stack, sp, D, L), NEW i \in 1 .. D
    PROVE  Reworks(t, Recounted(clients, i, clients[i].depth + 1), stack, task[t].spared)
<1>1. /\ task[t] \in Task
      /\ clients = task[t].clients /\ clients \in Seq(Client)
      /\ stack \in Stacks
      /\ sp = Spared(adapter = "sqlite", task[t])
      /\ D \in Nat /\ D = Len(clients)
      /\ ClientsOK(clients)
      /\ Nested(adapter = "sqlite", clients, stack, sp)
      /\ task[t].pc = "ending" => D = 1
      /\ OwnedBy(task[t], t)
  BY DEF LiveFacts
<1>2. PICK d \in Nat : d = clients[i].depth + 1 /\ clients[i].depth \in Nat
  <2>1. clients[i].depth \in Nat
    BY <1>1, ClientType
  <2> QED BY <2>1
<1>3. PICK more : more = Recounted(clients, i, d)
  OBVIOUS
<1>4. RecountedFrom(more, clients, i, d)
  BY <1>1, <1>2, <1>3, RecountedIs
<1>5. /\ more \in Seq(Client) /\ Len(more) = D /\ Alike(more, clients, D)
      /\ \A j \in 1 .. D : more[j].via = clients[j].via
      /\ \A j \in 1 .. D : more[j].depth = IF j = i THEN d ELSE clients[j].depth
  BY <1>1, <1>4 DEF RecountedFrom
<1>6. \A j \in 1 .. D : more[j].depth >= clients[j].depth
  <2> SUFFICES ASSUME NEW j \in 1 .. D PROVE more[j].depth >= clients[j].depth
    OBVIOUS
  <2>1. clients[j].depth \in Nat
    BY <1>1, ClientType
  <2>2. more[j].depth = IF j = i THEN clients[j].depth + 1 ELSE clients[j].depth
    BY <1>2, <1>5
  <2> QED BY <2>1, <2>2
<1>7. ClientsOK(more)
  BY <1>1, <1>5, <1>6, CountedAlike
<1>8. PICK lite : lite = (adapter = "sqlite")
  OBVIOUS
<1>9. Nested(lite, more, stack, sp)
  BY <1>1, <1>5, <1>8, NestedAlike
<1>10. sp = IF adapter = "sqlite" THEN {} ELSE task[t].spared
  BY <1>1 DEF Spared
<1>11. task[t].spared \in SUBSET Write /\ \A w \in task[t].spared : w[1] = t
  BY <1>1 DEF Task, OwnedBy
<1>12. \A j \in 1 .. Len(more) : \A w \in more[j].made : w[1] = t
  BY <1>1, <1>5 DEF OwnedBy, Alike
<1>13. Reworks(t, more, stack, task[t].spared)
  BY <1>1, <1>5, <1>7, <1>8, <1>9, <1>10, <1>11, <1>12 DEF Reworks
<1> QED BY <1>2, <1>3, <1>13

LEMMA NestRefusedInv ==
    ASSUME IInv, NEW t \in Tasks, NEW i \in 1 .. Depth(t), NestRefused(t, i)
    PROVE  IInv'
<1>1. Live(t) /\ steps' \in Nat /\ faults' \in Nat
  BY Types DEF NestRefused, Step, Live, Running
<1>2. PICK c, clients, stack, sp, D, L : LiveFacts(t, c, clients, stack, sp, D, L)
  BY <1>1, LiveKnown
<1>3. /\ task[t] \in Task /\ conn[c] \in Connection /\ c = task[t].conn
      /\ clients = task[t].clients /\ stack = conn[c].stack /\ D = Depth(t)
  BY <1>2 DEF LiveFacts
<1>4. PICK more, d : more = Recounted(clients, i, d) /\ d = clients[i].depth + 1
  OBVIOUS
<1>5. Reworks(t, more, stack, task[t].spared)
  BY <1>2, <1>3, <1>4, LiveRefused
<1>6. PICK k : k = [task[t] EXCEPT !.clients = more, !.spared = task[t].spared,
                                !.refused = task[t].refused]
  OBVIOUS
<1>7. k = [task[t] EXCEPT !.clients = more]
  BY <1>3, <1>6 DEF Task
<1>8. task' = [task EXCEPT ![t] = k]
  BY <1>3, <1>4, <1>7 DEF NestRefused, Recounted
<1>9. PICK b \in BOOLEAN : b = conn[c].aborted
  BY <1>3 DEF Connection
<1>10. conn[c] = [conn[c] EXCEPT !.stack = stack, !.aborted = b]
  BY <1>3, <1>9 DEF Connection
<1>11. conn \in [Connections -> Connection]
  BY Types
<1>12. conn' = [conn EXCEPT ![c] = [conn[c] EXCEPT !.stack = stack, !.aborted = b]]
  BY <1>10, <1>11 DEF NestRefused
<1>13. Reworking(t, more, stack, task[t].spared, task[t].refused, b)
  BY <1>1, <1>3, <1>6, <1>8, <1>12 DEF Reworking, NestRefused
<1>14. task[t].refused \in BOOLEAN
  BY <1>3 DEF Task
<1> QED BY <1>1, <1>5, <1>13, <1>14, ReworkStep


\* A nested transaction begins.
LEMMA LiveNested ==
    ASSUME IInv,
           NEW t, NEW c, NEW clients, NEW stack, NEW sp, NEW D, NEW L,
           LiveFacts(t, c, clients, stack, sp, D, L), D < MaxDepth,
           NEW i \in 1 .. D, NEW name \in Nat \cup {None},
           task[t].pc = "open"
    PROVE  Reworks(t, Append(Recounted(clients, i, clients[i].depth + 1), Opened(i, name)),
                   Append(stack, [name |-> name, writes |-> {}]), task[t].spared)
<1>1. /\ task[t] \in Task
      /\ clients = task[t].clients /\ clients \in Seq(Client)
      /\ stack \in Stacks
      /\ sp = Spared(adapter = "sqlite", task[t])
      /\ D \in Nat /\ D = Len(clients) /\ D >= 1
      /\ L \in Nat /\ L = Len(stack)
      /\ ClientsOK(clients)
      /\ Nested(adapter = "sqlite", clients, stack, sp)
      /\ OwnedBy(task[t], t)
  BY DEF LiveFacts
<1>2. PICK d \in Nat : d = clients[i].depth + 1 /\ clients[i].depth \in Nat
  <2>1. clients[i].depth \in Nat
    BY <1>1, ClientType
  <2> QED BY <2>1
<1>3. PICK before : before = Recounted(clients, i, d)
  OBVIOUS
<1>4. RecountedFrom(before, clients, i, d)
  BY <1>1, <1>2, <1>3, RecountedIs
<1>5. /\ before \in Seq(Client) /\ Len(before) = D /\ Alike(before, clients, D)
      /\ \A j \in 1 .. D : before[j].via = clients[j].via
      /\ \A j \in 1 .. D : before[j].depth = IF j = i THEN d ELSE clients[j].depth
  BY <1>1, <1>4 DEF RecountedFrom
<1>6. PICK client : client = Opened(i, name)
  OBVIOUS
<1>7. /\ client \in Client /\ client.depth = 0 /\ client.via = i /\ client.name = name
      /\ client.made = {}
  BY <1>1, <1>6, DatabaseClientConstants DEF Opened, Client
<1>8. PICK more : more = Append(before, client)
  OBVIOUS
<1>9. /\ more \in Seq(Client) /\ Len(more) = D + 1
      /\ \A j \in 1 .. D : more[j] = before[j]
      /\ more[D + 1] = client
  BY <1>1, <1>5, <1>7, <1>8, AppendProperties
<1>10. CalledIn(more, clients, D, i)
  BY <1>2, <1>5, <1>7, <1>9 DEF CalledIn
<1>11. ClientsOK(more)
  BY <1>1, <1>9, <1>10, CountedIn
<1>12. PICK point : point = [name |-> name, writes |-> {}]
  OBVIOUS
<1>13. point \in Savepoint /\ point.name = name /\ point.writes = {}
  BY <1>12 DEF Savepoint
<1>14. PICK top : top = Append(stack, point)
  OBVIOUS
<1>15. /\ top \in Stacks /\ Len(top) = L + 1
       /\ \A k \in 1 .. L : top[k] = stack[k]
       /\ top[L + 1] = point
  BY <1>1, <1>13, <1>14, AppendProperties DEF Stacks
<1>16. Alike(more, clients, D)
  BY <1>5, <1>9 DEF Alike
<1>17. PushedOn(more, clients, top, stack, D, L)
  BY <1>7, <1>9, <1>13, <1>15, <1>16 DEF PushedOn
<1>18. PICK lite : lite = (adapter = "sqlite")
  OBVIOUS
<1>19. Nested(lite, clients, stack, sp)
  BY <1>1, <1>18
<1>20. Nested(lite, more, top, sp)
  BY <1>1, <1>9, <1>15, <1>17, <1>19, Pushing
<1>21. sp = IF adapter = "sqlite" THEN {} ELSE task[t].spared
  BY <1>1 DEF Spared
<1>22. task[t].spared \in SUBSET Write /\ \A w \in task[t].spared : w[1] = t
  BY <1>1 DEF Task, OwnedBy
<1>23. \A j \in 1 .. Len(more) : \A w \in more[j].made : w[1] = t
  <2> SUFFICES ASSUME NEW j \in 1 .. D + 1 PROVE \A w \in more[j].made : w[1] = t
    BY <1>9
  <2>1. CASE j = D + 1
    BY <1>7, <1>9, <2>1
  <2>2. CASE j # D + 1
    <3>1. j \in 1 .. D
      BY <1>1, <2>2
    <3>2. more[j].made = clients[j].made
      BY <1>16, <3>1 DEF Alike
    <3> QED BY <1>1, <3>1, <3>2 DEF OwnedBy
  <2> QED BY <2>1, <2>2
<1>24. Reworks(t, more, top, task[t].spared)
  BY <1>9, <1>11, <1>15, <1>18, <1>20, <1>21, <1>22, <1>23 DEF Reworks
<1> QED BY <1>2, <1>3, <1>6, <1>8, <1>12, <1>14, <1>24

LEMMA NestInv ==
    ASSUME IInv, NEW t \in Tasks, NEW i \in 1 .. Depth(t), Nest(t, i)
    PROVE  IInv'
<1>1. /\ Live(t) /\ steps' \in Nat /\ faults' \in Nat /\ task[t].pc = "open"
      /\ Depth(t) < MaxDepth
  BY Types DEF Nest, Step, Live, Running
<1>2. PICK c, clients, stack, sp, D, L : LiveFacts(t, c, clients, stack, sp, D, L)
  BY <1>1, LiveKnown
<1>3. /\ task[t] \in Task /\ conn[c] \in Connection /\ c = task[t].conn
      /\ clients = task[t].clients /\ stack = conn[c].stack /\ D = Depth(t)
      /\ clients \in Seq(Client) /\ D = Len(clients) /\ D \in Nat /\ D >= 1
  BY <1>2 DEF LiveFacts
<1>4. PICK name \in Nat \cup {None} : name = SavepointName(t, i)
  <2>1. clients[i].depth \in Nat /\ task[t].clients[i].depth = clients[i].depth
    BY <1>3, ClientType
  <2>2. Depth(t) - 1 \in Nat
    BY <1>3
  <2>3. SavepointName(t, i) \in Nat
    BY <2>1, <2>2 DEF SavepointName
  <2> QED BY <2>3
<1>5. PICK more, d : /\ more = Append(Recounted(clients, i, d), Opened(i, name))
                     /\ d = clients[i].depth + 1
  OBVIOUS
<1>6. PICK top : top = Append(stack, [name |-> name, writes |-> {}])
  OBVIOUS
<1>7. Reworks(t, more, top, task[t].spared)
  BY <1>1, <1>2, <1>3, <1>5, <1>6, LiveNested
<1>8. PICK k : k = [task[t] EXCEPT !.clients = more, !.spared = task[t].spared,
                                !.refused = task[t].refused]
  OBVIOUS
<1>9. k = [task[t] EXCEPT !.clients = more]
  BY <1>3, <1>8 DEF Task
<1>10. task' = [task EXCEPT ![t] = k]
  BY <1>3, <1>4, <1>5, <1>9 DEF Nest, Recounted
<1>11. PICK b \in BOOLEAN : b = conn[c].aborted
  BY <1>3 DEF Connection
<1>12. PICK cn : cn = [conn[c] EXCEPT !.stack = top]
  OBVIOUS
<1>13. cn = [conn[c] EXCEPT !.stack = top, !.aborted = b]
  BY <1>3, <1>11, <1>12 DEF Connection
<1>14. conn' = [conn EXCEPT ![c] = cn]
  BY <1>3, <1>4, <1>6, <1>12 DEF Nest
<1>15. Reworking(t, more, top, task[t].spared, task[t].refused, b)
  BY <1>1, <1>3, <1>8, <1>10, <1>13, <1>14 DEF Reworking, Nest
<1>16. task[t].refused \in BOOLEAN
  BY <1>3 DEF Task
<1> QED BY <1>1, <1>7, <1>15, <1>16, ReworkStep


\* A nested transaction resolves, or is rejected.
LEMMA LiveResolved ==
    ASSUME NEW t \in Tasks, NEW c, NEW clients, NEW stack, NEW sp, NEW D, NEW L,
           LiveFacts(t, c, clients, stack, sp, D, L), D > 1
    PROVE  Reworks(t, Popped(t, TRUE), Released(stack, clients[D].name), task[t].spared)
<1>1. /\ task[t] \in Task
      /\ clients = task[t].clients /\ clients \in Seq(Client)
      /\ stack \in Stacks
      /\ sp = Spared(adapter = "sqlite", task[t])
      /\ D \in Nat /\ D = Len(clients) /\ D = Depth(t)
      /\ ClientsOK(clients)
      /\ Nested(adapter = "sqlite", clients, stack, sp)
      /\ task[t].pc = "ending" => D = 1
      /\ OwnedBy(task[t], t)
  BY DEF LiveFacts
<1>2. PICK rest : rest = Popped(t, TRUE)
  OBVIOUS
<1>3. PoppedFrom(rest, clients, TRUE)
  BY <1>1, <1>2, PoppedIs
<1>4. /\ rest \in Seq(Client) /\ Len(rest) = D - 1 /\ ClientsOK(rest)
      /\ Alike(rest, clients, D - 2)
      /\ rest[D - 1].name = clients[D - 1].name
      /\ rest[D - 1].made = clients[D - 1].made \cup clients[D].made
      /\ rest[D - 1].spoilt = (clients[D - 1].spoilt \/ clients[D].spoilt)
  BY <1>1, <1>3 DEF PoppedFrom
<1>5. PICK lite : lite = (adapter = "sqlite")
  OBVIOUS
<1>6. Nested(lite, clients, stack, sp)
  BY <1>1, <1>5
<1>7. ~rest[D - 1].spoilt => ~clients[D - 1].spoilt /\ ~clients[D].spoilt
  BY <1>4
<1>8. Left(lite, rest, Released(stack, clients[D].name), sp)
  <2>1. RestResolved(rest, clients, D)
    BY <1>4, <1>7 DEF RestResolved
  <2>2. /\ clients \in Seq(Client) /\ stack \in Stacks /\ rest \in Seq(Client)
        /\ D \in Nat /\ D = Len(clients) /\ D >= 2
    BY <1>1, <1>4
  <2> QED BY <1>6, <2>1, <2>2, Releasing
<1>9. PICK top : top = Released(stack, clients[D].name)
  OBVIOUS
<1>10. sp = IF adapter = "sqlite" THEN {} ELSE task[t].spared
  BY <1>1 DEF Spared
<1>11. task[t].spared \in SUBSET Write /\ \A w \in task[t].spared : w[1] = t
  BY <1>1 DEF Task, OwnedBy
<1>12. \A j \in 1 .. Len(rest) : \A w \in rest[j].made : w[1] = t
  <2> SUFFICES ASSUME NEW j \in 1 .. D - 1 PROVE \A w \in rest[j].made : w[1] = t
    BY <1>4
  <2>1. CASE j = D - 1
    <3>1. D - 1 \in 1 .. D /\ D \in 1 .. D
      BY <1>1
    <3>2. \A i \in 1 .. D : \A w \in clients[i].made : w[1] = t
      BY <1>1 DEF OwnedBy
    <3> QED BY <1>4, <2>1, <3>1, <3>2
  <2>2. CASE j # D - 1
    <3>1. j \in 1 .. D - 2 /\ j \in 1 .. D
      BY <1>1, <2>2
    <3>2. rest[j].made = clients[j].made
      BY <1>4, <3>1 DEF Alike
    <3> QED BY <1>1, <3>1, <3>2 DEF OwnedBy
  <2> QED BY <2>1, <2>2
<1>13. task[t].pc # "ending"
  BY <1>1
<1>14. Reworks(t, rest, top, task[t].spared)
  BY <1>4, <1>5, <1>8, <1>9, <1>10, <1>11, <1>12, <1>13 DEF Reworks, Left
<1> QED BY <1>2, <1>9, <1>14

LEMMA ResolveInv == ASSUME IInv, NEW t \in Tasks, Resolve(t) PROVE IInv'
<1>1. Live(t) /\ steps' \in Nat /\ faults' \in Nat /\ Depth(t) > 1
  BY Types DEF Resolve, Live, Running, counters
<1>2. PICK c, clients, stack, sp, D, L : LiveFacts(t, c, clients, stack, sp, D, L)
  BY <1>1, LiveKnown
<1>3. /\ task[t] \in Task /\ conn[c] \in Connection /\ c = task[t].conn
      /\ clients = task[t].clients /\ stack = conn[c].stack /\ D = Depth(t)
  BY <1>2 DEF LiveFacts
<1>4. PICK more : more = Popped(t, TRUE)
  OBVIOUS
<1>5. PICK top : top = Released(stack, clients[D].name)
  OBVIOUS
<1>6. Reworks(t, more, top, task[t].spared)
  BY <1>1, <1>2, <1>3, <1>4, <1>5, LiveResolved
<1>7. PICK k : k = [task[t] EXCEPT !.clients = more, !.spared = task[t].spared,
                                !.refused = task[t].refused]
  OBVIOUS
<1>8. k = [task[t] EXCEPT !.clients = more]
  BY <1>3, <1>7 DEF Task
<1>9. task' = [task EXCEPT ![t] = k]
  BY <1>3, <1>4, <1>8 DEF Resolve
<1>10. PICK b \in BOOLEAN : b = conn[c].aborted
  BY <1>3 DEF Connection
<1>11. PICK cn : cn = [conn[c] EXCEPT !.stack = top]
  OBVIOUS
<1>12. cn = [conn[c] EXCEPT !.stack = top, !.aborted = b]
  BY <1>3, <1>10, <1>11 DEF Connection
<1>13. conn' = [conn EXCEPT ![c] = cn]
  BY <1>3, <1>5, <1>11 DEF Resolve
<1>14. Reworking(t, more, top, task[t].spared, task[t].refused, b)
  BY <1>1, <1>3, <1>7, <1>9, <1>12, <1>13 DEF Reworking, Resolve
<1>15. task[t].refused \in BOOLEAN
  BY <1>3 DEF Task
<1> QED BY <1>1, <1>6, <1>14, <1>15, ReworkStep

LEMMA LiveRejected ==
    ASSUME NEW t \in Tasks, NEW c, NEW clients, NEW stack, NEW sp, NEW D, NEW L,
           LiveFacts(t, c, clients, stack, sp, D, L), D > 1,
           NEW spared, spared = IF clients[D].spoilt THEN task[t].spared \cup clients[D].made
                                ELSE task[t].spared
    PROVE  Reworks(t, Popped(t, FALSE), Undone(stack, clients[D].name), spared)
<1>1. /\ task[t] \in Task
      /\ clients = task[t].clients /\ clients \in Seq(Client)
      /\ stack \in Stacks
      /\ sp = Spared(adapter = "sqlite", task[t])
      /\ D \in Nat /\ D = Len(clients) /\ D = Depth(t)
      /\ ClientsOK(clients)
      /\ Nested(adapter = "sqlite", clients, stack, sp)
      /\ task[t].pc = "ending" => D = 1
      /\ OwnedBy(task[t], t)
  BY DEF LiveFacts
<1>2. PICK rest : rest = Popped(t, FALSE)
  OBVIOUS
<1>3. PoppedFrom(rest, clients, FALSE)
  BY <1>1, <1>2, PoppedIs
<1>4. /\ rest \in Seq(Client) /\ Len(rest) = D - 1 /\ ClientsOK(rest)
      /\ Alike(rest, clients, D - 2)
      /\ rest[D - 1].name = clients[D - 1].name
      /\ rest[D - 1].made = clients[D - 1].made
      /\ rest[D - 1].spoilt = TRUE
  BY <1>1, <1>3 DEF PoppedFrom
<1>5. PICK lite : lite = (adapter = "sqlite")
  OBVIOUS
<1>6. Nested(lite, clients, stack, sp)
  BY <1>1, <1>5
<1>7. PICK sp2 : sp2 = IF adapter = "sqlite" THEN {} ELSE spared
  OBVIOUS
<1>8. /\ sp \subseteq sp2
      /\ ~lite /\ clients[D].spoilt => clients[D].made \subseteq sp2
  BY <1>1, <1>5, <1>7 DEF Spared
<1>9. Left(lite, rest, Undone(stack, clients[D].name), sp2)
  <2>1. RestRejected(lite, rest, clients, D, sp, sp2)
    BY <1>4, <1>8 DEF RestRejected
  <2>2. /\ clients \in Seq(Client) /\ stack \in Stacks /\ rest \in Seq(Client)
        /\ D \in Nat /\ D = Len(clients) /\ D >= 2
    BY <1>1, <1>4
  <2> QED BY <1>5, <1>6, <2>1, <2>2, Undoing
<1>10. PICK top : top = Undone(stack, clients[D].name)
  OBVIOUS
<1>11. spared \in SUBSET Write /\ \A w \in spared : w[1] = t
  <2>1. D \in 1 .. Len(clients)
    BY <1>1
  <2>2. clients[D].made \in SUBSET Write /\ \A w \in clients[D].made : w[1] = t
    BY <1>1, <2>1, ClientType DEF OwnedBy
  <2>3. task[t].spared \in SUBSET Write /\ \A w \in task[t].spared : w[1] = t
    BY <1>1 DEF Task, OwnedBy
  <2> QED BY <2>2, <2>3
<1>12. \A j \in 1 .. Len(rest) : \A w \in rest[j].made : w[1] = t
  <2> SUFFICES ASSUME NEW j \in 1 .. D - 1 PROVE \A w \in rest[j].made : w[1] = t
    BY <1>4
  <2>1. j \in 1 .. D
    BY <1>1
  <2>2. rest[j].made = clients[j].made
    <3>1. CASE j = D - 1
      BY <1>4, <3>1
    <3>2. CASE j # D - 1
      <4>1. j \in 1 .. D - 2
        BY <1>1, <3>2
      <4> QED BY <1>4, <4>1 DEF Alike
    <3> QED BY <3>1, <3>2
  <2> QED BY <1>1, <2>1, <2>2 DEF OwnedBy
<1>13. task[t].pc # "ending"
  BY <1>1
<1>14. Reworks(t, rest, top, spared)
  BY <1>4, <1>5, <1>7, <1>9, <1>10, <1>11, <1>12, <1>13 DEF Reworks, Left
<1> QED BY <1>2, <1>10, <1>14

LEMMA RejectInv == ASSUME IInv, NEW t \in Tasks, Reject(t) PROVE IInv'
<1>1. Live(t) /\ steps' \in Nat /\ faults' \in Nat /\ Depth(t) > 1
  BY Types DEF Reject, Live, Running, counters
<1>2. PICK c, clients, stack, sp, D, L : LiveFacts(t, c, clients, stack, sp, D, L)
  BY <1>1, LiveKnown
<1>3. /\ task[t] \in Task /\ conn[c] \in Connection /\ c = task[t].conn
      /\ clients = task[t].clients /\ stack = conn[c].stack /\ D = Depth(t)
  BY <1>2 DEF LiveFacts
<1>4. PICK more : more = Popped(t, FALSE)
  OBVIOUS
<1>5. PICK top : top = Undone(stack, clients[D].name)
  OBVIOUS
<1>6. PICK spared : spared = IF clients[D].spoilt THEN task[t].spared \cup clients[D].made
                             ELSE task[t].spared
  OBVIOUS
<1>7. Reworks(t, more, top, spared)
  BY <1>1, <1>2, <1>3, <1>4, <1>5, <1>6, LiveRejected
<1>8. task' = [task EXCEPT ![t] = [task[t] EXCEPT !.clients = more, !.spared = spared,
                                                 !.refused = FALSE]]
  BY <1>3, <1>4, <1>6 DEF Reject
<1>9. PICK cn : cn = [conn[c] EXCEPT !.stack = top, !.aborted = FALSE]
  OBVIOUS
<1>10. cn = [stack |-> top, aborted |-> FALSE]
  BY <1>3, <1>9 DEF Connection
<1>11. conn' = [conn EXCEPT ![c] = cn]
  BY <1>3, <1>5, <1>10 DEF Reject
<1>12. Reworking(t, more, top, spared, FALSE, FALSE)
  BY <1>1, <1>3, <1>8, <1>9, <1>11 DEF Reworking, Reject
<1> QED BY <1>1, <1>7, <1>12, ReworkStep


-----------------------------------------------------------------------------
(***************************************************************************)
(* The steps that begin and end a call, and those of detached tasks.       *)
(***************************************************************************)

LEMMA CallInv ==
    ASSUME IInv, NEW t \in Tasks, NEW call \in {"statement", "transaction"}, Call(t, call)
    PROVE  IInv'
<1>1. TypeOK /\ CallersOK /\ Exclusive /\ Occupied /\ Waiting /\ Kept
  BY DEF IInv
<1>2. /\ task \in [Tasks -> Task] /\ child \in [Tasks -> Child]
      /\ conn \in [Connections -> Connection] /\ queue \in Seq(Tasks)
  BY <1>1 DEF TypeOK
<1>3. PICK k : k = [task[t] EXCEPT !.pc = "queued", !.call = call]
  OBVIOUS
<1>4. /\ k \in Task /\ k.pc = "queued" /\ k.conn = task[t].conn /\ k.clients = task[t].clients
      /\ k.spared = task[t].spared /\ k.refused = task[t].refused
  BY <1>2, <1>3 DEF Task
<1>5. /\ task[t].pc = "idle" /\ task' = [task EXCEPT ![t] = k]
      /\ queue' = Append(queue, t)
      /\ UNCHANGED <<adapter, child, conn, db, counters>>
  BY <1>3 DEF Call
<1>6. task'[t] = k /\ \A u \in Tasks \ {t} : task'[u] = task[u]
  BY <1>2, <1>5
<1>7. \A u \in Tasks : (Live(u)' <=> Live(u)) /\ task'[u].conn = task[u].conn
  BY <1>4, <1>5, <1>6 DEF Live, Running
<1>8. TypeOK'
  <2>1. task' \in [Tasks -> Task]
    BY <1>2, <1>4, <1>5
  <2>2. queue' \in Seq(Tasks)
    BY <1>2, <1>5, AppendProperties
  <2> QED BY <1>1, <1>5, <2>1, <2>2 DEF TypeOK, counters
<1>9. CallersOK'
  <2> SUFFICES ASSUME NEW u \in Tasks
               PROVE  /\ CallerOK(adapter = "sqlite", task'[u], child[u], conn[task'[u].conn].stack)
                      /\ OwnedBy(task'[u], u)
    BY <1>5 DEF CallersOK
  <2>1. /\ CallerOK(adapter = "sqlite", task[u], child[u], conn[task[u].conn].stack)
        /\ OwnedBy(task[u], u)
    BY <1>1 DEF CallersOK
  <2>2. CASE u = t
    BY <1>4, <1>5, <1>6, <2>1, <2>2 DEF CallerOK, OwnedBy, Running
  <2>3. CASE u # t
    BY <1>6, <2>1, <2>3
  <2> QED BY <2>2, <2>3
<1>10. Exclusive'
  BY <1>1, <1>5, <1>7 DEF Exclusive
<1>11. Occupied'
  BY <1>1, <1>5, <1>7 DEF Occupied
<1>12. Waiting'
  <2>1. PICK n \in Nat : n = Len(queue)
    BY <1>2, LenProperties
  <2>2. /\ Len(queue') = n + 1 /\ queue'[n + 1] = t
        /\ \A i \in 1 .. n : queue'[i] = queue[i]
    BY <1>2, <1>5, <2>1, AppendProperties
  <2>3. \A i \in 1 .. n : queue[i] \in Tasks
    BY <1>2, <2>1, ElementOfSeq
  <2>4. \A i \in 1 .. n : task[queue[i]].pc = "queued" /\ queue[i] # t
    BY <1>1, <1>5, <2>1 DEF Waiting
  <2>5. \A i \in 1 .. n + 1 : i \in 1 .. n \/ i = n + 1
    BY <2>1
  <2>6. \A i \in 1 .. n + 1 : task'[queue'[i]].pc = "queued"
    BY <1>4, <1>6, <2>2, <2>3, <2>4, <2>5
  <2>7. \A i, j \in 1 .. n + 1 : queue'[i] = queue'[j] => i = j
    BY <1>1, <2>1, <2>2, <2>4, <2>5 DEF Waiting
  <2> QED BY <2>2, <2>6, <2>7 DEF Waiting
<1>13. Kept'
  <2> SUFFICES ASSUME NEW u \in Tasks
               PROVE  KeptOf(u, task'[u], child[u], adapter = "sqlite", db)
    BY <1>5 DEF Kept
  <2>1. KeptOf(u, task[u], child[u], adapter = "sqlite", db)
    BY <1>1 DEF Kept
  <2>2. CASE u = t
    BY <1>4, <1>5, <1>6, <2>1, <2>2 DEF KeptOf
  <2>3. CASE u # t
    BY <1>6, <2>1, <2>3
  <2> QED BY <2>2, <2>3
<1> QED BY <1>8, <1>9, <1>10, <1>11, <1>12, <1>13 DEF IInv

\* The longest waiting is served, and waits no more.
LEMMA Served ==
    ASSUME IInv, queue # <<>>, NEW t, t = Head(queue), NEW k,
           task' = [task EXCEPT ![t] = k], queue' = Tail(queue)
    PROVE  /\ t \in Tasks /\ task[t].pc = "queued"
           /\ queue' \in Seq(Tasks)
           /\ Waiting'
<1>1. queue \in Seq(Tasks) /\ task \in [Tasks -> Task] /\ Waiting
  BY DEF IInv, TypeOK
<1>2. PICK n \in Nat : n = Len(queue)
  BY <1>1, LenProperties
<1>3. /\ queue' \in Seq(Tasks) /\ Len(queue') = n - 1 /\ n >= 1
      /\ \A i \in 1 .. n - 1 : queue'[i] = queue[i + 1]
      /\ t = queue[1]
  <2>1. n >= 1 /\ t = queue[1]
    BY <1>1, <1>2, EmptySeq
  <2> QED BY <1>1, <1>2, <2>1, HeadTailProperties
<1>4. \A i \in 1 .. n : queue[i] \in Tasks
  BY <1>1, <1>2, ElementOfSeq
<1>5. 1 \in 1 .. n
  BY <1>3
<1>6. t \in Tasks /\ task[t].pc = "queued"
  BY <1>1, <1>2, <1>3, <1>4, <1>5 DEF Waiting
<1>7. \A i \in 1 .. n - 1 : i + 1 \in 1 .. n /\ i + 1 # 1
  BY <1>2
<1>8. \A i \in 1 .. n - 1 : queue[i + 1] # t /\ queue[i + 1] \in Tasks
  BY <1>1, <1>2, <1>3, <1>4, <1>5, <1>7 DEF Waiting
<1>9. \A i \in 1 .. n - 1 : task'[queue'[i]].pc = "queued"
  BY <1>1, <1>2, <1>3, <1>7, <1>8 DEF Waiting
<1>10. \A i, j \in 1 .. n - 1 : queue'[i] = queue'[j] => i = j
  <2> SUFFICES ASSUME NEW i \in 1 .. n - 1, NEW j \in 1 .. n - 1, queue'[i] = queue'[j]
               PROVE  i = j
    OBVIOUS
  <2>1. i + 1 \in 1 .. n /\ j + 1 \in 1 .. n /\ queue[i + 1] = queue[j + 1]
    BY <1>3, <1>7
  <2>2. i + 1 = j + 1
    BY <1>1, <1>2, <2>1 DEF Waiting
  <2> QED BY <2>2
<1>11. Waiting'
  BY <1>3, <1>9, <1>10 DEF Waiting
<1> QED BY <1>3, <1>6, <1>11


\* A statement of the root client has run.
RunsStatement(t, outcome, made) ==
    /\ task' = [task EXCEPT ![t].pc = "ended", ![t].outcome = outcome,
                            ![t].clients = <<[Opened(0, None) EXCEPT !.made = made]>>]
    /\ db' = db \cup made
    /\ UNCHANGED <<adapter, child, conn, counters>>

LEMMA EndedClients ==
    ASSUME NEW made \in SUBSET Write
    PROVE  /\ <<[Opened(0, None) EXCEPT !.made = made]>> \in Seq(Client)
           /\ Len(<<[Opened(0, None) EXCEPT !.made = made]>>) = 1
           /\ <<[Opened(0, None) EXCEPT !.made = made]>>[1].made = made
<1>1. PICK o : o = Opened(0, None)
  OBVIOUS
<1>2. o \in Client
  BY <1>1, DatabaseClientConstants DEF Opened, Client
<1>3. PICK e : e = [o EXCEPT !.made = made]
  OBVIOUS
<1>4. e \in Client /\ e.made = made
  BY <1>2, <1>3 DEF Client
<1>5. PICK last : last = <<e>>
  OBVIOUS
<1>6. last \in Seq(Client) /\ Len(last) = 1 /\ last[1] = e
  BY <1>4, <1>5
<1> QED BY <1>1, <1>3, <1>4, <1>5, <1>6

LEMMA OwnedAlone ==
    ASSUME NEW t, NEW before, OwnedBy(before, t), NEW k, k.spared = before.spared,
           Len(k.clients) = 1, \A w \in k.clients[1].made : w[1] = t
    PROVE  OwnedBy(k, t)
<1>1. \A i \in 1 .. Len(k.clients) : i = 1
  OBVIOUS
<1>2. \A w \in k.spared : w[1] = t
  BY DEF OwnedBy
<1>3. \A i \in 1 .. Len(k.clients) : \A w \in k.clients[i].made : w[1] = t
  BY <1>1
<1> QED BY <1>2, <1>3 DEF OwnedBy

LEMMA RunsInv ==
    ASSUME IInv, queue # <<>>, NEW t, t = Head(queue),
           NEW outcome \in {"resolved", "rejected"}, NEW made \in SUBSET {<<t, 1>>},
           outcome = "rejected" => made = {},
           RunsStatement(t, outcome, made), queue' = Tail(queue)
    PROVE  IInv'
<1>1. TypeOK /\ CallersOK /\ Exclusive /\ Occupied /\ Kept
  BY DEF IInv
<1>2. /\ task \in [Tasks -> Task] /\ child \in [Tasks -> Child]
      /\ conn \in [Connections -> Connection]
  BY <1>1 DEF TypeOK
<1>3. PICK k, last : /\ last = <<[Opened(0, None) EXCEPT !.made = made]>>
                     /\ k = [task[t] EXCEPT !.pc = "ended", !.outcome = outcome,
                                            !.clients = last]
  OBVIOUS
<1>4. task' = [task EXCEPT ![t] = k]
  BY <1>3 DEF RunsStatement
<1>5. t \in Tasks /\ task[t].pc = "queued" /\ queue' \in Seq(Tasks) /\ Waiting'
  BY <1>4, Served
<1>6. made \in SUBSET Write /\ \A w \in made : w[1] = t
  BY <1>5, DatabaseClientConstants DEF Write
<1>7. last \in Seq(Client) /\ Len(last) = 1 /\ last[1].made = made
  BY <1>3, <1>6, EndedClients
<1>8. /\ k \in Task /\ k.pc = "ended" /\ k.conn = task[t].conn /\ k.clients = last
      /\ k.spared = task[t].spared /\ k.outcome = outcome /\ k.refused = FALSE
  <2>1. CallerOK(adapter = "sqlite", task[t], child[t], conn[task[t].conn].stack)
    BY <1>1, <1>5 DEF CallersOK
  <2>2. task[t].refused = FALSE
    BY <1>5, <2>1 DEF CallerOK
  <2>3. task[t] \in Task
    BY <1>2, <1>5
  <2>4. /\ k \in Task /\ k.pc = "ended" /\ k.conn = task[t].conn /\ k.clients = last
        /\ k.spared = task[t].spared /\ k.outcome = outcome
    BY <1>3, <1>7, <2>3 DEF Task
  <2>5. k.refused = FALSE
    BY <1>3, <2>2, <2>3 DEF Task
  <2> QED BY <2>4, <2>5
<1>9. task'[t] = k /\ \A u \in Tasks \ {t} : task'[u] = task[u]
  BY <1>2, <1>4, <1>5
<1>10. db' = db \cup made /\ UNCHANGED <<adapter, child, conn, counters>>
  BY DEF RunsStatement
<1>11. \A u \in Tasks : (Live(u)' <=> Live(u)) /\ task'[u].conn = task[u].conn
  BY <1>5, <1>8, <1>9 DEF Live, Running
<1>12. TypeOK'
  <2>1. task' \in [Tasks -> Task]
    BY <1>2, <1>4, <1>8
  <2>2. db' \in SUBSET Write
    BY <1>1, <1>6, <1>10 DEF TypeOK
  <2> QED BY <1>1, <1>5, <1>10, <2>1, <2>2 DEF TypeOK, counters
<1>13. CallersOK'
  <2> SUFFICES ASSUME NEW u \in Tasks
               PROVE  /\ CallerOK(adapter = "sqlite", task'[u], child[u], conn[task'[u].conn].stack)
                      /\ OwnedBy(task'[u], u)
    BY <1>10 DEF CallersOK
  <2>1. /\ CallerOK(adapter = "sqlite", task[u], child[u], conn[task[u].conn].stack)
        /\ OwnedBy(task[u], u)
    BY <1>1 DEF CallersOK
  <2>2. CASE u = t
    <3>1. CallerOK(adapter = "sqlite", k, child[t], conn[k.conn].stack)
      BY <1>5, <1>7, <1>8, <2>1, <2>2 DEF CallerOK, Running
    <3>2. OwnedBy(k, t)
      BY <1>6, <1>7, <1>8, <2>1, <2>2, OwnedAlone
    <3> QED BY <1>9, <2>2, <3>1, <3>2
  <2>3. CASE u # t
    BY <1>9, <2>1, <2>3
  <2> QED BY <2>2, <2>3
<1>14. Exclusive'
  BY <1>1, <1>10, <1>11 DEF Exclusive
<1>15. Occupied'
  BY <1>1, <1>10, <1>11 DEF Occupied
<1>16. Kept'
  <2> SUFFICES ASSUME NEW u \in Tasks
               PROVE  KeptOf(u, task'[u], child[u], adapter = "sqlite", db \cup made)
    BY <1>10 DEF Kept
  <2>1. KeptOf(u, task[u], child[u], adapter = "sqlite", db)
    BY <1>1 DEF Kept
  <2>2. CASE u = t
    <3>1. KeptOf(t, k, child[t], adapter = "sqlite", db \cup made)
      BY <1>5, <1>7, <1>8, <2>1, <2>2 DEF KeptOf
    <3> QED BY <1>9, <2>2, <3>1
  <2>3. CASE u # t
    BY <1>6, <1>9, <2>1, <2>3 DEF KeptOf
  <2> QED BY <2>2, <2>3
<1> QED BY <1>5, <1>12, <1>13, <1>14, <1>15, <1>16 DEF IInv

\* A transaction begins on a connection that nobody uses.
Begins(t, c) ==
    /\ task' = [task EXCEPT ![t].pc = "open", ![t].conn = c,
                            ![t].clients = <<Opened(0, None)>>]
    /\ conn' = [conn EXCEPT ![c].stack = <<[name |-> None, writes |-> {}]>>]
    /\ UNCHANGED <<adapter, child, db, counters>>

LEMMA BeginsInv ==
    ASSUME IInv, queue # <<>>, NEW t, t = Head(queue), NEW c \in Connections, Usable(c),
           Begins(t, c), queue' = Tail(queue)
    PROVE  IInv'
<1>1. TypeOK /\ CallersOK /\ Exclusive /\ Occupied /\ Kept
  BY DEF IInv
<1>2. /\ task \in [Tasks -> Task] /\ child \in [Tasks -> Child]
      /\ conn \in [Connections -> Connection]
  BY <1>1 DEF TypeOK
<1>3. PICK k, first : /\ first = <<Opened(0, None)>>
                      /\ k = [task[t] EXCEPT !.pc = "open", !.conn = c, !.clients = first]
  OBVIOUS
<1>4. task' = [task EXCEPT ![t] = k]
  BY <1>3 DEF Begins
<1>5. t \in Tasks /\ task[t].pc = "queued" /\ queue' \in Seq(Tasks) /\ Waiting'
  BY <1>4, Served
<1>6. first \in Seq(Client) /\ Len(first) = 1 /\ first[1].via = 0 /\ first[1].made = {}
      /\ first[1].depth = 0
  <2>1. PICK e : e = Opened(0, None)
    OBVIOUS
  <2>2. e \in Client /\ e.via = 0 /\ e.made = {} /\ e.depth = 0
    BY <2>1, DatabaseClientConstants DEF Opened, Client
  <2> QED BY <1>3, <2>1, <2>2
<1>7. /\ k \in Task /\ k.pc = "open" /\ k.conn = c /\ k.clients = first
      /\ k.spared = task[t].spared
  BY <1>2, <1>3, <1>5, <1>6 DEF Task
<1>8. task'[t] = k /\ \A u \in Tasks \ {t} : task'[u] = task[u]
  BY <1>2, <1>4, <1>5
<1>9. PICK base : base = <<[name |-> None, writes |-> {}]>>
  OBVIOUS
<1>10. base \in Seq(Savepoint)
  BY <1>9 DEF Savepoint
<1>11. PICK cn : cn = [conn[c] EXCEPT !.stack = base]
  OBVIOUS
<1>12. cn \in Connection /\ cn.stack = base
  BY <1>2, <1>10, <1>11 DEF Connection
<1>13. conn' = [conn EXCEPT ![c] = cn] /\ UNCHANGED <<adapter, child, db, counters>>
  BY <1>9, <1>11 DEF Begins
<1>14. conn'[c] = cn /\ \A d \in Connections \ {c} : conn'[d] = conn[d]
  BY <1>2, <1>13
<1>15. ASSUME NEW u \in Tasks, task[u].conn = c PROVE ~Live(u) /\ child[u].pc # "calling"
  BY <1>15 DEF Usable, Live, Running
<1>16. ~Live(t)
  BY <1>5 DEF Live, Running
<1>17. TypeOK'
  <2>1. task' \in [Tasks -> Task]
    BY <1>2, <1>4, <1>7
  <2>2. conn' \in [Connections -> Connection]
    BY <1>2, <1>12, <1>13
  <2> QED BY <1>1, <1>5, <1>13, <2>1, <2>2 DEF TypeOK, counters
<1>18. CallersOK'
  <2> SUFFICES ASSUME NEW u \in Tasks
               PROVE  /\ CallerOK(adapter = "sqlite", task'[u], child[u], conn'[task'[u].conn].stack)
                      /\ OwnedBy(task'[u], u)
    BY <1>13 DEF CallersOK
  <2>1. /\ CallerOK(adapter = "sqlite", task[u], child[u], conn[task[u].conn].stack)
        /\ OwnedBy(task[u], u)
    BY <1>1 DEF CallersOK
  <2>2. CASE u = t
    <3>1. ClientsOK(first)
      <4>1. CalledOn(first, 1) = {}
        BY <1>6 DEF CalledOn
      <4>2. Cardinality(CalledOn(first, 1)) = 0
        BY <4>1, FS_EmptySet
      <4> QED BY <1>6, <4>2 DEF ClientsOK
    <3>2. PICK lite, sp : lite = (adapter = "sqlite") /\ sp = Spared(adapter = "sqlite", k)
      OBVIOUS
    <3>3. Nested(lite, first, base, sp)
      BY <1>3, <1>9, Beginning
    <3>4. CallerOK(adapter = "sqlite", k, child[t], base)
      BY <1>7, <3>1, <3>2, <3>3 DEF CallerOK, Running
    <3>5. OwnedBy(k, t)
      BY <1>6, <1>7, <2>1, <2>2, OwnedAlone
    <3> QED BY <1>7, <1>8, <1>12, <1>14, <2>2, <3>4, <3>5
  <2>3. CASE u # t
    <3>1. task'[u] = task[u]
      BY <1>8, <2>3
    <3>2. CASE Live(u)
      <4>1. task[u].conn \in Connections \ {c}
        BY <1>15, <2>1, <3>2 DEF CallerOK, Live
      <4> QED BY <1>14, <2>1, <3>1, <4>1
    <3>3. CASE ~Live(u)
      BY <2>1, <3>1, <3>3 DEF CallerOK, Live
    <3> QED BY <3>2, <3>3
  <2> QED BY <2>2, <2>3
<1>19. Exclusive'
  <2> SUFFICES ASSUME NEW a \in Tasks, NEW b \in Tasks, a # b, task'[a].pc \in Running,
                      task'[b].conn = task'[a].conn
               PROVE  task'[b].pc \notin Running /\ child[b].pc # "calling"
    BY <1>13 DEF Exclusive, Live
  <2>1. CASE a = t
    <3>1. task'[b] = task[b] /\ task[b].conn = c
      BY <1>7, <1>8, <2>1
    <3> QED BY <1>15, <3>1 DEF Live
  <2>2. CASE b = t
    <3>1. task'[a] = task[a] /\ task[a].conn = c
      BY <1>7, <1>8, <2>2
    <3> QED BY <1>15, <3>1 DEF Live
  <2>3. CASE a # t /\ b # t
    <3>1. task'[a] = task[a] /\ task'[b] = task[b]
      BY <1>8, <2>3
    <3> QED BY <1>1, <3>1 DEF Exclusive, Live
  <2> QED BY <2>1, <2>2, <2>3
<1>20. Occupied'
  <2> SUFFICES ASSUME NEW d \in Connections, conn'[d].stack # <<>>
               PROVE  \E u \in Tasks : task'[u].pc \in Running /\ task'[u].conn = d
    BY DEF Occupied, Live
  <2>1. CASE d = c
    BY <1>5, <1>7, <1>8, <2>1 DEF Running
  <2>2. CASE d # c
    <3>1. PICK u \in Tasks : Live(u) /\ task[u].conn = d
      BY <1>1, <1>14, <2>2 DEF Occupied
    <3>2. task'[u] = task[u]
      BY <1>8, <1>16, <3>1
    <3> QED BY <3>1, <3>2 DEF Live
  <2> QED BY <2>1, <2>2
<1>21. Kept'
  <2> SUFFICES ASSUME NEW u \in Tasks
               PROVE  KeptOf(u, task'[u], child[u], adapter = "sqlite", db)
    BY <1>13 DEF Kept
  <2>1. KeptOf(u, task[u], child[u], adapter = "sqlite", db)
    BY <1>1 DEF Kept
  <2>2. CASE u = t
    BY <1>5, <1>7, <1>8, <2>1, <2>2 DEF KeptOf
  <2>3. CASE u # t
    BY <1>8, <2>1, <2>3
  <2> QED BY <2>2, <2>3
<1> QED BY <1>5, <1>17, <1>18, <1>19, <1>20, <1>21 DEF IInv

LEMMA ServeInv == ASSUME IInv, NEW c \in Connections, Serve(c) PROVE IInv'
<1>1. PICK t : t = Head(queue)
  OBVIOUS
<1>2. queue # <<>> /\ Usable(c) /\ queue' = Tail(queue) /\ UNCHANGED <<adapter, child, counters>>
  BY DEF Serve
<1>3. \/ RunsStatement(t, "resolved", {<<t, 1>>})
      \/ RunsStatement(t, "rejected", {})
      \/ Begins(t, c)
  BY <1>1 DEF Serve, RunsStatement, Begins
<1>4. CASE RunsStatement(t, "resolved", {<<t, 1>>})
  BY <1>1, <1>2, <1>4, RunsInv
<1>5. CASE RunsStatement(t, "rejected", {})
  BY <1>1, <1>2, <1>5, RunsInv
<1>6. CASE Begins(t, c)
  BY <1>1, <1>2, <1>6, BeginsInv
<1> QED BY <1>3, <1>4, <1>5, <1>6


\* What the transaction has on the stack when it ends.
Stands(made, all, sp) == made \subseteq all /\ all \subseteq made \cup sp

LEMMA Standing ==
    ASSUME NEW t, NEW c, NEW clients, NEW stack, NEW sp, NEW D, NEW L,
           LiveFacts(t, c, clients, stack, sp, D, L), D = 1
    PROVE  Stands(clients[1].made, AllOf(stack), sp)
<1>1. /\ clients \in Seq(Client) /\ stack \in Stacks
      /\ D \in Nat /\ D = Len(clients) /\ L \in Nat /\ L = Len(stack)
      /\ Nested(adapter = "sqlite", clients, stack, sp)
  BY DEF LiveFacts
<1>2. PICK lite : lite = (adapter = "sqlite")
  OBVIOUS
<1>3. PICK p : Placed(lite, clients, stack, sp, p)
  BY <1>1, <1>2 DEF Nested
<1>4. Between(clients[1], stack, p[1], p[1 + 1], MadeUpTo(clients, 1) \cup sp)
  <2>1. 1 \in 1 .. Len(clients)
    BY <1>1
  <2> QED BY <1>3, <2>1 DEF Placed
<1>5. p[1 + 1] = L + 1
  BY <1>1, <1>3 DEF Placed
<1>6. AllOf(stack) = Below(stack, L + 1)
  BY <1>1, AllOfBelow
<1>7. MadeUpTo(clients, 1) = clients[1].made
  BY DEF MadeUpTo
<1> QED BY <1>4, <1>5, <1>6, <1>7 DEF Between, Stands

LEMMA EndsInv ==
    ASSUME IInv, NEW t \in Tasks, task[t].pc = "ending",
           NEW outcome \in {"resolved", "rejected", "unknown"},
           NEW committed \in BOOLEAN,
           committed => outcome \in {"resolved", "unknown"} /\ task[t].refused = FALSE,
           outcome = "resolved" /\ task[t].refused = FALSE => committed,
           steps' \in Nat, faults' \in Nat,
           Ends(t, outcome, committed)
    PROVE  IInv'
<1>1. TypeOK /\ CallersOK /\ Exclusive /\ Occupied /\ Waiting /\ Kept
  BY DEF IInv
<1>2. /\ task \in [Tasks -> Task] /\ child \in [Tasks -> Child]
      /\ conn \in [Connections -> Connection] /\ queue \in Seq(Tasks)
  BY <1>1 DEF TypeOK
<1>3. Live(t)
  BY DEF Live, Running
<1>4. PICK c, clients, stack, sp, D, L : LiveFacts(t, c, clients, stack, sp, D, L)
  BY <1>3, LiveKnown
<1>5. /\ task[t] \in Task /\ c \in Connections /\ c = task[t].conn
      /\ clients = task[t].clients /\ clients \in Seq(Client) /\ stack = conn[c].stack
      /\ sp = Spared(adapter = "sqlite", task[t])
      /\ D = Len(clients) /\ D = 1 /\ OwnedBy(task[t], t)
  BY <1>4 DEF LiveFacts
<1>6. PICK made \in SUBSET Write : made = clients[1].made /\ made = Made(t)
  <2>1. 1 \in 1 .. Len(clients)
    BY <1>5
  <2> QED BY <1>5, <2>1, ClientType DEF Made
<1>7. PICK all : all = AllOf(stack)
  OBVIOUS
<1>8. made \subseteq all /\ all \subseteq made \cup sp
  <2>1. Stands(clients[1].made, AllOf(stack), sp)
    BY <1>4, <1>5, Standing
  <2> QED BY <1>6, <1>7, <2>1 DEF Stands
<1>9. PICK k, last : /\ last = <<[Opened(0, None) EXCEPT !.made = made]>>
                     /\ k = [task[t] EXCEPT !.pc = "ended", !.outcome = outcome,
                                            !.clients = last]
  OBVIOUS
<1>10. last \in Seq(Client) /\ Len(last) = 1 /\ last[1].made = made
  BY <1>9, EndedClients
<1>11. /\ k \in Task /\ k.pc = "ended" /\ k.conn = c /\ k.clients = last
       /\ k.spared = task[t].spared /\ k.outcome = outcome
       /\ k.refused = task[t].refused
  BY <1>5, <1>9, <1>10 DEF Task
<1>12. /\ task' = [task EXCEPT ![t] = k]
       /\ conn' = [conn EXCEPT ![c] = Idle]
       /\ db' = IF committed THEN db \cup all ELSE db
       /\ UNCHANGED <<adapter, child, queue>>
  BY <1>5, <1>6, <1>7, <1>9 DEF Ends
<1>13. /\ task'[t] = k /\ \A u \in Tasks \ {t} : task'[u] = task[u]
       /\ conn'[c] = Idle /\ \A d \in Connections \ {c} : conn'[d] = conn[d]
  BY <1>2, <1>5, <1>12
<1>14. \A w \in made \cup sp : w[1] = t
  <2>0. 1 \in 1 .. Len(clients)
    BY <1>5
  <2>1. \A w \in made : w[1] = t
    BY <1>5, <1>6, <2>0 DEF OwnedBy
  <2>2. \A w \in task[t].spared : w[1] = t
    BY <1>5 DEF OwnedBy
  <2> QED BY <1>5, <2>1, <2>2 DEF Spared
<1>15. sp \in SUBSET Write
  BY <1>5 DEF Spared, Task
<1>16. TypeOK'
  <2>1. task' \in [Tasks -> Task]
    BY <1>2, <1>11, <1>12
  <2>2. Idle \in Connection
    <3>1. <<>> \in Seq(Savepoint)
      BY EmptySeq
    <3> QED BY <3>1 DEF Idle, Connection
  <2>3. conn' \in [Connections -> Connection]
    BY <1>2, <1>12, <2>2
  <2>4. db' \in SUBSET Write
    BY <1>1, <1>8, <1>12, <1>15 DEF TypeOK
  <2> QED BY <1>1, <1>12, <2>1, <2>3, <2>4 DEF TypeOK
<1>17. ASSUME NEW u \in Tasks, u # t, Live(u) PROVE task[u].conn \in Connections \ {c}
  <2>1. CallerOK(adapter = "sqlite", task[u], child[u], conn[task[u].conn].stack)
    BY <1>1 DEF CallersOK
  <2>2. task[u].conn \in Connections
    BY <1>17, <2>1 DEF CallerOK, Live
  <2> QED BY <1>1, <1>3, <1>5, <1>17, <2>2 DEF Exclusive
<1>18. CallersOK'
  <2> SUFFICES ASSUME NEW u \in Tasks
               PROVE  /\ CallerOK(adapter = "sqlite", task'[u], child[u], conn'[task'[u].conn].stack)
                      /\ OwnedBy(task'[u], u)
    BY <1>12 DEF CallersOK
  <2>1. /\ CallerOK(adapter = "sqlite", task[u], child[u], conn[task[u].conn].stack)
        /\ OwnedBy(task[u], u)
    BY <1>1 DEF CallersOK
  <2>2. CASE u = t
    <3>1. CallerOK(adapter = "sqlite", k, child[t], conn'[k.conn].stack)
      BY <1>5, <1>10, <1>11 DEF CallerOK, Running
    <3>2. OwnedBy(k, t)
      BY <1>5, <1>10, <1>11, <1>14, OwnedAlone
    <3> QED BY <1>13, <2>2, <3>1, <3>2
  <2>3. CASE u # t
    <3>1. task'[u] = task[u]
      BY <1>13, <2>3
    <3>2. CASE Live(u)
      BY <1>13, <1>17, <2>1, <2>3, <3>1, <3>2
    <3>3. CASE ~Live(u)
      BY <2>1, <3>1, <3>3 DEF CallerOK, Live
    <3> QED BY <3>2, <3>3
  <2> QED BY <2>2, <2>3
<1>19. Exclusive'
  <2> SUFFICES ASSUME NEW a \in Tasks, NEW b \in Tasks, a # b, task'[a].pc \in Running,
                      task'[b].conn = task'[a].conn
               PROVE  task'[b].pc \notin Running /\ child[b].pc # "calling"
    BY <1>12 DEF Exclusive, Live
  <2>1. a # t /\ task'[a] = task[a]
    BY <1>11, <1>13 DEF Running
  <2>2. task'[b].conn = task[b].conn
    BY <1>5, <1>11, <1>13
  <2>3. ~Live(b) /\ child[b].pc # "calling"
    BY <1>1, <2>1, <2>2 DEF Exclusive, Live
  <2>4. b # t
    BY <1>3, <2>3
  <2> QED BY <1>13, <2>3, <2>4 DEF Live
<1>20. Occupied'
  <2> SUFFICES ASSUME NEW d \in Connections, conn'[d].stack # <<>>
               PROVE  \E u \in Tasks : task'[u].pc \in Running /\ task'[u].conn = d
    BY DEF Occupied, Live
  <2>1. d # c
    BY <1>13 DEF Idle
  <2>2. PICK u \in Tasks : Live(u) /\ task[u].conn = d
    BY <1>1, <1>13, <2>1 DEF Occupied
  <2>3. task'[u] = task[u]
    BY <1>5, <1>13, <2>1, <2>2
  <2> QED BY <2>2, <2>3 DEF Live
<1>21. Waiting'
  <2>1. \A i \in 1 .. Len(queue) : queue[i] \in Tasks
    BY <1>2, ElementOfSeq
  <2>2. \A i \in 1 .. Len(queue) : queue[i] # t
    BY <1>1 DEF Waiting
  <2>3. \A i \in 1 .. Len(queue) : task'[queue[i]] = task[queue[i]]
    BY <1>13, <2>1, <2>2
  <2> QED BY <1>1, <1>12, <2>3 DEF Waiting
<1>22. Kept'
  <2> SUFFICES ASSUME NEW u \in Tasks
               PROVE  KeptOf(u, task'[u], child[u], adapter = "sqlite", db')
    BY <1>12 DEF Kept
  <2>1. KeptOf(u, task[u], child[u], adapter = "sqlite", db)
    BY <1>1 DEF Kept
  <2>2. CASE u = t
    <3>1. Spared(adapter = "sqlite", k) = sp
      BY <1>5, <1>11 DEF Spared
    <3>2. \A w \in db : w[1] = t => child[t].stray /\ w = <<t, 0>>
      BY <2>1, <2>2 DEF KeptOf
    <3>3. KeptOf(t, k, child[t], adapter = "sqlite", db')
      BY <1>8, <1>10, <1>11, <1>12, <3>1, <3>2 DEF KeptOf
    <3> QED BY <1>13, <2>2, <3>3
  <2>3. CASE u # t
    <3>1. \A w \in db' : w[1] = u => w \in db
      BY <1>8, <1>12, <1>14, <2>3
    <3>2. db \subseteq db'
      BY <1>12
    <3> QED BY <1>13, <2>1, <2>3, <3>1, <3>2 DEF KeptOf
  <2> QED BY <2>2, <2>3
<1> QED BY <1>16, <1>18, <1>19, <1>20, <1>21, <1>22 DEF IInv

LEMMA EndInv == ASSUME IInv, Marked, NEW t \in Tasks, End(t) PROVE IInv'
<1>1. steps \in Nat /\ faults \in Nat
  BY Types
<1>2. ASSUME task[t].pc = "ending"
      PROVE  /\ conn[task[t].conn].aborted \in BOOLEAN
             /\ task[t].refused = conn[task[t].conn].aborted
  BY <1>2, Types DEF Marked, Live, Running, Connection
<1>3. CASE Commit(t)
  <2>1. task[t].pc = "ending" /\ steps' \in Nat /\ faults' \in Nat
    BY <1>1, <1>3 DEF Commit, counters
  <2>2. PICK committed \in BOOLEAN : committed = ~conn[task[t].conn].aborted
    OBVIOUS
  <2>3. Ends(t, "resolved", committed)
    BY <1>3, <2>2 DEF Commit
  <2>4. committed <=> task[t].refused = FALSE
    BY <1>2, <2>1, <2>2
  <2> QED BY <2>1, <2>3, <2>4, EndsInv
<1>4. CASE Rollback(t)
  <2>1. task[t].pc = "ending" /\ steps' \in Nat /\ faults' \in Nat
    BY <1>1, <1>4 DEF Rollback, counters
  <2>2. Ends(t, "rejected", FALSE)
    BY <1>4 DEF Rollback
  <2> QED BY <2>1, <2>2, EndsInv
<1>5. ASSUME NEW committed \in BOOLEAN, LoseCommit(t, committed) PROVE IInv'
  <2>1. task[t].pc = "ending" /\ steps' \in Nat /\ faults' \in Nat
    BY <1>1, <1>5 DEF LoseCommit
  <2>2. Ends(t, "unknown", committed)
    BY <1>5 DEF LoseCommit
  <2>3. committed => task[t].refused = FALSE
    BY <1>2, <1>5, <2>1 DEF LoseCommit
  <2> QED BY <2>1, <2>2, <2>3, EndsInv
<1> QED BY <1>3, <1>4, <1>5 DEF End


\* A detached task that ends, with its transaction open or over; a stray
\* statement is a transaction of its own.
ChildOver(t, stray, kept) ==
    /\ child' = [child EXCEPT ![t] = [pc |-> "ended", stray |-> stray]]
    /\ db' = db \cup kept
    /\ UNCHANGED <<adapter, task, queue, conn, counters>>

LEMMA ChildOverInv ==
    ASSUME IInv, NEW t \in Tasks, child[t].pc # "none",
           NEW stray \in BOOLEAN, NEW kept \in SUBSET {<<t, 0>>},
           child[t].stray => stray, kept # {} => stray,
           ChildOver(t, stray, kept)
    PROVE  IInv'
<1>1. TypeOK /\ CallersOK /\ Exclusive /\ Occupied /\ Waiting /\ Kept
  BY DEF IInv
<1>2. /\ child \in [Tasks -> Child] /\ db' = db \cup kept
      /\ UNCHANGED <<adapter, task, queue, conn, counters>>
  BY <1>1 DEF TypeOK, ChildOver
<1>3. PICK ch : ch = [pc |-> "ended", stray |-> stray]
  OBVIOUS
<1>4. ch \in Child /\ ch.pc = "ended" /\ ch.stray = stray
  BY <1>3 DEF Child
<1>5. child' = [child EXCEPT ![t] = ch]
  BY <1>3 DEF ChildOver
<1>6. child'[t] = ch /\ \A u \in Tasks \ {t} : child'[u] = child[u]
  BY <1>2, <1>5
<1>7. kept \in SUBSET Write /\ \A w \in kept : w[1] = t /\ w = <<t, 0>>
  BY DatabaseClientConstants DEF Write
<1>8. TypeOK'
  <2>1. child' \in [Tasks -> Child]
    BY <1>2, <1>4, <1>5
  <2>2. db' \in SUBSET Write
    BY <1>1, <1>2, <1>7 DEF TypeOK
  <2> QED BY <1>1, <1>2, <2>1, <2>2 DEF TypeOK, counters
<1>9. CallersOK'
  <2> SUFFICES ASSUME NEW u \in Tasks
               PROVE  /\ CallerOK(adapter = "sqlite", task[u], child'[u], conn[task[u].conn].stack)
                      /\ OwnedBy(task[u], u)
    BY <1>2 DEF CallersOK
  <2>1. /\ CallerOK(adapter = "sqlite", task[u], child[u], conn[task[u].conn].stack)
        /\ OwnedBy(task[u], u)
    BY <1>1 DEF CallersOK
  <2>2. CASE u = t
    BY <1>4, <1>6, <2>1, <2>2 DEF CallerOK
  <2>3. CASE u # t
    BY <1>6, <2>1, <2>3
  <2> QED BY <2>2, <2>3
<1>10. Exclusive'
  <2> SUFFICES ASSUME NEW a \in Tasks, NEW b \in Tasks, a # b, Live(a),
                      task[b].conn = task[a].conn
               PROVE  ~Live(b) /\ child'[b].pc # "calling"
    BY <1>2 DEF Exclusive, Live
  <2>1. ~Live(b) /\ child[b].pc # "calling"
    BY <1>1 DEF Exclusive
  <2> QED BY <1>4, <1>6, <2>1
<1>11. Occupied' /\ Waiting'
  BY <1>1, <1>2 DEF Occupied, Waiting, Live
<1>12. Kept'
  <2> SUFFICES ASSUME NEW u \in Tasks
               PROVE  KeptOf(u, task[u], child'[u], adapter = "sqlite", db \cup kept)
    BY <1>2 DEF Kept
  <2>1. KeptOf(u, task[u], child[u], adapter = "sqlite", db)
    BY <1>1 DEF Kept
  <2>2. CASE u = t
    BY <1>4, <1>6, <1>7, <2>1, <2>2 DEF KeptOf
  <2>3. CASE u # t
    BY <1>6, <1>7, <2>1, <2>3 DEF KeptOf
  <2> QED BY <2>2, <2>3
<1> QED BY <1>8, <1>9, <1>10, <1>11, <1>12 DEF IInv

\* A task has been detached by a transaction that has begun.
LEMMA Detached ==
    ASSUME IInv, NEW t \in Tasks, child[t].pc # "none"
    PROVE  task[t].conn \in Connections /\ (Live(t) \/ Closed(t))
<1>1. CallerOK(adapter = "sqlite", task[t], child[t], conn[task[t].conn].stack)
  BY DEF IInv, CallersOK
<1>2. task[t].pc \in {"idle", "queued", "open", "ending", "ended"}
  BY Types DEF Task
<1> QED BY <1>1, <1>2 DEF CallerOK, Live, Running, Closed

LEMMA ChildCallsInv == ASSUME IInv, NEW t \in Tasks, ChildCalls(t) PROVE IInv'
<1>1. child[t].pc = "running" /\ child[t] \in Child /\ child \in [Tasks -> Child]
  BY Types DEF ChildCalls
<1>2. CASE Closed(t)
  <2>1. PICK stray \in BOOLEAN : stray = child[t].stray
    BY <1>1 DEF Child
  <2>2. [child[t] EXCEPT !.pc = "ended"] = [pc |-> "ended", stray |-> stray]
    BY <1>1, <2>1 DEF Child
  <2>3. PICK kept \in SUBSET {<<t, 0>>} : kept = {}
    OBVIOUS
  <2>4. ChildOver(t, stray, kept)
    BY <1>1, <1>2, <2>2, <2>3 DEF ChildCalls, ChildOver
  <2>5. child[t].pc # "none" /\ (child[t].stray => stray) /\ (kept # {} => stray)
    BY <1>1, <2>1, <2>3
  <2> QED BY <2>4, <2>5, ChildOverInv
<1>3. CASE ~Closed(t)
  <2>1. Live(t)
    BY <1>1, <1>3, Detached
  <2>2. ChildTurns(t, "calling")
    BY <1>3 DEF ChildCalls, ChildTurns
  <2> QED BY <2>1, <2>2, ChildQuietInv
<1> QED BY <1>2, <1>3

\* What is open on the connection of a detached task that has called is its own
\* transaction.
LEMMA OwnOpen ==
    ASSUME IInv, NEW t \in Tasks, child[t].pc = "calling", conn[task[t].conn].stack # <<>>
    PROVE  Live(t)
<1>1. PICK c \in Connections : c = task[t].conn
  BY Detached
<1>2. PICK u \in Tasks : Live(u) /\ task[u].conn = c
  BY <1>1 DEF IInv, Occupied
<1>3. u = t
  BY <1>1, <1>2 DEF IInv, Exclusive
<1> QED BY <1>2, <1>3

LEMMA ChildStatementInv == ASSUME IInv, NEW t \in Tasks, ChildStatement(t) PROVE IInv'
<1>1. /\ child[t].pc = "calling" /\ child[t] \in Child /\ child \in [Tasks -> Child]
      /\ UNCHANGED <<adapter, queue, counters>>
  BY Types DEF ChildStatement
<1>2. PICK c \in Connections : c = task[t].conn
  BY <1>1, Detached
<1>3. PICK ch : ch = [child[t] EXCEPT !.pc = "ended"]
  OBVIOUS
<1>4. /\ ch = [pc |-> "ended", stray |-> child[t].stray] /\ child[t].stray \in BOOLEAN
      /\ ch \in Child /\ ch.stray = child[t].stray
  BY <1>1, <1>3 DEF Child
<1>5. steps' \in Nat /\ faults' \in Nat
  BY <1>1, Types DEF counters
<1>6. CASE child' = [child EXCEPT ![t].pc = "ended"] /\ UNCHANGED <<task, conn, db>>
  <2>1. ChildOver(t, child[t].stray, {})
    BY <1>1, <1>3, <1>4, <1>6 DEF ChildOver
  <2> QED BY <1>1, <1>4, <2>1, ChildOverInv
<1>7. CASE /\ conn[c].stack # <<>>
           /\ child' = [child EXCEPT ![t].pc = "ended"]
           /\ Refuses(t)
           /\ UNCHANGED db
  <2>1. Live(t)
    BY <1>1, <1>2, <1>7, OwnOpen
  <2>2. child' = [child EXCEPT ![t] = ch] /\ UNCHANGED <<adapter, queue, db>>
    BY <1>1, <1>3, <1>7
  <2>3. Refuses(t)
    BY <1>7
  <2> QED BY <1>4, <1>5, <2>1, <2>2, <2>3, RefusesStep
<1>8. CASE /\ conn[c].stack # <<>>
           /\ child' = [child EXCEPT ![t].pc = "ended"]
           /\ conn' = [conn EXCEPT ![c].stack = Written(@, <<t, 0>>)]
           /\ task' = [task EXCEPT ![t].clients[Depth(t)].made = @ \cup {<<t, 0>>}]
           /\ UNCHANGED db
  <2>1. Live(t)
    BY <1>1, <1>2, <1>8, OwnOpen
  <2>2. PICK w : w = <<t, 0>>
    OBVIOUS
  <2>3. w \in Write /\ w[1] = t
    BY <2>2, DatabaseClientConstants DEF Write
  <2>4. /\ task' = [task EXCEPT ![t].clients[Depth(t)].made = @ \cup {w}]
        /\ conn' = [conn EXCEPT ![task[t].conn].stack = Written(@, w)]
        /\ child' = [child EXCEPT ![t] = ch]
        /\ UNCHANGED <<adapter, queue, db>>
    BY <1>1, <1>2, <1>3, <1>8, <2>2
  <2> HIDE <1>8
  <2> QED BY <1>4, <1>5, <2>1, <2>3, <2>4, WriteStep
<1>9. CASE /\ child' = [child EXCEPT ![t] = [pc |-> "ended", stray |-> TRUE]]
           /\ db' = db \cup {<<t, 0>>}
           /\ UNCHANGED <<task, conn>>
  <2>1. ChildOver(t, TRUE, {<<t, 0>>})
    BY <1>1, <1>9 DEF ChildOver
  <2> QED BY <1>1, <2>1, ChildOverInv
<1> QED BY <1>2, <1>6, <1>7, <1>8, <1>9 DEF ChildStatement

-----------------------------------------------------------------------------
(***************************************************************************)
(* The refused statements: a transaction knows of its connection's state.  *)
(***************************************************************************)

\* A step of a caller whose transaction is open, on its connection.
LEMMA MarkedLive ==
    ASSUME IInv, Marked, NEW t \in Tasks, Live(t), NEW c, c = task[t].conn,
           \A u \in Tasks \ {t} : task'[u] = task[u],
           \A d \in Connections \ {c} : conn'[d] = conn[d],
           task'[t].conn = c,
           IF task'[t].pc \in Running THEN task'[t].refused = conn'[c].aborted
                                      ELSE conn'[c].aborted = FALSE
    PROVE  Marked'
<1>1. c \in Connections
  BY Types
<1>2. ASSUME NEW u \in Tasks, task'[u].pc \in Running
      PROVE  task'[u].refused = conn'[task'[u].conn].aborted
  <2>1. CASE u = t
    BY <1>2, <2>1
  <2>2. CASE u # t
    <3>1. Live(u) /\ task'[u] = task[u]
      BY <1>2, <2>2 DEF Live
    <3>2. task[u].conn \in Connections \ {c}
      BY <2>2, <3>1, Types DEF IInv, Exclusive
    <3> QED BY <3>1, <3>2 DEF Marked
  <2> QED BY <2>1, <2>2
<1>3. ASSUME NEW d \in Connections,
             \A u \in Tasks : task'[u].conn = d => task'[u].pc \notin Running
      PROVE  conn'[d].aborted = FALSE
  <2>1. CASE d = c
    BY <1>3, <2>1
  <2>2. CASE d # c
    <3>1. \A u \in Tasks : task[u].conn = d => ~Live(u)
      BY <1>3, <2>2 DEF Live
    <3> QED BY <2>2, <3>1 DEF Marked
  <2> QED BY <2>1, <2>2
<1> QED BY <1>2, <1>3 DEF Marked, Live

\* A step that opens no transaction and leaves the connections alone.
LEMMA MarkedQuiet ==
    ASSUME IInv, Marked, UNCHANGED conn,
           \A u \in Tasks : /\ task'[u].conn = task[u].conn
                            /\ task'[u].refused = task[u].refused
                            /\ task'[u].pc \in Running <=> task[u].pc \in Running
    PROVE  Marked'
<1>1. \A u \in Tasks : Live(u)' <=> Live(u)
  BY DEF Live, Running
<1>2. \A u \in Tasks : Live(u)' => task'[u].refused = conn'[task'[u].conn].aborted
  BY <1>1 DEF Marked
<1>3. ASSUME NEW d \in Connections, \A u \in Tasks : task'[u].conn = d => ~Live(u)'
      PROVE  conn'[d].aborted = FALSE
  <2>1. \A u \in Tasks : task[u].conn = d => ~Live(u)
    BY <1>1, <1>3
  <2>2. conn[d].aborted = FALSE
    BY <2>1 DEF Marked
  <2> QED BY <2>2
<1> QED BY <1>2, <1>3 DEF Marked

LEMMA MarkedCallback == ASSUME IInv, Marked, NEW t \in Tasks, Callback(t) PROVE Marked'
<1>1. Live(t) /\ task[t].pc = "open"
  BY DEF Callback, Statement, StatementFails, Nest, NestRefused, Resolve, Reject, Return,
         Step, Live, Running
<1>2. PICK c \in Connections : c = task[t].conn /\ conn[c] \in Connection
  BY <1>1, Types
<1>3. /\ task \in [Tasks -> Task] /\ task[t] \in Task
      /\ conn \in [Connections -> Connection]
  BY Types
<1>4. task[t].refused = conn[c].aborted
  BY <1>1, <1>2 DEF Marked
<1>5. SUFFICES /\ \A u \in Tasks \ {t} : task'[u] = task[u]
               /\ \A d \in Connections \ {c} : conn'[d] = conn[d]
               /\ task'[t].conn = c
               /\ task'[t].pc \in Running
               /\ task'[t].refused = conn'[c].aborted
  BY <1>1, <1>2, MarkedLive
<1>6. CASE Statement(t)
  BY <1>1, <1>2, <1>3, <1>4, <1>6 DEF Statement, Running, Task, Connection
<1>7. CASE StatementFails(t)
  BY <1>1, <1>2, <1>3, <1>7 DEF StatementFails, Refuses, Running, Task, Connection
<1>8. ASSUME NEW i \in 1 .. Depth(t), Nest(t, i) \/ NestRefused(t, i)
      PROVE  /\ \A u \in Tasks \ {t} : task'[u] = task[u]
             /\ \A d \in Connections \ {c} : conn'[d] = conn[d]
             /\ task'[t].conn = c /\ task'[t].pc \in Running
             /\ task'[t].refused = conn'[c].aborted
  <2>1. CASE Nest(t, i)
    BY <1>1, <1>2, <1>3, <1>4, <2>1 DEF Nest, Running, Task, Connection
  <2>2. CASE NestRefused(t, i)
    BY <1>1, <1>2, <1>3, <1>4, <2>2 DEF NestRefused, Running, Task
  <2> QED BY <1>8, <2>1, <2>2
<1>9. CASE Resolve(t)
  BY <1>1, <1>2, <1>3, <1>4, <1>9 DEF Resolve, Running, Task, Connection
<1>10. CASE Reject(t)
  BY <1>1, <1>2, <1>3, <1>10 DEF Reject, Running, Task, Connection
<1>11. ASSUME NEW outcome \in {"resolved", "rejected"}, Return(t, outcome)
       PROVE  /\ \A u \in Tasks \ {t} : task'[u] = task[u]
              /\ \A d \in Connections \ {c} : conn'[d] = conn[d]
              /\ task'[t].conn = c /\ task'[t].pc \in Running
              /\ task'[t].refused = conn'[c].aborted
  BY <1>1, <1>2, <1>3, <1>4, <1>11 DEF Return, Running, Task
<1> QED BY <1>6, <1>7, <1>8, <1>9, <1>10, <1>11 DEF Callback

LEMMA MarkedEnd == ASSUME IInv, Marked, NEW t \in Tasks, End(t) PROVE Marked'
<1>1. Live(t)
  BY DEF End, Commit, Rollback, LoseCommit, Live, Running
<1>2. PICK c \in Connections : c = task[t].conn
  BY <1>1, Types
<1>3. PICK outcome, committed : Ends(t, outcome, committed)
  BY DEF End, Commit, Rollback, LoseCommit
<1>4. /\ task \in [Tasks -> Task] /\ task[t] \in Task
      /\ conn \in [Connections -> Connection]
  BY Types
<1>5. /\ \A u \in Tasks \ {t} : task'[u] = task[u]
      /\ \A d \in Connections \ {c} : conn'[d] = conn[d]
      /\ task'[t].conn = c /\ task'[t].pc = "ended"
      /\ conn'[c].aborted = FALSE
  BY <1>2, <1>3, <1>4 DEF Ends, Idle, Task
<1> QED BY <1>1, <1>2, <1>5, MarkedLive DEF Running

LEMMA MarkedChild == ASSUME IInv, Marked, NEW t \in Tasks, ChildStep(t) PROVE Marked'
<1>1. CASE UNCHANGED <<task, conn>>
  BY <1>1, MarkedQuiet
<1>2. CASE ChildStatement(t) /\ ~UNCHANGED <<task, conn>>
  <2>1. PICK c \in Connections : c = task[t].conn /\ conn[c] \in Connection
    BY <1>2, Detached DEF ChildStatement, IInv, TypeOK
  <2>2. /\ task \in [Tasks -> Task] /\ task[t] \in Task
        /\ conn \in [Connections -> Connection]
    BY Types
  <2>3. child[t].pc = "calling" /\ conn[c].stack # <<>>
    BY <1>2, <2>1 DEF ChildStatement
  <2>4. Live(t)
    BY <2>1, <2>3, OwnOpen
  <2>5. task[t].refused = conn[c].aborted
    BY <2>1, <2>4 DEF Marked
  <2>6. /\ \A u \in Tasks \ {t} : task'[u] = task[u]
        /\ \A d \in Connections \ {c} : conn'[d] = conn[d]
        /\ task'[t].conn = c /\ task'[t].pc = task[t].pc
        /\ task'[t].refused = conn'[c].aborted
    <3>1. CASE Refuses(t)
      BY <2>1, <2>2, <3>1 DEF Refuses, Task, Connection
    <3>2. CASE /\ conn' = [conn EXCEPT ![c].stack = Written(@, <<t, 0>>)]
               /\ task' = [task EXCEPT ![t].clients[Depth(t)].made = @ \cup {<<t, 0>>}]
      BY <2>1, <2>2, <2>5, <3>2 DEF Task, Connection
    <3> QED BY <1>2, <2>1, <3>1, <3>2 DEF ChildStatement
  <2> QED BY <2>1, <2>4, <2>6, MarkedLive DEF Live
<1> QED BY <1>1, <1>2 DEF ChildStep, ChildCalls

LEMMA MarkedServe == ASSUME IInv, Marked, NEW c \in Connections, Serve(c) PROVE Marked'
<1>1. PICK t : t = Head(queue)
  OBVIOUS
<1>2. queue # <<>> /\ Usable(c) /\ queue' = Tail(queue)
  BY DEF Serve
<1>3. PICK k : task' = [task EXCEPT ![t] = k]
  BY <1>1 DEF Serve
<1>4. t \in Tasks /\ task[t].pc = "queued"
  BY <1>1, <1>2, <1>3, Served
<1>5. /\ task \in [Tasks -> Task] /\ task[t] \in Task
      /\ conn \in [Connections -> Connection] /\ conn[c] \in Connection
  BY <1>4, Types DEF IInv, TypeOK
<1>6. task[t].refused = FALSE /\ ~Live(t)
  <2>1. CallerOK(adapter = "sqlite", task[t], child[t], conn[task[t].conn].stack)
    BY <1>4 DEF IInv, CallersOK
  <2> QED BY <1>4, <2>1 DEF CallerOK, Live, Running
<1>7. \A u \in Tasks : task[u].conn = c => ~Live(u)
  BY <1>2 DEF Usable, Live, Running
<1>8. conn[c].aborted = FALSE
  BY <1>7 DEF Marked
<1>9. CASE \E outcome, made : RunsStatement(t, outcome, made)
  <2>1. PICK outcome, made : RunsStatement(t, outcome, made)
    BY <1>9
  <2>2. \A u \in Tasks : /\ task'[u].conn = task[u].conn
                         /\ task'[u].refused = task[u].refused
                         /\ task'[u].pc \in Running <=> task[u].pc \in Running
    BY <1>4, <1>5, <2>1 DEF RunsStatement, Running, Task
  <2> QED BY <2>1, <2>2, MarkedQuiet DEF RunsStatement
<1>10. CASE Begins(t, c)
  <2>1. /\ \A u \in Tasks \ {t} : task'[u] = task[u]
        /\ \A d \in Connections \ {c} : conn'[d] = conn[d]
        /\ task'[t].conn = c /\ task'[t].refused = FALSE /\ task'[t].pc = "open"
        /\ conn'[c].aborted = FALSE
    BY <1>4, <1>5, <1>6, <1>8, <1>10 DEF Begins, Task, Connection
  <2>2. ASSUME NEW u \in Tasks, task'[u].pc \in Running
        PROVE  task'[u].refused = conn'[task'[u].conn].aborted
    <3>1. CASE u = t
      BY <2>1, <3>1
    <3>2. CASE u # t
      <4>1. Live(u) /\ task'[u] = task[u]
        BY <2>1, <2>2, <3>2 DEF Live
      <4>2. task[u].conn \in Connections \ {c}
        BY <1>7, <4>1, Types
      <4> QED BY <2>1, <4>1, <4>2 DEF Marked
    <3> QED BY <3>1, <3>2
  <2>3. ASSUME NEW d \in Connections,
               \A u \in Tasks : task'[u].conn = d => task'[u].pc \notin Running
        PROVE  conn'[d].aborted = FALSE
    <3>1. d # c
      BY <1>4, <2>1, <2>3 DEF Running
    <3>2. \A u \in Tasks : task[u].conn = d => ~Live(u)
      BY <1>6, <2>1, <2>3 DEF Live
    <3> QED BY <2>1, <3>1, <3>2 DEF Marked
  <2> QED BY <2>2, <2>3 DEF Marked, Live
<1> QED BY <1>1, <1>9, <1>10 DEF Serve, RunsStatement, Begins

LEMMA MarkedStep == IInv /\ Marked /\ [Next]_vars => Marked'
<1> SUFFICES ASSUME IInv, Marked, [Next]_vars PROVE Marked'
  OBVIOUS
<1>1. ASSUME NEW t \in Tasks, NEW call \in {"statement", "transaction"}, Call(t, call)
      PROVE  Marked'
  <2>1. task \in [Tasks -> Task] /\ task[t] \in Task
    BY Types
  <2>2. \A u \in Tasks : /\ task'[u].conn = task[u].conn
                         /\ task'[u].refused = task[u].refused
                         /\ task'[u].pc \in Running <=> task[u].pc \in Running
    BY <1>1, <2>1 DEF Call, Running, Task
  <2> QED BY <1>1, <2>2, MarkedQuiet DEF Call
<1>2. ASSUME NEW t \in Tasks, Detach(t) PROVE Marked'
  BY <1>2, MarkedQuiet DEF Detach
<1>3. CASE UNCHANGED vars
  BY <1>3, MarkedQuiet DEF vars
<1> QED BY <1>1, <1>2, <1>3, MarkedCallback, MarkedEnd, MarkedChild, MarkedServe DEF Next

LEMMA InitMarked == Init => Marked
<1> SUFFICES ASSUME Init PROVE Marked
  OBVIOUS
<1>1. \A t \in Tasks : ~Live(t)
  BY DEF Init, Live, Running
<1>2. \A c \in Connections : conn[c].aborted = FALSE
  BY DEF Init, Idle
<1> QED BY <1>1, <1>2 DEF Marked

-----------------------------------------------------------------------------
(***************************************************************************)
(* The theorems.                                                           *)
(***************************************************************************)

LEMMA StepInv == IInv /\ Marked /\ [Next]_vars => IInv'
<1> SUFFICES ASSUME IInv, Marked, [Next]_vars PROVE IInv'
  OBVIOUS
<1>1. ASSUME NEW t \in Tasks, Callback(t) PROVE IInv'
  <2>1. CASE Statement(t)
    BY <2>1, StatementInv
  <2>2. CASE StatementFails(t)
    BY <2>2, StatementFailsInv
  <2>3. ASSUME NEW i \in 1 .. Depth(t), Nest(t, i) PROVE IInv'
    BY <2>3, NestInv
  <2>4. ASSUME NEW i \in 1 .. Depth(t), NestRefused(t, i) PROVE IInv'
    BY <2>4, NestRefusedInv
  <2>5. CASE Resolve(t)
    BY <2>5, ResolveInv
  <2>6. CASE Reject(t)
    BY <2>6, RejectInv
  <2>7. ASSUME NEW outcome \in {"resolved", "rejected"}, Return(t, outcome) PROVE IInv'
    BY <2>7, ReturnInv
  <2> QED BY <1>1, <2>1, <2>2, <2>3, <2>4, <2>5, <2>6, <2>7 DEF Callback
<1>2. ASSUME NEW t \in Tasks, NEW call \in {"statement", "transaction"}, Call(t, call)
      PROVE  IInv'
  BY <1>2, CallInv
<1>3. ASSUME NEW t \in Tasks, End(t) PROVE IInv'
  BY <1>3, EndInv
<1>4. ASSUME NEW t \in Tasks, Detach(t) PROVE IInv'
  BY <1>4, DetachInv
<1>5. ASSUME NEW t \in Tasks, ChildStep(t) PROVE IInv'
  BY <1>5, ChildCallsInv, ChildStatementInv DEF ChildStep
<1>6. ASSUME NEW c \in Connections, Serve(c) PROVE IInv'
  BY <1>6, ServeInv
<1>7. CASE UNCHANGED vars
  BY <1>7 DEF vars, counters, IInv, TypeOK, CallersOK, Exclusive, Occupied, Waiting, Kept,
              Live
<1> QED BY <1>1, <1>2, <1>3, <1>4, <1>5, <1>6, <1>7 DEF Next

\* The state of the clients, of their stacks and of the queue has its type.
THEOREM TypeCorrect == Spec => []TypeOK
<1>1. IInv => TypeOK
  BY DEF IInv
<1> QED BY <1>1, InitInv, StepInv, InitMarked, MarkedStep, PTL DEF Spec

\* A call that has resolved has its writes in the database, and those of its
\* nested transactions that resolved: client.ts loses none of them between the
\* savepoints, whatever the others did; but for the transactions that Postgres had
\* aborted when their COMMIT came, because a statement of theirs was refused, of
\* the callback or of a task that it did not await.
THEOREM ResolvedKept == Spec => []ResolvedIsKept
<1>1. IInv => ResolvedIsKept
  BY KeptProperties DEF IInv
<1> QED BY <1>1, InitInv, StepInv, InitMarked, MarkedStep, PTL DEF Spec

\* Nothing else is in the database: no write of a transaction that is open or
\* was rejected, outermost or nested, and none that another's COMMIT carried
\* with it, but for the two exceptions that the property names.
THEOREM NothingElseKept == Spec => []NothingElseIsKept
<1>1. IInv => NothingElseIsKept
  BY KeptProperties DEF IInv
<1> QED BY <1>1, InitInv, StepInv, InitMarked, MarkedStep, PTL DEF Spec

=============================================================================
