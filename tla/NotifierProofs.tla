--------------------------- MODULE NotifierProofs ---------------------------
(***************************************************************************)
(* What the user is told, for every number of peers and messages and every *)
(* window.  The argument is about one peer at a time: Good relates what    *)
(* was told of its messages to the count, and says of the message that     *)
(* opened the present window that it was shown, or brought a summary about *)
(* that counts the one before it.                                          *)
(***************************************************************************)
EXTENDS Notifier, TLAPS

\* The messages before and after one that was passed over.
Between(s, i) ==
    i > 1 /\ s[i - 1].summaries = 1 /\ i < Len(s) /\ s[i + 1].previews > 0

\* The two properties and what they rest on, for one peer.
Good(s, n) ==
    /\ n <= Len(s)
    /\ n = 0 => Len(s) = 0
    /\ \A i \in DOMAIN s : s[i].summaries <= IF i + n > Len(s) THEN 0 ELSE 1
    /\ \A i \in DOMAIN s : i + n <= Len(s) /\ Silent(s[i]) => Between(s, i)
    /\ \A i \in DOMAIN s :
          i + n = Len(s) + 1 => s[i].previews > 0 \/ (i > 1 /\ s[i - 1].summaries = 1)

\* The age of an entry is the time since the last notification.
AgeIsQuiet ==
    \A p \in Peers : quiet[p] = IF p \in DOMAIN limits THEN limits[p].age ELSE Window

AllGood == \A p \in Peers : Good(told[p], Count(p))

IInv == TypeOK /\ AgeIsQuiet /\ AllGood

-----------------------------------------------------------------------------
(* Sequences.                                                              *)

Previewed == [Untold EXCEPT !.previews = 1]

\* One message more.
LEMMA AppendFacts ==
    ASSUME NEW s \in Seq(Told), NEW new \in Told
    PROVE  /\ Append(s, new) \in Seq(Told) /\ Len(Append(s, new)) = Len(s) + 1
           /\ Append(s, new)[Len(s) + 1] = new
           /\ \A i \in 1..Len(s) : Append(s, new)[i] = s[i]
           /\ DOMAIN Append(s, new) = 1 .. Len(s) + 1
           /\ DOMAIN s = 1..Len(s) /\ Len(s) \in Nat
           /\ \A i \in 1..Len(s) : s[i] \in Told /\ s[i].summaries \in Nat
<1> \A t \in Told : t.summaries \in Nat
  BY DEF Told
<1> QED
  OBVIOUS

\* A message that is only counted.
LEMMA BatchGood ==
    ASSUME NEW s \in Seq(Told), NEW n \in Nat, Good(s, n), n > 0
    PROVE  Append(s, Untold) \in Seq(Told) /\ Good(Append(s, Untold), n + 1)
<1> DEFINE t == Append(s, Untold)
<1>1. /\ Untold \in Told /\ t \in Seq(Told) /\ Len(t) = Len(s) + 1
      /\ t[Len(s) + 1] = Untold /\ \A i \in 1..Len(s) : t[i] = s[i]
      /\ DOMAIN t = 1 .. Len(s) + 1 /\ DOMAIN s = 1..Len(s) /\ Len(s) \in Nat
  <2>1. Untold \in Told
    BY DEF Told, Untold
  <2> QED
    BY <2>1, AppendFacts
<1> HIDE DEF t
<1>2. Untold.summaries = 0
  BY DEF Untold
<1>3. ASSUME NEW i \in DOMAIN t
      PROVE  t[i].summaries <= IF i + (n + 1) > Len(t) THEN 0 ELSE 1
  <2>1. CASE i = Len(s) + 1
    BY <1>1, <1>2, <2>1
  <2>2. CASE i \in 1..Len(s)
    <3>1. t[i] = s[i] /\ (i + (n + 1) > Len(t) <=> i + n > Len(s))
      BY <1>1, <2>2
    <3>2. s[i].summaries <= IF i + n > Len(s) THEN 0 ELSE 1
      BY <1>1, <2>2 DEF Good
    <3> QED
      BY <3>1, <3>2
  <2> QED
    BY <1>1, <2>1, <2>2
<1>4. ASSUME NEW i \in DOMAIN t, i + (n + 1) <= Len(t), Silent(t[i]) PROVE Between(t, i)
  <2>1. i \in 1..Len(s) /\ i + 1 \in 1..Len(s) /\ i + n <= Len(s) /\ Silent(s[i])
    BY <1>1, <1>4
  <2>2. Between(s, i)
    BY <1>1, <2>1 DEF Good
  <2> QED
    BY <1>1, <2>1, <2>2 DEF Between
<1>5. ASSUME NEW i \in DOMAIN t, i + (n + 1) = Len(t) + 1
      PROVE  t[i].previews > 0 \/ (i > 1 /\ t[i - 1].summaries = 1)
  <2>0. n <= Len(s)
    BY DEF Good
  <2>1. i \in 1..Len(s) /\ i + n = Len(s) + 1 /\ (i > 1 => i - 1 \in 1..Len(s))
    BY <1>1, <1>5, <2>0
  <2>2. s[i].previews > 0 \/ (i > 1 /\ s[i - 1].summaries = 1)
    BY <1>1, <2>1 DEF Good
  <2> QED
    BY <1>1, <2>1, <2>2
<1>6. Good(t, n + 1)
  BY <1>1, <1>3, <1>4, <1>5 DEF Good
<1> QED
  BY <1>1, <1>6 DEF t

\* A message that is shown itself.
LEMMA PreviewGood ==
    ASSUME NEW s \in Seq(Told), NEW n \in 0..1, Good(s, n)
    PROVE  Append(s, Previewed) \in Seq(Told) /\ Good(Append(s, Previewed), 1)
<1> DEFINE t == Append(s, Previewed)
<1>1. /\ Previewed \in Told /\ t \in Seq(Told) /\ Len(t) = Len(s) + 1
      /\ t[Len(s) + 1] = Previewed /\ \A i \in 1..Len(s) : t[i] = s[i]
      /\ DOMAIN t = 1 .. Len(s) + 1 /\ DOMAIN s = 1..Len(s) /\ Len(s) \in Nat
      /\ Previewed.summaries = 0 /\ Previewed.previews = 1
  <2>1. Previewed \in Told /\ Previewed.summaries = 0 /\ Previewed.previews = 1
    BY DEF Told, Untold, Previewed
  <2> QED
    BY <2>1, AppendFacts
<1> HIDE DEF t
<1>2. \A i \in DOMAIN s : s[i].summaries <= 1
  <2> SUFFICES ASSUME NEW i \in DOMAIN s PROVE s[i].summaries <= 1
    OBVIOUS
  <2>1. s[i].summaries \in Nat
    BY <1>1, AppendFacts
  <2> QED
    BY <1>1, <2>1 DEF Good
<1>3. \A i \in DOMAIN t : t[i].summaries <= IF i + 1 > Len(t) THEN 0 ELSE 1
  BY <1>1, <1>2
<1>4. ASSUME NEW i \in DOMAIN t, i + 1 <= Len(t), Silent(t[i]) PROVE Between(t, i)
  <2>1. i \in 1..Len(s) /\ n = 1 /\ Silent(s[i])
    BY <1>1, <1>4 DEF Good
  <2>2. CASE i < Len(s)
    <3>1. Between(s, i)
      BY <1>1, <2>1, <2>2 DEF Good
    <3> QED
      BY <1>1, <2>1, <2>2, <3>1 DEF Between
  <2>3. CASE i = Len(s)
    <3>1. s[i].previews > 0 \/ (i > 1 /\ s[i - 1].summaries = 1)
      BY <1>1, <2>1, <2>3 DEF Good
    <3>2. i > 1 /\ s[i - 1].summaries = 1
      BY <2>1, <3>1 DEF Silent
    <3> QED
      BY <1>1, <2>1, <2>3, <3>2 DEF Between
  <2> QED
    BY <1>1, <2>1, <2>2, <2>3
<1>5. \A i \in DOMAIN t :
        i + 1 = Len(t) + 1 => t[i].previews > 0 \/ (i > 1 /\ t[i - 1].summaries = 1)
  BY <1>1
<1>6. Good(t, 1)
  BY <1>1, <1>3, <1>4, <1>5 DEF Good
<1> QED
  BY <1>1, <1>6 DEF t

\* A message that brings about the summary of those before it.
LEMMA SummaryGood ==
    ASSUME NEW s \in Seq(Told), NEW n \in Nat, n > 1, Good(s, n)
    PROVE  /\ Append(Summed(s, n), Untold) \in Seq(Told)
           /\ Good(Append(Summed(s, n), Untold), 1)
           /\ Len(Append(Summed(s, n), Untold)) = Len(s) + 1
           /\ Len(s) > 0
           /\ Append(Summed(s, n), Untold)[Len(s)] # s[Len(s)]
           /\ Append(Summed(s, n), Untold)[Len(s) + 1] = Untold
<1> DEFINE u == Summed(s, n)
           t == Append(u, Untold)
<1>1. /\ DOMAIN s = 1..Len(s) /\ Len(s) \in Nat /\ Len(s) >= n
      /\ \A i \in 1..Len(s) : s[i] \in Told
  BY DEF Good
<1>2. \A r \in Told : /\ [r EXCEPT !.summaries = @ + 1] \in Told
                      /\ [r EXCEPT !.summaries = @ + 1].summaries = r.summaries + 1
                      /\ [r EXCEPT !.summaries = @ + 1].previews = r.previews
  BY DEF Told
<1>3. ASSUME NEW i \in 1..Len(s)
      PROVE  /\ u[i] \in Told /\ u[i].previews = s[i].previews
             /\ i + n > Len(s) => u[i].summaries = s[i].summaries + 1
             /\ i + n <= Len(s) => u[i] = s[i]
  BY <1>1, <1>2 DEF Summed
<1>4. u \in Seq(Told) /\ Len(u) = Len(s)
  <2>1. DOMAIN u = 1..Len(s)
    BY <1>1 DEF Summed
  <2>2. u = [i \in 1..Len(s) |-> u[i]]
    BY <1>1 DEF Summed
  <2> HIDE DEF u
  <2> QED
    BY <1>1, <1>3, <2>1, <2>2
<1> HIDE DEF u
<1>5. /\ Untold \in Told /\ t \in Seq(Told) /\ Len(t) = Len(s) + 1
      /\ t[Len(s) + 1] = Untold /\ \A i \in 1..Len(s) : t[i] = u[i]
      /\ DOMAIN t = 1 .. Len(s) + 1 /\ Untold.summaries = 0
  <2>1. Untold \in Told /\ Untold.summaries = 0
    BY DEF Told, Untold
  <2> QED
    BY <1>4, <2>1, AppendFacts
<1> HIDE DEF t
<1>6. \A i \in 1..Len(s) : s[i].summaries \in Nat
  BY <1>1 DEF Told
<1>7. ASSUME NEW i \in 1..Len(s) PROVE u[i].summaries <= 1
  <2>1. s[i].summaries <= IF i + n > Len(s) THEN 0 ELSE 1
    BY <1>1 DEF Good
  <2>2. CASE i + n > Len(s)
    BY <1>3, <1>6, <2>1, <2>2
  <2>3. CASE i + n <= Len(s)
    BY <1>1, <1>3, <1>6, <2>1, <2>3
  <2> QED
    BY <1>1, <2>2, <2>3
<1>8. \A i \in DOMAIN t : t[i].summaries <= IF i + 1 > Len(t) THEN 0 ELSE 1
  BY <1>1, <1>5, <1>7
<1>9. \A i \in 1..Len(s) : i + n > Len(s) => ~Silent(u[i])
  BY <1>1, <1>3, <1>6 DEF Silent
<1>10. ASSUME NEW i \in DOMAIN t, i + 1 <= Len(t), Silent(t[i]) PROVE Between(t, i)
  <2>1. i \in 1..Len(s) /\ Silent(u[i]) /\ i + n <= Len(s)
    BY <1>1, <1>5, <1>9, <1>10
  <2>2. u[i] = s[i] /\ Between(s, i)
    BY <1>1, <1>3, <2>1 DEF Good
  <2>3. i - 1 \in 1..Len(s) /\ i + 1 \in 1..Len(s) /\ (i - 1) + n <= Len(s)
    BY <1>1, <2>1, <2>2 DEF Between
  <2>4. u[i - 1] = s[i - 1] /\ u[i + 1].previews = s[i + 1].previews
    BY <1>3, <2>3
  <2> QED
    BY <1>1, <1>5, <2>1, <2>2, <2>3, <2>4 DEF Between
<1>11. ASSUME NEW i \in DOMAIN t, i + 1 = Len(t) + 1
       PROVE  i > 1 /\ t[i - 1].summaries = 1
  <2>1. i - 1 = Len(s) /\ Len(s) \in 1..Len(s) /\ Len(s) + n > Len(s)
    BY <1>1, <1>5, <1>11
  <2>2. s[Len(s)].summaries <= 0 /\ s[Len(s)].summaries \in Nat
    BY <1>1, <1>6, <2>1 DEF Good
  <2>3. t[Len(s)].summaries = 1
    BY <1>3, <1>5, <2>1, <2>2
  <2>4. i > 1
    BY <1>1, <1>5, <2>1
  <2> QED
    BY <2>1, <2>3, <2>4
<1>12. Good(t, 1)
  BY <1>1, <1>5, <1>8, <1>10, <1>11 DEF Good
<1>13. t[Len(s)] # s[Len(s)]
  BY <1>1, <1>3, <1>5, <1>6
<1>14. t = Append(Summed(s, n), Untold)
  BY DEF t, u
<1> QED
  <2>1. t \in Seq(Told) /\ Len(t) = Len(s) + 1 /\ Len(s) > 0 /\ t[Len(s) + 1] = Untold
    BY <1>1, <1>5
  <2> QED
    BY <1>12, <1>13, <1>14, <2>1

-----------------------------------------------------------------------------
(* The specification.                                                      *)

\* Ages and times stay within the window.
LEMMA Min2Type ==
    ASSUME NEW a \in 0..Window, Window \in Nat
    PROVE  Min2(a + 1, Window) \in 0..Window
BY DEF Min2

\* With nothing told and no entry, the invariant holds.
LEMMA Beginning ==
    ASSUME status \in {"Running", "Panicked"}, focused \in BOOLEAN,
           limits = Empty, told = NoneTold, quiet = AllQuiet
    PROVE  IInv
<1> USE NotifierAssumption DEF NotifierAssumption
<1>1. DOMAIN limits = {} /\ \A p \in Peers : Count(p) = 0
  BY DEF Empty, Count
<1>2. \A p \in Peers : told[p] = <<>> /\ Len(told[p]) = 0
  BY DEF NoneTold
<1>3. told \in [Peers -> Seq(Told)]
  BY DEF NoneTold
<1>4. TypeOK
  BY <1>1, <1>2, <1>3 DEF TypeOK, AllQuiet
<1>5. AgeIsQuiet
  BY <1>1 DEF AgeIsQuiet, AllQuiet
<1>6. ASSUME NEW p \in Peers PROVE Good(told[p], Count(p))
  BY <1>1, <1>2, <1>6 DEF Good
<1> QED
  BY <1>4, <1>5, <1>6 DEF IInv, AllGood

\* What every arrival changes: one peer's count, age and history.
LEMMA ArrivalStep ==
    ASSUME IInv, NEW p \in Peers, NEW l \in Limit, NEW s \in Seq(Told), NEW q \in 0..Window,
           status' = status, focused' = focused,
           limits' = With(limits, p, l), told' = [told EXCEPT ![p] = s],
           quiet' = [quiet EXCEPT ![p] = q],
           q = l.age, Len(s) <= MaxMessages, Good(s, l.count)
    PROVE  IInv'
<1>1. /\ DOMAIN limits' = DOMAIN limits \cup {p} /\ limits'[p] = l
      /\ \A o \in DOMAIN limits \ {p} : limits'[o] = limits[o]
  BY DEF With
<1>2. /\ told \in [Peers -> Seq(Told)] /\ quiet \in [Peers -> 0..Window]
      /\ told'[p] = s /\ quiet'[p] = q
      /\ \A o \in Peers \ {p} : told'[o] = told[o] /\ quiet'[o] = quiet[o]
      /\ told' \in [Peers -> Seq(Told)] /\ quiet' \in [Peers -> 0..Window]
  BY DEF IInv, TypeOK
<1>3. Count(p)' = l.count /\ \A o \in Peers \ {p} : Count(o)' = Count(o)
  BY <1>1 DEF Count
<1>4. TypeOK'
  BY <1>1, <1>2 DEF IInv, TypeOK
<1>5. AgeIsQuiet'
  BY <1>1, <1>2 DEF IInv, AgeIsQuiet
<1>6. ASSUME NEW o \in Peers PROVE Good(told'[o], Count(o)')
  BY <1>2, <1>3 DEF IInv, AllGood
<1> QED
  BY <1>4, <1>5, <1>6 DEF IInv, AllGood

\* The invariant is inductive.
LEMMA Invariance == IInv /\ [Next]_vars => IInv'
<1> SUFFICES ASSUME IInv, [Next]_vars PROVE IInv'
  OBVIOUS
<1> USE NotifierAssumption DEF NotifierAssumption
<1>1. CASE Tick
  <2>1. \A p \in DOMAIN limits :
          /\ limits'[p] \in Limit /\ limits'[p].count = limits[p].count
          /\ limits'[p].age = Min2(limits[p].age + 1, Window)
    BY <1>1, Min2Type DEF Tick, IInv, TypeOK, Limit
  <2>2. DOMAIN limits' = DOMAIN limits /\ UNCHANGED <<status, focused, told>>
    BY <1>1 DEF Tick
  <2>3. /\ quiet' \in [Peers -> 0..Window]
        /\ \A p \in Peers : quiet'[p] = Min2(quiet[p] + 1, Window)
    BY <1>1, Min2Type DEF Tick, IInv, TypeOK
  <2>4. TypeOK'
    BY <2>1, <2>2, <2>3 DEF IInv, TypeOK
  <2>5. Min2(Window + 1, Window) = Window
    BY DEF Min2
  <2>6. AgeIsQuiet'
    BY <2>1, <2>2, <2>3, <2>5 DEF IInv, AgeIsQuiet
  <2>7. \A p \in Peers : Count(p)' = Count(p)
    BY <2>1, <2>2 DEF Count
  <2> QED
    BY <2>2, <2>4, <2>6, <2>7 DEF IInv, AllGood
<1>2. CASE Focus
  BY <1>2 DEF Focus, IInv, TypeOK, AgeIsQuiet, AllGood, Count
<1>3. CASE Restart
  <2>1. /\ status' \in {"Running", "Panicked"} /\ focused' \in BOOLEAN
        /\ limits' = Empty /\ told' = NoneTold /\ quiet' = AllQuiet
    BY <1>3 DEF Restart
  <2>2. DOMAIN limits' = {} /\ \A p \in Peers : Count(p)' = 0
    BY <2>1 DEF Empty, Count
  <2>3. /\ told' \in [Peers -> Seq(Told)]
        /\ \A p \in Peers : told'[p] = <<>> /\ Len(told'[p]) = 0
    BY <2>1 DEF NoneTold
  <2>4. TypeOK'
    BY <2>1, <2>2, <2>3 DEF TypeOK, AllQuiet
  <2>5. AgeIsQuiet'
    BY <2>1, <2>2 DEF AgeIsQuiet, AllQuiet
  <2>6. ASSUME NEW p \in Peers PROVE Good(told'[p], Count(p)')
    BY <2>2, <2>3 DEF Good
  <2> QED
    BY <2>4, <2>5, <2>6 DEF IInv, AllGood
<1>4. ASSUME NEW p \in Peers, Batch(p) PROVE IInv'
  <2> DEFINE l == [age |-> limits[p].age, count |-> limits[p].count + 1]
  <2>1. /\ p \in DOMAIN limits /\ limits[p] \in Limit /\ told[p] \in Seq(Told)
        /\ Count(p) = limits[p].count /\ Good(told[p], Count(p))
        /\ quiet[p] = limits[p].age
    BY <1>4 DEF Batch, Within, IInv, TypeOK, AllGood, AgeIsQuiet, Count
  <2>2. limits' = With(limits, p, l) /\ l \in Limit
    <3>1. \A r \in Limit : LET new == [age |-> r.age, count |-> r.count + 1]
                           IN  [r EXCEPT !.count = r.count + 1] = new /\ new \in Limit
      BY DEF Limit
    <3>2. limits' = [limits EXCEPT ![p] = l] /\ l \in Limit
      BY <1>4, <2>1, <3>1 DEF Batch
    <3> HIDE DEF l
    <3> QED
      BY <2>1, <3>2 DEF With
  <2>3. /\ Append(told[p], Untold) \in Seq(Told)
        /\ Good(Append(told[p], Untold), l.count)
    BY <2>1, BatchGood DEF Limit
  <2>4. Len(Append(told[p], Untold)) <= MaxMessages
    BY <1>4, <2>1 DEF Batch, Arrives
  <2>5. /\ UNCHANGED <<status, focused>> /\ quiet' = [quiet EXCEPT ![p] = quiet[p]]
        /\ told' = [told EXCEPT ![p] = Append(told[p], Untold)]
    BY <1>4 DEF Batch, IInv, TypeOK
  <2>6. quiet[p] \in 0..Window /\ quiet[p] = l.age
    BY <2>1 DEF IInv, TypeOK
  <2> HIDE DEF l
  <2> QED
    BY <2>2, <2>3, <2>4, <2>5, <2>6, ArrivalStep
<1>5. ASSUME NEW p \in Peers, Summarise(p) PROVE IInv'
  <2> DEFINE l == [age |-> 0, count |-> 1]
             s == Append(Summed(told[p], Count(p)), Untold)
  <2>1. /\ told[p] \in Seq(Told) /\ Count(p) \in Nat /\ Count(p) > 1
        /\ Good(told[p], Count(p)) /\ l \in Limit /\ l.age = 0 /\ l.count = 1
    BY <1>5 DEF Summarise, IInv, TypeOK, AllGood, Count, Limit
  <2>2. s \in Seq(Told) /\ Good(s, 1) /\ Len(s) = Len(told[p]) + 1
    BY <2>1, SummaryGood
  <2>3. Len(s) <= MaxMessages
    BY <1>5, <2>1, <2>2 DEF Summarise, Arrives
  <2>4. /\ UNCHANGED <<status, focused>> /\ quiet' = [quiet EXCEPT ![p] = 0]
        /\ limits' = With(limits, p, l) /\ told' = [told EXCEPT ![p] = s]
    BY <1>5 DEF Summarise, Notify, IInv, TypeOK
  <2>5. 0 \in 0..Window
    OBVIOUS
  <2> HIDE DEF l, s
  <2> QED
    BY <2>1, <2>2, <2>3, <2>4, <2>5, ArrivalStep
<1>6. ASSUME NEW p \in Peers, Preview(p) PROVE IInv'
  <2> DEFINE l == [age |-> 0, count |-> 1]
             s == Append(told[p], Previewed)
  <2>1. /\ told[p] \in Seq(Told) /\ Count(p) \in 0..1
        /\ Good(told[p], Count(p)) /\ l \in Limit /\ l.age = 0 /\ l.count = 1
    BY <1>6 DEF Preview, IInv, TypeOK, AllGood, Count, Limit
  <2>2. s \in Seq(Told) /\ Good(s, 1)
    BY <2>1, PreviewGood
  <2>3. Len(s) <= MaxMessages
    BY <1>6, <2>1 DEF Preview, Arrives
  <2>4. /\ UNCHANGED <<status, focused>> /\ quiet' = [quiet EXCEPT ![p] = 0]
        /\ limits' = With(limits, p, l) /\ told' = [told EXCEPT ![p] = s]
    BY <1>6 DEF Preview, Notify, Previewed, IInv, TypeOK
  <2>5. 0 \in 0..Window
    OBVIOUS
  <2> HIDE DEF l, s
  <2> QED
    BY <2>1, <2>2, <2>3, <2>4, <2>5, ArrivalStep
<1>7. ASSUME NEW p \in Peers, Panic(p) PROVE IInv'
  BY <1>7 DEF Panic, IInv, TypeOK, AgeIsQuiet, AllGood, Count
<1>8. CASE UNCHANGED vars
  BY <1>8 DEF vars, IInv, TypeOK, AgeIsQuiet, AllGood, Count
<1> QED
  BY <1>1, <1>2, <1>3, <1>4, <1>5, <1>6, <1>7, <1>8 DEF Next

\* The invariant holds in every reachable state.
LEMMA Invariant == Spec => []IInv
<1>1. Init => IInv
  BY Beginning DEF Init
<1> QED
  BY <1>1, Invariance, PTL DEF Spec

\* Types, for every number of peers.
THEOREM TypeInvariant == Spec => []TypeOK
<1>1. IInv => TypeOK
  BY DEF IInv
<1> QED
  BY <1>1, Invariant, PTL

\* No message is counted twice, and none that did not arrive.
THEOREM Counted == Spec => []CountedOnce
<1>1. IInv => CountedOnce
  BY DEF IInv, AllGood, Good, CountedOnce
<1> QED
  BY <1>1, Invariant, PTL

\* Of the messages that on_message_received no longer counts, only one that brought
\* a summary about and stayed alone is passed over, between two that are told of.
THEOREM OnlyOneMissed == Spec => []OnlyTriggerMissed
<1>1. IInv => OnlyTriggerMissed
  BY DEF IInv, AllGood, Good, Between, OnlyTriggerMissed
<1> QED
  BY <1>1, Invariant, PTL

\* A notification is raised exactly when the last one is a window ago.
THEOREM OneNotification == Spec => OnePerWindow
<1> DEFINE A == \A p \in Peers :
                   Len(told'[p]) > Len(told[p]) => (Raised(p) <=> quiet[p] = Window)
<1>1. ASSUME IInv, [Next]_vars PROVE [A]_vars
  <2> SUFFICES ASSUME NEW p \in Peers, Len(told'[p]) > Len(told[p])
               PROVE  Raised(p) <=> quiet[p] = Window
    OBVIOUS
  <2> USE NotifierAssumption DEF NotifierAssumption
  <2>1. told \in [Peers -> Seq(Told)]
    BY <1>1 DEF IInv, TypeOK
  <2>2. told' # told /\ told[p] \in Seq(Told)
    BY <2>1
  <2>3. \E o \in Peers : Batch(o) \/ Summarise(o) \/ Preview(o)
    <3>1. ~ Tick /\ ~ Focus /\ told # told' /\ \A o \in Peers : ~Panic(o)
      BY <2>2 DEF Tick, Focus, Panic
    <3>2. ~ Restart
      BY <2>2 DEF Restart, NoneTold
    <3> QED
      BY <1>1, <3>1, <3>2 DEF Next, vars
  <2>4. \A o \in Peers : Batch(o) \/ Summarise(o) \/ Preview(o) => o = p
    BY <2>1 DEF Batch, Summarise, Preview
  <2>5. quiet[p] \in 0..Window /\ (quiet[p] = Window <=> ~Within(p))
    BY <1>1 DEF IInv, AgeIsQuiet, TypeOK, Within, Limit
  <2>6. CASE Batch(p)
    <3>1. told'[p] = Append(told[p], Untold) /\ Untold \in Told /\ Untold.previews = 0
      BY <2>1, <2>6 DEF Batch, Told, Untold
    <3>2. ~Raised(p)
      BY <2>2, <3>1, AppendFacts DEF Raised
    <3> QED
      BY <2>5, <2>6, <3>2 DEF Batch
  <2>7. CASE Summarise(p)
    <3>1. /\ Good(told[p], Count(p)) /\ Count(p) \in Nat /\ Count(p) > 1
          /\ told'[p] = Append(Summed(told[p], Count(p)), Untold)
      BY <1>1, <2>1, <2>7 DEF Summarise, IInv, TypeOK, AllGood, Count, Limit
    <3>2. told'[p][Len(told[p])] # told[p][Len(told[p])] /\ Len(told[p]) > 0
      BY <2>2, <3>1, SummaryGood
    <3>3. Raised(p)
      BY <2>2, <3>2 DEF Raised
    <3> QED
      BY <2>5, <2>7, <3>3 DEF Summarise
  <2>8. CASE Preview(p)
    <3>1. /\ told'[p] = Append(told[p], Previewed) /\ Previewed \in Told
          /\ Previewed.previews = 1
      BY <2>1, <2>8 DEF Preview, Previewed, Told, Untold
    <3>2. Raised(p)
      BY <2>2, <3>1, AppendFacts DEF Raised
    <3> QED
      BY <2>5, <2>8, <3>2 DEF Preview
  <2> QED
    BY <2>3, <2>4, <2>6, <2>7, <2>8
<1> QED
  BY <1>1, Invariant, PTL DEF Spec, OnePerWindow
=============================================================================
