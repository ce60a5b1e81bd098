--------------------------- MODULE AgentTurn_proofs ---------------------------
(***************************************************************************)
(* Theorems about AgentTurn, for every plan, every number of tool calls    *)
(* and every order of their results.                                       *)
(*                                                                         *)
(* The invariant has five parts: the types; the turns of the three agents  *)
(* and the retry budget; the calls of the turn under way, which are the    *)
(* recordings; the error windows, each the last ten results of its agent;  *)
(* and the histories, each the last calls of its agent's turns.            *)
(***************************************************************************)
EXTENDS AgentTurn, SequenceTheorems, FiniteSetTheorems, TLAPS

-----------------------------------------------------------------------------
(* The operators of the module                                             *)

\* The last n elements of a sequence.
LEMMA LastOfElements ==
    ASSUME NEW T, NEW s \in Seq(T), NEW n \in Nat \ {0}
    PROVE  /\ LastOf(s, n) \in Seq(T)
           /\ Len(LastOf(s, n)) = IF Len(s) > n THEN n ELSE Len(s)
           /\ \A i \in 1..Len(LastOf(s, n)) :
                LastOf(s, n)[i] = s[Len(s) - Len(LastOf(s, n)) + i]
<1> DEFINE k == IF Len(s) > n THEN Len(s) - n + 1 ELSE 1
<1>1. Len(s) \in Nat
  BY LenProperties
<1>2. CASE s = <<>>
  <2>1. LastOf(s, n) = <<>>
    BY <1>2, <1>1 DEF LastOf
  <2>2. QED
    BY <2>1, <1>2, EmptySeq
<1>3. CASE s # <<>>
  <2>1. Len(s) \in Nat \ {0}
    BY <1>3, EmptySeq
  <2>2. k \in 1..Len(s) /\ Len(s) \in 1..Len(s) /\ k <= Len(s)
    BY <2>1
  <2>3. LastOf(s, n) = SubSeq(s, k, Len(s))
    BY DEF LastOf
  <2> HIDE DEF k
  <2>4. /\ LastOf(s, n) \in Seq(T)
        /\ Len(LastOf(s, n)) = Len(s) - k + 1
        /\ \A i \in 1..(Len(s) - k + 1) : LastOf(s, n)[i] = s[k + i - 1]
    BY <2>2, <2>3, <2>1, SubSeqProperties
  <2>5. Len(LastOf(s, n)) = IF Len(s) > n THEN n ELSE Len(s)
    BY <2>4, <2>1 DEF k
  <2>6. ASSUME NEW i \in 1..Len(LastOf(s, n))
        PROVE  LastOf(s, n)[i] = s[Len(s) - Len(LastOf(s, n)) + i]
    <3>1. k + i - 1 = Len(s) - Len(LastOf(s, n)) + i
      BY <2>4, <2>2, <2>1
    <3>2. QED
      BY <3>1, <2>4
  <2>7. QED
    BY <2>4, <2>5, <2>6
<1>4. QED
  BY <1>2, <1>3

\* Trimming before an element is appended changes nothing.
LEMMA LastOfAppend ==
    ASSUME NEW T, NEW s \in Seq(T), NEW x \in T, NEW n \in Nat \ {0}
    PROVE  LastOf(Append(LastOf(s, n), x), n) = LastOf(Append(s, x), n)
<1> DEFINE w == LastOf(s, n)  a == Append(w, x)  b == Append(s, x)
           l == LastOf(a, n)  r == LastOf(b, n)
<1>1. Len(s) \in Nat
  BY LenProperties
<1>2. /\ w \in Seq(T) /\ Len(w) = (IF Len(s) > n THEN n ELSE Len(s))
      /\ \A i \in 1..Len(w) : w[i] = s[Len(s) - Len(w) + i]
  BY LastOfElements
<1>3. /\ b \in Seq(T) /\ Len(b) = Len(s) + 1 /\ b[Len(s) + 1] = x
      /\ \A i \in 1..Len(s) : b[i] = s[i]
  BY AppendProperties
<1> HIDE DEF w
<1>4. /\ a \in Seq(T) /\ Len(a) = Len(w) + 1 /\ a[Len(w) + 1] = x
      /\ \A i \in 1..Len(w) : a[i] = w[i]
  BY <1>2, AppendProperties
<1> HIDE DEF a, b
<1>5. /\ l \in Seq(T) /\ Len(l) = (IF Len(a) > n THEN n ELSE Len(a))
      /\ \A i \in 1..Len(l) : l[i] = a[Len(a) - Len(l) + i]
  BY <1>4, LastOfElements
<1>6. /\ r \in Seq(T) /\ Len(r) = (IF Len(b) > n THEN n ELSE Len(b))
      /\ \A i \in 1..Len(r) : r[i] = b[Len(b) - Len(r) + i]
  BY <1>3, LastOfElements
<1> HIDE DEF l, r
<1>7. Len(l) = Len(r) /\ Len(w) \in Nat /\ Len(w) <= Len(s)
  BY <1>1, <1>2, <1>3, <1>4, <1>5, <1>6
<1> DEFINE ls == Len(s)  lw == Len(w)  la == Len(a)  lb == Len(b)  ll == Len(l)
<1>8. /\ ls \in Nat /\ lw = (IF ls > n THEN n ELSE ls) /\ la = lw + 1 /\ lb = ls + 1
      /\ ll = (IF la > n THEN n ELSE la) /\ Len(r) = ll
  BY <1>1, <1>2, <1>3, <1>4, <1>5, <1>7
<1>9. ASSUME NEW i \in 1..Len(l)
      PROVE  l[i] = r[i]
  <2>1. CASE Len(a) - Len(l) + i = Len(w) + 1
    <3>1. Len(b) - Len(r) + i = Len(s) + 1
      <4>1. i \in 1..ll /\ la - ll + i = lw + 1
        BY <2>1
      <4> HIDE DEF ls, lw, la, lb, ll
      <4>2. lb - ll + i = ls + 1
        BY <4>1, <1>8
      <4>3. QED
        BY <4>2, <1>8 DEF lb, ls
    <3>2. QED
      BY <3>1, <2>1, <1>3, <1>4, <1>5, <1>6, <1>7
  <2>2. CASE Len(a) - Len(l) + i # Len(w) + 1
    <3> DEFINE j == Len(a) - Len(l) + i  k == Len(b) - Len(r) + i
    <3>1. /\ j \in 1..Len(w) /\ k \in 1..Len(s)
          /\ Len(s) - Len(w) + j = k
      <4>1. i \in 1..ll /\ la - ll + i # lw + 1
        BY <2>2
      <4> HIDE DEF ls, lw, la, lb, ll
      <4>2. la - ll + i \in 1..lw /\ lb - ll + i \in 1..ls
            /\ ls - lw + (la - ll + i) = lb - ll + i
        BY <4>1, <1>8
      <4>3. QED
        BY <4>2, <1>8 DEF la, lb, ls, lw, ll
    <3>2. l[i] = a[j] /\ r[i] = b[k]
      BY <1>5, <1>6, <1>7
    <3> HIDE DEF j, k
    <3>3. l[i] = s[k] /\ r[i] = s[k]
      BY <3>1, <3>2, <1>2, <1>3, <1>4
    <3>4. QED
      BY <3>3
  <2>3. QED
    BY <2>1, <2>2
<1>10. l = r
  BY <1>5, <1>6, <1>7, <1>9, SeqEqual
<1>11. QED
  BY <1>10 DEF l, r, a, b, w

\* The failures in a sequence of results are a number.
LEMMA FailedInNat ==
    ASSUME NEW s \in Seq(BOOLEAN)
    PROVE  FailedIn(s) \in Nat
<1>1. Len(s) \in Nat
  BY LenProperties
<1>2. IsFiniteSet(1..Len(s))
  BY <1>1, FS_Interval
<1>3. IsFiniteSet({i \in 1..Len(s) : ~s[i]})
  BY <1>2, FS_Subset
<1>4. QED
  BY <1>3, FS_CardinalityType DEF FailedIn

\* How often a call is in a history.
Repeats(h, call) == {j \in 1..Len(h) : h[j] = call}

\* It is a number.
LEMMA RepeatsFinite ==
    ASSUME NEW T, NEW h \in Seq(T), NEW call
    PROVE  IsFiniteSet(Repeats(h, call)) /\ Cardinality(Repeats(h, call)) \in Nat
<1>1. Len(h) \in Nat
  BY LenProperties
<1>2. IsFiniteSet(1..Len(h))
  BY <1>1, FS_Interval
<1>3. IsFiniteSet(Repeats(h, call))
  BY <1>2, FS_Subset DEF Repeats
<1>4. QED
  BY <1>3, FS_CardinalityType

\* A history that becomes a loop with a call has that call three times.
LEMMA LoopIsOfLastCall ==
    ASSUME NEW T, NEW h \in Seq(T), NEW call \in T,
           ~IsLoop(h), IsLoop(Append(h, call))
    PROVE  Cardinality(Repeats(Append(h, call), call)) >= LoopThreshold
<1> DEFINE g == Append(h, call)
<1>1. /\ g \in Seq(T) /\ Len(g) = Len(h) + 1 /\ g[Len(h) + 1] = call
      /\ \A i \in 1..Len(h) : g[i] = h[i]
  BY AppendProperties
<1>2. Len(h) \in Nat
  BY LenProperties
<1>3. PICK i \in 1..Len(g) : Cardinality(Repeats(g, g[i])) >= LoopThreshold
  BY DEF IsLoop, Repeats
<1> HIDE DEF g
<1>4. CASE g[i] = call
  BY <1>3, <1>4 DEF g
<1>5. CASE g[i] # call
  <2>1. i \in 1..Len(h) /\ g[i] = h[i]
    BY <1>5, <1>1, <1>2
  <2>2. Repeats(g, g[i]) = Repeats(h, h[i])
    BY <2>1, <1>1, <1>2, <1>5 DEF Repeats
  <2>3. QED
    BY <2>1, <2>2, <1>3 DEF IsLoop, Repeats
<1>6. QED
  BY <1>4, <1>5

-----------------------------------------------------------------------------
(* The calls of the task                                                   *)

\* Every call of a turn: what the agents' code calls and the model's tools.
CallsOfTask ==
    CoderTools \cup ReviewerTools \cup QaTools \cup {<<"mypy", f>> : f \in FileNames}

Recordings == [call : CallsOfTask, ok : BOOLEAN]
MadeCalls == [call : CallsOfTask, ok : BOOLEAN, turn : Nat, free : BOOLEAN]

\* The files the code of a turn reads are files of the plan.
LEMMA FilesOfPlan ==
    /\ Len(Files) \in Nat
    /\ \A i \in 1..Len(Files) : Files[i] \in FileNames
<1>1. Files \in Seq(STRING)
  BY TurnAssumption
<1>2. Len(Files) \in Nat
  BY <1>1, LenProperties
<1>3. QED
  BY <1>2 DEF FileNames

\* What the code calls before it asks the model are calls of the task.
LEMMA CallsBeforeModelType ==
    ASSUME NEW a \in Agents
    PROVE  CallsBeforeModel(a) \in Seq(CallsOfTask)
<1> DEFINE n == Shorter(5, Len(Files))  k == Shorter(3, Len(Files))
<1>1. /\ n \in Nat /\ n <= Len(Files) /\ k \in Nat /\ k <= Len(Files)
      /\ Len(Files) \in Nat /\ 2 * k \in Nat
  BY FilesOfPlan DEF Shorter
<1>2. Reads \in Seq(CallsOfTask)
  <2> DEFINE read(i) == <<"read_file", Files[i]>>
  <2>1. ASSUME NEW i \in 1..n PROVE read(i) \in CallsOfTask
    <3>1. Files[i] \in FileNames
      BY <1>1, FilesOfPlan
    <3>2. QED
      BY <3>1 DEF CallsOfTask, CoderTools, FileReads
  <2> HIDE DEF read, n
  <2>2. [i \in 1..n |-> read(i)] \in Seq(CallsOfTask)
    BY <2>1, <1>1, IsASeq
  <2>3. QED
    BY <2>2 DEF Reads, read, n
<1>3. Analyses \in Seq(CallsOfTask)
  <2> DEFINE look(i) == <<IF i % 2 = 1 THEN "ruff" ELSE "mypy", Files[(i + 1) \div 2]>>
  <2>1. ASSUME NEW i \in 1..(2 * k) PROVE look(i) \in CallsOfTask
    <3> DEFINE f == Files[(i + 1) \div 2]
    <3>1. (i + 1) \div 2 \in 1..Len(Files)
      <4> HIDE DEF k
      <4>1. QED
        BY <1>1
    <3>2. f \in FileNames
      BY <3>1, FilesOfPlan
    <3> HIDE DEF f
    <3>3. <<"ruff", f>> \in CallsOfTask /\ <<"mypy", f>> \in CallsOfTask
      BY <3>2 DEF CallsOfTask, ReviewerTools
    <3>4. CASE i % 2 = 1
      BY <3>3, <3>4 DEF f
    <3>5. CASE i % 2 # 1
      BY <3>3, <3>5 DEF f
    <3>6. QED
      BY <3>4, <3>5
  <2> HIDE DEF look, k
  <2>2. [i \in 1..(2 * k) |-> look(i)] \in Seq(CallsOfTask)
    BY <2>1, <1>1, IsASeq
  <2>3. QED
    BY <2>2 DEF Analyses, look, k
<1>4. (Reads \o Analyses) \o Reads \in Seq(CallsOfTask)
  <2>1. Reads \o Analyses \in Seq(CallsOfTask)
    BY <1>2, <1>3, ConcatProperties
  <2>2. QED
    BY <2>1, <1>2, ConcatProperties
<1>5. CASE a = "coder"
  BY <1>5, <1>2 DEF CallsBeforeModel
<1>6. CASE a = "reviewer"
  BY <1>6, <1>4 DEF CallsBeforeModel
<1>7. CASE a = "qa"
  BY <1>7, <1>2 DEF CallsBeforeModel
<1>8. QED
  BY <1>5, <1>6, <1>7 DEF Agents

\* So are those the answer asks for.
LEMMA CallsAfterModelType ==
    ASSUME NEW a \in Agents, NEW diff \in DiffLengths, NEW tests \in TestSuites
    PROVE  CallsAfterModel(a, diff, tests) \in Seq(CallsOfTask)
<1> DEFINE write(i) == <<"write_file", tests[i]>>
           writes == [i \in 1..Len(tests) |-> write(i)]
<1>1. tests \in Seq(STRING)
  BY TurnAssumption
<1>2. Len(tests) \in Nat
  BY <1>1, LenProperties
<1>3. writes \in Seq(CallsOfTask)
  <2>1. ASSUME NEW i \in 1..Len(tests) PROVE write(i) \in CallsOfTask
    <3>1. write(i) \in {<<"write_file", tests[j]>> : j \in 1..Len(tests)}
      OBVIOUS
    <3>2. write(i) \in QaTools
      BY <3>1 DEF QaTools
    <3>3. QED
      BY <3>2 DEF CallsOfTask
  <2> HIDE DEF write
  <2>2. QED
    BY <2>1, <1>2, IsASeq
<1>4. <<"run_tests", "pytest">> \in CallsOfTask
  BY DEF CallsOfTask, QaTools
<1>5. <<<<"run_tests", "pytest">>>> \in Seq(CallsOfTask)
  BY <1>4
<1> HIDE DEF writes
<1>6. writes \o <<<<"run_tests", "pytest">>>> \in Seq(CallsOfTask)
  BY <1>3, <1>5, ConcatProperties
<1>7. <<"apply_diff", diff>> \in CallsOfTask
  BY DEF CallsOfTask, CoderTools
<1>8. <<<<"apply_diff", diff>>>> \in Seq(CallsOfTask)
  BY <1>7
<1>9. CASE a = "coder"
  BY <1>9, <1>8 DEF CallsAfterModel
<1>10. CASE a = "reviewer"
  BY <1>10, EmptySeq DEF CallsAfterModel
<1>11. CASE a = "qa"
  BY <1>11, <1>6 DEF CallsAfterModel, writes
<1>12. QED
  BY <1>9, <1>10, <1>11 DEF Agents

\* And what the model may call.
LEMMA ToolsType ==
    ASSUME NEW a \in Agents
    PROVE  Tools(a) \subseteq CallsOfTask
BY DEF Tools, CallsOfTask, Agents

-----------------------------------------------------------------------------
(* The error windows                                                       *)

ResultsIn(calls) == [i \in 1..Len(calls) |-> calls[i].ok]

\* The last ten results of the first n calls.
WindowOf(calls, n) == LastOf(SubSeq(ResultsIn(calls), 1, n), ErrorWindow)

\* The results of the first n calls.
LEMMA ResultsElements ==
    ASSUME NEW calls \in Seq(MadeCalls), NEW n \in 0..Len(calls)
    PROVE  /\ ResultsIn(calls) \in Seq(BOOLEAN) /\ Len(ResultsIn(calls)) = Len(calls)
           /\ SubSeq(ResultsIn(calls), 1, n) \in Seq(BOOLEAN)
           /\ Len(SubSeq(ResultsIn(calls), 1, n)) = n
           /\ \A i \in 1..n : SubSeq(ResultsIn(calls), 1, n)[i] = calls[i].ok
<1> DEFINE r == ResultsIn(calls)  s == SubSeq(r, 1, n)
<1>1. Len(calls) \in Nat
  BY LenProperties
<1>2. \A i \in 1..Len(calls) : calls[i].ok \in BOOLEAN
  <2>1. \A i \in 1..Len(calls) : calls[i] \in MadeCalls
    BY ElementOfSeq
  <2>2. QED
    BY <2>1 DEF MadeCalls
<1>3. r \in Seq(BOOLEAN) /\ Len(r) = Len(calls) /\ \A i \in 1..Len(calls) : r[i] = calls[i].ok
  BY <1>1, <1>2 DEF ResultsIn
<1> HIDE DEF r
<1>4. \A i \in 1..n : r[i] \in BOOLEAN /\ r[i] = calls[i].ok
  BY <1>1, <1>2, <1>3
<1>5. 1 \in Int /\ n \in Int /\ n \in Nat
  BY <1>1
<1>6. s \in Seq(BOOLEAN) /\ Len(s) = (IF 1 <= n THEN n - 1 + 1 ELSE 0)
      /\ \A i \in 1..(n - 1 + 1) : s[i] = r[1 + i - 1]
  BY <1>4, <1>5, SubSeqProperties
<1> HIDE DEF s
<1>7. Len(s) = n /\ \A i \in 1..n : s[i] = r[i]
  BY <1>5, <1>6
<1>8. QED
  BY <1>3, <1>4, <1>6, <1>7 DEF r, s

\* A window is a sequence of results, as long as there are calls, up to ten.
LEMMA WindowOfType ==
    ASSUME NEW calls \in Seq(MadeCalls), NEW n \in 0..Len(calls)
    PROVE  /\ WindowOf(calls, n) \in Seq(BOOLEAN)
           /\ Len(WindowOf(calls, n)) = IF n > ErrorWindow THEN ErrorWindow ELSE n
           /\ FailedIn(WindowOf(calls, n)) \in Nat
<1> DEFINE s == SubSeq(ResultsIn(calls), 1, n)
<1>1. s \in Seq(BOOLEAN) /\ Len(s) = n
  BY ResultsElements
<1>2. ErrorWindow \in Nat \ {0}
  BY DEF ErrorWindow
<1> HIDE DEF s
<1>3. /\ LastOf(s, ErrorWindow) \in Seq(BOOLEAN)
      /\ Len(LastOf(s, ErrorWindow)) = IF Len(s) > ErrorWindow THEN ErrorWindow ELSE Len(s)
  BY <1>1, <1>2, LastOfElements
<1>4. QED
  BY <1>1, <1>3, FailedInNat DEF WindowOf, s

\* The window of all the calls.
LEMMA WindowOfAll ==
    ASSUME NEW calls \in Seq(MadeCalls)
    PROVE  WindowOf(calls, Len(calls)) = LastOf(ResultsIn(calls), ErrorWindow)
<1>1. Len(calls) \in 0..Len(calls)
  BY LenProperties
<1>2. ResultsIn(calls) \in Seq(BOOLEAN) /\ Len(ResultsIn(calls)) = Len(calls)
  BY <1>1, ResultsElements
<1>3. SubSeq(ResultsIn(calls), 1, Len(calls)) = ResultsIn(calls)
  BY <1>2, SubSeqFull
<1>4. QED
  BY <1>3 DEF WindowOf

\* The window grows with the next call.
LEMMA WindowOfNext ==
    ASSUME NEW calls \in Seq(MadeCalls), NEW n \in 0..Len(calls), n < Len(calls)
    PROVE  WindowOf(calls, n + 1)
             = LastOf(Append(WindowOf(calls, n), calls[n + 1].ok), ErrorWindow)
<1> DEFINE s == SubSeq(ResultsIn(calls), 1, n)  t == SubSeq(ResultsIn(calls), 1, n + 1)
           x == calls[n + 1].ok
<1>1. n \in Nat /\ n + 1 \in 0..Len(calls) /\ n + 1 \in 1..Len(calls)
  BY LenProperties
<1>2. s \in Seq(BOOLEAN) /\ Len(s) = n /\ \A i \in 1..n : s[i] = calls[i].ok
  BY ResultsElements
<1>3. t \in Seq(BOOLEAN) /\ Len(t) = n + 1 /\ \A i \in 1..(n + 1) : t[i] = calls[i].ok
  BY <1>1, ResultsElements
<1>4. x \in BOOLEAN
  <2>1. calls[n + 1] \in MadeCalls
    BY <1>1, ElementOfSeq
  <2>2. QED
    BY <2>1 DEF MadeCalls
<1> HIDE DEF s, t
<1>5. /\ Append(s, x) \in Seq(BOOLEAN) /\ Len(Append(s, x)) = n + 1
      /\ \A i \in 1..n : Append(s, x)[i] = s[i]
      /\ Append(s, x)[n + 1] = x
  BY <1>2, <1>4, AppendProperties
<1>6. \A i \in 1..(n + 1) : Append(s, x)[i] = t[i]
  BY <1>1, <1>2, <1>3, <1>5
<1>7. Append(s, x) = t
  BY <1>3, <1>5, <1>6, SeqEqual
<1>8. ErrorWindow \in Nat \ {0}
  BY DEF ErrorWindow
<1> HIDE DEF x
<1>9. LastOf(Append(LastOf(s, ErrorWindow), x), ErrorWindow) = LastOf(t, ErrorWindow)
  BY <1>2, <1>4, <1>7, <1>8, LastOfAppend
<1>10. QED
  BY <1>9 DEF WindowOf, s, t, x

\* Later calls do not change it.
LEMMA WindowOfKept ==
    ASSUME NEW calls \in Seq(MadeCalls), NEW c \in MadeCalls, NEW n \in 0..Len(calls)
    PROVE  WindowOf(Append(calls, c), n) = WindowOf(calls, n)
<1> DEFINE more == Append(calls, c)
           s == SubSeq(ResultsIn(calls), 1, n)  t == SubSeq(ResultsIn(more), 1, n)
<1>1. /\ more \in Seq(MadeCalls) /\ Len(more) = Len(calls) + 1
      /\ \A i \in 1..Len(calls) : more[i] = calls[i]
  BY AppendProperties
<1>2. Len(calls) \in Nat
  BY LenProperties
<1> HIDE DEF more
<1>3. n \in 0..Len(more) /\ \A i \in 1..n : more[i] = calls[i]
  BY <1>1, <1>2
<1>4. s \in Seq(BOOLEAN) /\ Len(s) = n /\ \A i \in 1..n : s[i] = calls[i].ok
  BY ResultsElements
<1>5. t \in Seq(BOOLEAN) /\ Len(t) = n /\ \A i \in 1..n : t[i] = more[i].ok
  BY <1>1, <1>3, ResultsElements
<1> HIDE DEF s, t
<1>6. s = t
  BY <1>3, <1>4, <1>5, SeqEqual
<1>7. QED
  BY <1>6 DEF WindowOf, s, t, more

-----------------------------------------------------------------------------
(* The histories                                                           *)

EndsTurn(calls, k, n) == k < n => calls[k + 1].turn # calls[k].turn

\* h holds, each at a place of its own, the last calls of the turns within the
\* first n calls.
LastCallsOfTurns(calls, h, n) ==
    \E ends \in [1..Len(h) -> 1..n] :
        /\ \A i, j \in 1..Len(h) : ends[i] = ends[j] => i = j
        /\ \A i \in 1..Len(h) : calls[ends[i]].call = h[i]
        /\ \A k \in 1..n : EndsTurn(calls, k, n) => \E i \in 1..Len(h) : ends[i] = k

\* Later calls do not change that.
LEMMA LastCallsKept ==
    ASSUME NEW calls \in Seq(MadeCalls), NEW c \in MadeCalls, NEW n \in 0..Len(calls),
           NEW h, LastCallsOfTurns(calls, h, n)
    PROVE  LastCallsOfTurns(Append(calls, c), h, n)
<1> DEFINE more == Append(calls, c)
<1>1. Len(calls) \in Nat
  BY LenProperties
<1>2. \A i \in 1..Len(calls) : more[i] = calls[i]
  BY AppendProperties
<1> HIDE DEF more
<1>3. \A i \in 1..n : more[i] = calls[i]
  BY <1>1, <1>2
<1>4. \A k \in 1..n : EndsTurn(more, k, n) <=> EndsTurn(calls, k, n)
  <2> SUFFICES ASSUME NEW k \in 1..n PROVE EndsTurn(more, k, n) <=> EndsTurn(calls, k, n)
    OBVIOUS
  <2>1. CASE k < n
    <3>1. k + 1 \in 1..n
      BY <2>1, <1>1
    <3>2. more[k + 1] = calls[k + 1] /\ more[k] = calls[k]
      BY <3>1, <1>3
    <3>3. QED
      BY <3>2 DEF EndsTurn
  <2>2. CASE ~(k < n)
    BY <2>2 DEF EndsTurn
  <2>3. QED
    BY <2>1, <2>2
<1>5. PICK ends \in [1..Len(h) -> 1..n] :
        /\ \A i, j \in 1..Len(h) : ends[i] = ends[j] => i = j
        /\ \A i \in 1..Len(h) : calls[ends[i]].call = h[i]
        /\ \A k \in 1..n : EndsTurn(calls, k, n) => \E i \in 1..Len(h) : ends[i] = k
  BY DEF LastCallsOfTurns
<1>6. \A i \in 1..Len(h) : more[ends[i]].call = h[i]
  BY <1>3, <1>5
<1>7. LastCallsOfTurns(more, h, n)
  BY <1>4, <1>5, <1>6 DEF LastCallsOfTurns
<1>8. QED
  BY <1>7 DEF more

\* A turn adds its last call to the history.
LEMMA LastCallsOfNextTurn ==
    ASSUME NEW calls \in Seq(MadeCalls), NEW n \in 0..Len(calls), n < Len(calls),
           NEW h \in Seq(CallsOfTask), LastCallsOfTurns(calls, h, n),
           \A k \in 1..n : calls[k].turn # calls[Len(calls)].turn,
           \A k \in (n + 1)..Len(calls) : calls[k].turn = calls[Len(calls)].turn
    PROVE  LastCallsOfTurns(calls, Append(h, calls[Len(calls)].call), Len(calls))
<1> DEFINE m == Len(calls)  lh == Len(h)  g == Append(h, calls[m].call)
<1>1. m \in Nat /\ n \in Nat /\ n < m /\ m \in 1..m /\ lh \in Nat
  BY LenProperties
<1>2. calls[m].call \in CallsOfTask
  <2>1. calls[m] \in MadeCalls
    BY <1>1, ElementOfSeq
  <2>2. QED
    BY <2>1 DEF MadeCalls
<1>3. Len(g) = lh + 1 /\ g[lh + 1] = calls[m].call /\ \A i \in 1..lh : g[i] = h[i]
  BY <1>2, AppendProperties
<1>4. PICK old \in [1..lh -> 1..n] :
        /\ \A i, j \in 1..lh : old[i] = old[j] => i = j
        /\ \A i \in 1..lh : calls[old[i]].call = h[i]
        /\ \A k \in 1..n : EndsTurn(calls, k, n) => \E i \in 1..lh : old[i] = k
  BY DEF LastCallsOfTurns
<1>5. \A k \in 1..n : calls[k].turn # calls[m].turn
  OBVIOUS
<1>6. \A k \in (n + 1)..m : calls[k].turn = calls[m].turn
  OBVIOUS
<1> HIDE DEF m, lh, g
<1> DEFINE ends == [i \in 1..(lh + 1) |-> IF i \in 1..lh THEN old[i] ELSE m]
<1>7. ends \in [1..(lh + 1) -> 1..m]
  BY <1>1, <1>4
<1>8. ends[lh + 1] = m /\ \A i \in 1..lh : ends[i] = old[i] /\ old[i] \in 1..n
  BY <1>1, <1>4
<1>9. \A i \in 1..(lh + 1) : i \in 1..lh \/ i = lh + 1
  BY <1>1
<1> HIDE DEF ends
<1>10. \A i, j \in 1..(lh + 1) : ends[i] = ends[j] => i = j
  <2> SUFFICES ASSUME NEW i \in 1..(lh + 1), NEW j \in 1..(lh + 1), ends[i] = ends[j]
               PROVE  i = j
    OBVIOUS
  <2>1. CASE i \in 1..lh /\ j \in 1..lh
    BY <2>1, <1>4, <1>8
  <2>2. CASE i = lh + 1 /\ j \in 1..lh
    BY <2>2, <1>1, <1>8
  <2>3. CASE i \in 1..lh /\ j = lh + 1
    BY <2>3, <1>1, <1>8
  <2>4. QED
    BY <2>1, <2>2, <2>3, <1>9
<1>11. \A i \in 1..(lh + 1) : calls[ends[i]].call = g[i]
  BY <1>3, <1>4, <1>8, <1>9
<1>12. ASSUME NEW k \in 1..m, EndsTurn(calls, k, m)
       PROVE  \E i \in 1..(lh + 1) : ends[i] = k
  <2>1. CASE k = m
    <3>1. lh + 1 \in 1..(lh + 1)
      BY <1>1
    <3>2. QED
      BY <3>1, <2>1, <1>8
  <2>2. CASE k \in 1..n
    <3>1. EndsTurn(calls, k, n)
      <4>1. k < m
        BY <2>2, <1>1
      <4>2. QED
        BY <4>1, <1>12 DEF EndsTurn
    <3>2. PICK i \in 1..lh : old[i] = k
      BY <3>1, <2>2, <1>4
    <3>3. i \in 1..(lh + 1)
      BY <1>1
    <3>4. QED
      BY <3>2, <3>3, <1>8
  <2>3. CASE k \notin 1..n /\ k # m
    <3>1. k < m /\ k \in (n + 1)..m /\ k + 1 \in (n + 1)..m
      BY <2>3, <1>1
    <3>2. calls[k].turn = calls[k + 1].turn
      BY <3>1, <1>6
    <3>3. QED
      BY <3>1, <3>2, <1>12 DEF EndsTurn
  <2>4. QED
    BY <2>1, <2>2, <2>3
<1>13. LastCallsOfTurns(calls, g, m)
  <2>1. 1..Len(g) = 1..(lh + 1)
    BY <1>3
  <2>2. \A k \in 1..m : EndsTurn(calls, k, m) => \E i \in 1..(lh + 1) : ends[i] = k
    BY <1>12
  <2>3. ends \in [1..Len(g) -> 1..m]
    BY <2>1, <1>7
  <2>4. /\ \A i, j \in 1..Len(g) : ends[i] = ends[j] => i = j
        /\ \A i \in 1..Len(g) : calls[ends[i]].call = g[i]
        /\ \A k \in 1..m : EndsTurn(calls, k, m) => \E i \in 1..Len(g) : ends[i] = k
    BY <2>1, <2>2, <1>10, <1>11
  <2>5. QED
    BY <2>3, <2>4, Zenon DEF LastCallsOfTurns
<1>14. QED
  BY <1>13 DEF g, m

\* How often a call was made.
Makings(calls, call) == {j \in 1..Len(calls) : calls[j].call = call}

\* What the history and a call after it repeat, the agent repeated.
LEMMA RepeatsAreCalls ==
    ASSUME NEW calls \in Seq(MadeCalls), NEW n \in 0..Len(calls),
           NEW h \in Seq(CallsOfTask), LastCallsOfTurns(calls, h, n),
           NEW k \in (n + 1)..Len(calls)
    PROVE  Cardinality(Repeats(Append(h, calls[k].call), calls[k].call))
             <= Cardinality(Makings(calls, calls[k].call))
<1> DEFINE m == Len(calls)  lh == Len(h)  c == calls[k].call  g == Append(h, c)
<1>1. m \in Nat /\ n \in Nat /\ n <= m /\ lh \in Nat /\ k \in 1..m
  BY LenProperties
<1>2. c \in CallsOfTask
  <2>1. calls[k] \in MadeCalls
    BY <1>1, ElementOfSeq
  <2>2. QED
    BY <2>1 DEF MadeCalls
<1>3. Len(g) = lh + 1 /\ g[lh + 1] = c /\ \A i \in 1..lh : g[i] = h[i]
  BY <1>2, AppendProperties
<1>4. PICK old \in [1..lh -> 1..n] :
        /\ \A i, j \in 1..lh : old[i] = old[j] => i = j
        /\ \A i \in 1..lh : calls[old[i]].call = h[i]
  BY DEF LastCallsOfTurns
<1>5. k > n
  BY <1>1
<1> DEFINE R == Repeats(g, c)  M == Makings(calls, c)
           f == [i \in R |-> IF i \in 1..lh THEN old[i] ELSE k]
<1>6. IsFiniteSet(M)
  <2>1. IsFiniteSet(1..m)
    BY <1>1, FS_Interval
  <2>2. QED
    BY <2>1, FS_Subset DEF Makings
<1> HIDE DEF m, lh, c, g
<1>7. \A i \in R : (i \in 1..lh \/ i = lh + 1) /\ g[i] = c
  BY <1>1, <1>3 DEF Repeats
<1>8. ASSUME NEW i \in R PROVE f[i] \in M
  <2>1. CASE i \in 1..lh
    <3>1. old[i] \in 1..m /\ calls[old[i]].call = c
      BY <2>1, <1>1, <1>3, <1>4, <1>7
    <3>2. QED
      BY <3>1, <2>1 DEF Makings, m
  <2>2. CASE i \notin 1..lh
    BY <2>2, <1>1 DEF Makings, m, c
  <2>3. QED
    BY <2>1, <2>2
<1>9. \A i, j \in R : f[i] = f[j] => i = j
  <2> SUFFICES ASSUME NEW i \in R, NEW j \in R, f[i] = f[j] PROVE i = j
    OBVIOUS
  <2>1. CASE i \in 1..lh /\ j \in 1..lh
    BY <2>1, <1>4
  <2>2. CASE i \in 1..lh /\ j \notin 1..lh
    <3>1. old[i] = k /\ old[i] \in 1..n
      BY <2>2, <1>4
    <3>2. QED
      BY <3>1, <1>1, <1>5
  <2>3. CASE i \notin 1..lh /\ j \in 1..lh
    <3>1. old[j] = k /\ old[j] \in 1..n
      BY <2>3, <1>4
    <3>2. QED
      BY <3>1, <1>1, <1>5
  <2>4. CASE i \notin 1..lh /\ j \notin 1..lh
    BY <2>4, <1>7
  <2>5. QED
    BY <2>1, <2>2, <2>3, <2>4
<1>10. f \in [R -> M]
  BY <1>8
<1> HIDE DEF f, R, M
<1>11. f \in Injection(R, M)
  BY <1>9, <1>10 DEF Injection, IsInjective
<1>12. Cardinality(R) <= Cardinality(M)
  BY <1>6, <1>11, FS_Injection
<1>13. QED
  BY <1>12 DEF R, M, g, c

\* The last call of each turn.
EndsOf(calls) == {k \in 1..Len(calls) : k = Len(calls) \/ calls[k + 1].turn # calls[k].turn}

\* Turns that end in the same call are in the history.
LEMMA TurnEndsInHistory ==
    ASSUME NEW calls \in Seq(MadeCalls), NEW h \in Seq(CallsOfTask),
           LastCallsOfTurns(calls, h, Len(calls)), ~IsLoop(h), NEW k \in EndsOf(calls)
    PROVE  Cardinality({j \in EndsOf(calls) : calls[j].call = calls[k].call}) < LoopThreshold
<1> DEFINE m == Len(calls)  lh == Len(h)  c == calls[k].call
           S == {j \in EndsOf(calls) : calls[j].call = c}  R == Repeats(h, c)
<1>1. m \in Nat /\ lh \in Nat
  BY LenProperties
<1>2. PICK ends \in [1..lh -> 1..m] :
        /\ \A i \in 1..lh : calls[ends[i]].call = h[i]
        /\ \A j \in 1..m : EndsTurn(calls, j, m) => \E i \in 1..lh : ends[i] = j
  BY DEF LastCallsOfTurns
<1> HIDE DEF m, lh
<1>3. \A j \in EndsOf(calls) : j \in 1..m /\ EndsTurn(calls, j, m)
  BY <1>1 DEF EndsOf, EndsTurn, m
<1>4. \A j \in EndsOf(calls) : \E i \in 1..lh : ends[i] = j /\ h[i] = calls[j].call
  BY <1>2, <1>3
<1> DEFINE f == [j \in S |-> CHOOSE i \in 1..lh : ends[i] = j]
<1>5. \A j \in S : f[j] \in 1..lh /\ ends[f[j]] = j
  BY <1>4
<1>6. \A j \in S : h[f[j]] = c
  BY <1>2, <1>5
<1> HIDE DEF c
<1>7. f \in [S -> R]
  BY <1>5, <1>6 DEF Repeats, lh
<1>8. \A i, j \in S : f[i] = f[j] => i = j
  BY <1>5
<1> HIDE DEF f, S, R
<1>9. f \in Injection(S, R)
  BY <1>7, <1>8 DEF Injection, IsInjective
<1>10. IsFiniteSet(R) /\ Cardinality(R) \in Nat
  BY RepeatsFinite DEF R
<1>11. IsFiniteSet(S) /\ Cardinality(S) <= Cardinality(R)
  BY <1>9, <1>10, FS_Injection
<1>12. Cardinality(S) \in Nat
  BY <1>11, FS_CardinalityType
<1>13. Cardinality(R) < LoopThreshold
  <2>1. PICK i \in 1..lh : h[i] = c
    BY <1>4 DEF c
  <2>2. R = {j \in 1..Len(h) : h[j] = h[i]}
    BY <2>1 DEF R, Repeats
  <2>3. ~(Cardinality(R) >= LoopThreshold)
    BY <2>2 DEF IsLoop, lh
  <2>4. QED
    BY <2>3, <1>10 DEF LoopThreshold
<1>14. QED
  BY <1>10, <1>11, <1>12, <1>13 DEF S, c, LoopThreshold

-----------------------------------------------------------------------------
(* The invariant                                                           *)

Undecided == outcome = ""
Running == {"reading", "fallback", "acting"}
InTurn == phase \in Running \cup {"settling"}
Outcomes == {"", "loop_detected", "uncertainty_escalation", "guardrail_block",
             "sandbox_failure", "cost_budget_exhausted"}

Types ==
    /\ turn \in Agents \cup {"none"}
    /\ phase \in {"idle", "over", "settling"} \cup Running
    /\ phase # "idle" => turn \in Agents
    /\ report \in {"none", "pass", "fail"}
    /\ outcome \in Outcomes /\ (phase = "over") = ~Undecided
    /\ todo \in Seq(CallsOfTask) /\ recordings \in Seq(Recordings)
    /\ toolHistory \in [Agents -> Seq(CallsOfTask)]
    /\ errWindows \in [Agents -> Seq(BOOLEAN)]
    /\ acc \in [next : Nat, history : Seq(CallsOfTask), window : Seq(BOOLEAN)]
    /\ made \in [Agents -> Seq(MadeCalls)]
    /\ started \in [Agents -> Nat]

\* The Reviewer has had a turn for each of the Coder's, or is about to; the
\* Coder has kept to its budget, and QA runs once, at the end.
TurnsInOrder ==
    /\ started["coder"] <= MaxAttempts
    /\ started["reviewer"] = IF turn = "coder" THEN started["coder"] - 1 ELSE started["coder"]
    /\ started["qa"] = IF turn = "qa" THEN 1 ELSE 0
    /\ turn = "coder" => started["coder"] > 0

\* The calls of a before the turn under way.
Before(a) == IF a = turn THEN Len(made[a]) - Len(recordings) ELSE Len(made[a])

\* The recordings are the calls of the turn under way, and the last of its agent.
CallsAreRecorded ==
    /\ \A a \in Agents : \A i \in 1..Len(made[a]) : made[a][i].turn \in 1..started[a]
    /\ phase = "idle" => recordings = <<>>
    /\ InTurn =>
        /\ Len(recordings) <= Len(made[turn])
        /\ \A i \in 1..Before(turn) : made[turn][i].turn < started[turn]
        /\ \A i \in 1..Len(recordings) :
            /\ made[turn][Before(turn) + i].turn = started[turn]
            /\ made[turn][Before(turn) + i].call = recordings[i].call
            /\ made[turn][Before(turn) + i].ok = recordings[i].ok

\* The recordings of a that the node has looked at but not merged.
Looked(a) == IF phase = "settling" /\ a = turn THEN acc.next - 1 ELSE 0

FewFailures(w) == 2 * FailedIn(w) <= Len(w)

\* The error windows are the last ten results of their agent, and none of them
\* was ever mostly failures.
WindowsAreRecent ==
    /\ \A a \in Agents : Len(errWindows[a]) <= ErrorWindow
    /\ phase # "over" =>
        /\ \A a \in Agents : errWindows[a] = WindowOf(made[a], Before(a))
        /\ \A a \in Agents : \A n \in 2..(Before(a) + Looked(a)) :
            FewFailures(WindowOf(made[a], n))
    /\ phase = "settling" =>
        /\ acc.next \in 1..(Len(recordings) + 1)
        /\ acc.window = WindowOf(made[turn], Before(turn) + acc.next - 1)

\* The histories are the last calls of the turns of their agent, and no loop.
HistoriesAreTurns ==
    /\ \A a \in Agents : Len(toolHistory[a]) <= started[a]
    /\ phase # "over" =>
        /\ \A a \in Agents : ~IsLoop(toolHistory[a])
        /\ \A a \in Agents : LastCallsOfTurns(made[a], toolHistory[a], Before(a))
    /\ InTurn => Len(toolHistory[turn]) < started[turn]
    /\ phase = "settling" =>
        /\ ~IsLoop(acc.history)
        /\ acc.history = IF acc.next = 1 THEN toolHistory[turn]
                         ELSE Append(toolHistory[turn], recordings[acc.next - 1].call)

TurnInv ==
    /\ Types /\ TurnsInOrder /\ CallsAreRecorded /\ WindowsAreRecent
    /\ HistoriesAreTurns /\ LoopIsRepetition

-----------------------------------------------------------------------------
(* What a step does, without what it is called for.                        *)

\* One call of the agent, recorded.
Recorded ==
    \E c \in MadeCalls :
        /\ c.turn = started[turn]
        /\ recordings' = Append(recordings, [call |-> c.call, ok |-> c.ok])
        /\ made' = [made EXCEPT ![turn] = Append(@, c)]

\* The turn goes on after a call.
CallStep ==
    /\ phase \in Running /\ phase' = phase /\ Recorded
    /\ todo' \in Seq(CallsOfTask) /\ report' \in {"none", "pass", "fail"}
    /\ UNCHANGED <<turn, toolHistory, errWindows, acc, outcome, started>>

\* The turn goes on without a call.
MoveStep ==
    /\ phase \in Running /\ phase' \in Running \cup {"settling"}
    /\ acc' = IF phase' = "settling" THEN Reconstructed ELSE acc
    /\ todo' \in Seq(CallsOfTask) /\ report' \in {"none", "pass", "fail"}
    /\ UNCHANGED <<turn, recordings, toolHistory, errWindows, outcome, made, started>>

\* The task ends in the turn, with a call or without one.
EndStep ==
    /\ phase \in Running /\ phase' = "over"
    /\ outcome' \in {"guardrail_block", "sandbox_failure", "cost_budget_exhausted"}
    /\ Recorded \/ UNCHANGED <<recordings, made>>
    /\ UNCHANGED <<turn, todo, toolHistory, errWindows, acc, report, started>>

\* A recorded call is a call of the task.
LEMMA RecordIsRecorded ==
    ASSUME Types, turn \in Agents, NEW call \in CallsOfTask, NEW result,
           NEW free \in BOOLEAN, Record(call, result, free)
    PROVE  Recorded
<1> DEFINE c == [call |-> call, ok |-> result = "ok", turn |-> started[turn], free |-> free]
<1>1. started[turn] \in Nat
  BY DEF Types
<1>2. c \in MadeCalls
  BY <1>1 DEF MadeCalls
<1>3. /\ c.turn = started[turn] /\ c.call = call /\ c.ok = (result = "ok")
      /\ recordings' = Append(recordings, [call |-> c.call, ok |-> c.ok])
      /\ made' = [made EXCEPT ![turn] = Append(@, c)]
  BY DEF Record
<1> HIDE DEF c
<1>4. QED
  BY <1>2, <1>3 DEF Recorded

\* A call the agent's code makes.
LEMMA CallIsStep ==
    ASSUME Types, Call
    PROVE  CallStep \/ EndStep
<1>1. /\ phase \in Running /\ turn \in Agents /\ todo # <<>>
  BY DEF Call, Types, Running
<1>2. Head(todo) \in CallsOfTask /\ Tail(todo) \in Seq(CallsOfTask)
  <2>1. todo \in Seq(CallsOfTask)
    BY DEF Types
  <2>2. QED
    BY <2>1, <1>1, HeadTailProperties
<1>3. PICK result \in {"ok", "failed", "blocked"} :
        /\ Record(Head(todo), result, FALSE)
        /\ IF turn = "coder" /\ phase = "acting" /\ result # "ok"
           THEN EndTask(IF result = "blocked" THEN "guardrail_block"
                        ELSE "sandbox_failure")
           ELSE /\ todo' = Tail(todo)
                /\ report' = ReportAfter(Head(todo), result)
                /\ UNCHANGED <<turn, phase, toolHistory, errWindows, acc,
                               outcome, started>>
  BY DEF Call
<1>4. Recorded
  BY <1>1, <1>2, <1>3, RecordIsRecorded
<1>5. CASE turn = "coder" /\ phase = "acting" /\ result # "ok"
  <2>1. EndTask(IF result = "blocked" THEN "guardrail_block" ELSE "sandbox_failure")
    BY <1>3, <1>5
  <2>2. QED
    BY <2>1, <1>1, <1>4 DEF EndTask, EndStep
<1>6. CASE ~(turn = "coder" /\ phase = "acting" /\ result # "ok")
  <2>1. /\ todo' = Tail(todo) /\ report' = ReportAfter(Head(todo), result)
        /\ UNCHANGED <<turn, phase, toolHistory, errWindows, acc, outcome, started>>
    BY <1>3, <1>6
  <2>2. report' \in {"none", "pass", "fail"}
    BY <2>1 DEF ReportAfter, Types
  <2>3. QED
    BY <2>1, <2>2, <1>1, <1>2, <1>4 DEF CallStep
<1>7. QED
  BY <1>5, <1>6

\* A call the model makes.
LEMMA ToolCallIsStep ==
    ASSUME Types, ToolCall
    PROVE  CallStep
<1>1. phase \in Running /\ turn \in Agents
  BY DEF ToolCall, Types, Running
<1>2. PICK call \in Tools(turn), result \in {"ok", "failed", "blocked"} :
        Record(call, result, TRUE)
  BY DEF ToolCall
<1>3. call \in CallsOfTask
  BY <1>1, ToolsType
<1>4. Recorded
  BY <1>1, <1>2, <1>3, RecordIsRecorded
<1>5. QED
  BY <1>1, <1>4 DEF ToolCall, CallStep, Types

\* The answer is taken, and the calls it asks for are calls of the task.
LEMMA TakeAnswerIsStep ==
    ASSUME Types, phase \in Running, TakeAnswer
    PROVE  MoveStep
<1>1. turn \in Agents /\ report \in {"none", "pass", "fail"}
  BY DEF Types, Running
<1>2. PICK diff \in DiffLengths, tests \in TestSuites, claim \in {"pass", "fail"} :
        /\ phase' = "acting"
        /\ todo' = CallsAfterModel(turn, diff, tests)
        /\ report' = IF turn = "qa" THEN claim ELSE report
        /\ UNCHANGED <<turn, recordings, toolHistory, errWindows, acc,
                       outcome, made, started>>
  BY DEF TakeAnswer
<1>3. todo' \in Seq(CallsOfTask)
  BY <1>1, <1>2, CallsAfterModelType
<1>4. QED
  BY <1>1, <1>2, <1>3 DEF MoveStep, Running

\* Every step is of one of these kinds, starts a turn or settles a call or a turn.
LEMMA StepKinds ==
    ASSUME Types, Next
    PROVE  \/ \E a \in Agents : StartTurn(a)
           \/ CallStep \/ MoveStep \/ EndStep \/ SettleCall \/ SettleTurn
<1>1. CASE Call
  BY <1>1, CallIsStep
<1>2. CASE ToolCall
  BY <1>2, ToolCallIsStep
<1>3. CASE Ask
  <2>1. phase \in Running
    BY <1>3 DEF Ask, Running
  <2>2. CASE EndTask("sandbox_failure") /\ UNCHANGED <<recordings, made>>
    BY <2>1, <2>2 DEF EndTask, EndStep
  <2>3. CASE TakeAnswer
    BY <2>1, <2>3, TakeAnswerIsStep
  <2>4. CASE phase' = "fallback" /\ UNCHANGED <<turn, todo, recordings, toolHistory,
                 errWindows, acc, outcome, report, made, started>>
    BY <2>1, <2>4 DEF MoveStep, Running, Types
  <2>5. QED
    BY <1>3, <2>2, <2>3, <2>4 DEF Ask
<1>4. CASE FallbackEnds
  <2>1. phase \in Running
    BY <1>4 DEF FallbackEnds, Running
  <2>2. CASE EndTask("sandbox_failure") /\ UNCHANGED <<recordings, made>>
    BY <2>1, <2>2 DEF EndTask, EndStep
  <2>3. CASE TakeAnswer
    BY <2>1, <2>3, TakeAnswerIsStep
  <2>4. QED
    BY <1>4, <2>2, <2>3 DEF FallbackEnds
<1>5. CASE Persist
  <2>1. phase \in Running
    BY <1>5 DEF Persist, Running
  <2>2. ASSUME NEW o \in {"sandbox_failure", "cost_budget_exhausted"},
               EndTask(o), UNCHANGED <<recordings, made>>
        PROVE  EndStep
    BY <2>1, <2>2 DEF EndTask, EndStep
  <2>3. CASE /\ phase' = "settling"
             /\ acc' = Reconstructed
             /\ UNCHANGED <<turn, todo, recordings, toolHistory, errWindows,
                         outcome, report, made, started>>
    BY <2>1, <2>3 DEF MoveStep, Types
  <2>4. QED
    BY <1>5, <2>2, <2>3 DEF Persist
<1>6. QED
  BY <1>1, <1>2, <1>3, <1>4, <1>5 DEF Next

-----------------------------------------------------------------------------
(* What the steps find and leave                                           *)

\* The state of a turn under way.
LEMMA TurnUnderWay ==
    ASSUME TurnInv, InTurn
    PROVE  /\ turn \in Agents /\ phase \notin {"idle", "over"}
           /\ made[turn] \in Seq(MadeCalls) /\ recordings \in Seq(Recordings)
           /\ Len(made[turn]) \in Nat /\ Len(recordings) \in Nat
           /\ Before(turn) = Len(made[turn]) - Len(recordings)
           /\ Before(turn) \in 0..Len(made[turn])
           /\ toolHistory[turn] \in Seq(CallsOfTask) /\ Len(toolHistory[turn]) \in Nat
           /\ errWindows[turn] \in Seq(BOOLEAN)
           /\ started[turn] \in Nat
<1>1. turn \in Agents /\ phase \notin {"idle", "over"}
  BY DEF TurnInv, Types, InTurn, Running, WindowsAreRecent
<1>2. /\ made[turn] \in Seq(MadeCalls) /\ recordings \in Seq(Recordings)
      /\ toolHistory[turn] \in Seq(CallsOfTask) /\ started[turn] \in Nat
      /\ errWindows[turn] \in Seq(BOOLEAN)
  BY <1>1 DEF TurnInv, Types
<1>3. /\ Len(made[turn]) \in Nat /\ Len(recordings) \in Nat /\ Len(toolHistory[turn]) \in Nat
  BY <1>2, LenProperties
<1>4. Before(turn) = Len(made[turn]) - Len(recordings)
  BY DEF Before
<1>5. Len(recordings) <= Len(made[turn])
  BY DEF TurnInv, CallsAreRecorded
<1>6. Before(turn) \in 0..Len(made[turn])
  BY <1>3, <1>4, <1>5
<1>7. QED
  BY <1>1, <1>2, <1>3, <1>4, <1>6

\* A recorded call is the last of its agent's calls and of the recordings.
LEMMA RecordedElements ==
    ASSUME TurnInv, InTurn, Recorded, turn' = turn
    PROVE  \E c \in MadeCalls :
             /\ c.turn = started[turn]
             /\ made' \in [Agents -> Seq(MadeCalls)] /\ recordings' \in Seq(Recordings)
             /\ made'[turn] = Append(made[turn], c)
             /\ \A a \in Agents : a # turn => made'[a] = made[a]
             /\ Len(recordings') = Len(recordings) + 1
             /\ Len(made'[turn]) = Len(made[turn]) + 1
             /\ \A i \in 1..Len(made[turn]) : made'[turn][i] = made[turn][i]
             /\ made'[turn][Len(made[turn]) + 1] = c
             /\ \A i \in 1..Len(recordings) : recordings'[i] = recordings[i]
             /\ recordings'[Len(recordings) + 1] = [call |-> c.call, ok |-> c.ok]
             /\ Before(turn)' = Before(turn)
<1>1. PICK c \in MadeCalls :
        /\ c.turn = started[turn]
        /\ recordings' = Append(recordings, [call |-> c.call, ok |-> c.ok])
        /\ made' = [made EXCEPT ![turn] = Append(@, c)]
  BY DEF Recorded
<1> DEFINE r == [call |-> c.call, ok |-> c.ok]
<1>2. r \in Recordings
  BY DEF MadeCalls, Recordings
<1>3. /\ made \in [Agents -> Seq(MadeCalls)] /\ turn \in Agents
      /\ made[turn] \in Seq(MadeCalls) /\ recordings \in Seq(Recordings)
      /\ Len(made[turn]) \in Nat /\ Len(recordings) \in Nat
  BY TurnUnderWay DEF TurnInv, Types
<1>4. /\ made'[turn] = Append(made[turn], c)
      /\ \A a \in Agents : a # turn => made'[a] = made[a]
      /\ DOMAIN made' = Agents /\ made' = [a \in Agents |-> made'[a]]
  BY <1>1, <1>3
<1>5. /\ made'[turn] \in Seq(MadeCalls) /\ Len(made'[turn]) = Len(made[turn]) + 1
      /\ \A i \in 1..Len(made[turn]) : made'[turn][i] = made[turn][i]
      /\ made'[turn][Len(made[turn]) + 1] = c
  BY <1>3, <1>4, AppendProperties
<1>6. made' \in [Agents -> Seq(MadeCalls)]
  BY <1>3, <1>4, <1>5
<1> HIDE DEF r
<1>7. /\ recordings' \in Seq(Recordings) /\ Len(recordings') = Len(recordings) + 1
      /\ \A i \in 1..Len(recordings) : recordings'[i] = recordings[i]
      /\ recordings'[Len(recordings) + 1] = r
  BY <1>1, <1>2, <1>3, AppendProperties DEF r
<1>8. Before(turn)' = Before(turn)
  <2>1. Before(turn)' = Len(made'[turn]) - Len(recordings')
    BY DEF Before
  <2>2. Before(turn) = Len(made[turn]) - Len(recordings)
    BY DEF Before
  <2>3. QED
    BY ONLY <2>1, <2>2, <1>3, <1>5, <1>7
<1>9. QED
  BY <1>1, <1>4, <1>5, <1>6, <1>7, <1>8 DEF r

\* A settled call of the node is the next call of its agent, with its result.
LEMMA SettledElements ==
    ASSUME TurnInv, phase = "settling", acc.next <= Len(recordings)
    PROVE  LET k == Before(turn) + acc.next
               rec == recordings[acc.next]
           IN  /\ acc.next \in 1..Len(recordings)
               /\ k \in 1..Len(made[turn]) /\ k > Before(turn)
               /\ rec.call \in CallsOfTask /\ rec.ok \in BOOLEAN
               /\ rec.call = made[turn][k].call /\ rec.ok = made[turn][k].ok
               /\ WindowWith(rec.ok) = WindowOf(made[turn], k)
               /\ HistoryWith(rec.call) = Append(toolHistory[turn], rec.call)
<1> DEFINE k == Before(turn) + acc.next  b == Before(turn)  n == acc.next
           rec == recordings[n]  h == toolHistory[turn]  m == made[turn]
<1>1. InTurn
  BY DEF InTurn
<1>2. /\ turn \in Agents /\ m \in Seq(MadeCalls)
      /\ recordings \in Seq(Recordings) /\ Len(m) \in Nat /\ Len(recordings) \in Nat
      /\ b = Len(m) - Len(recordings) /\ b \in 0..Len(m)
      /\ h \in Seq(CallsOfTask) /\ Len(h) \in Nat
  BY <1>1, TurnUnderWay
<1>3. n \in 1..Len(recordings)
  <2>1. n \in 1..(Len(recordings) + 1)
    BY DEF TurnInv, WindowsAreRecent
  <2> HIDE DEF n
  <2>2. n <= Len(recordings)
    BY DEF n
  <2>3. QED
    BY <2>1, <2>2, <1>2
<1>4. rec.call = m[k].call /\ rec.ok = m[k].ok
  BY <1>1, <1>3 DEF TurnInv, CallsAreRecorded
<1>5. rec \in Recordings
  BY <1>2, <1>3, ElementOfSeq
<1>6. rec.call \in CallsOfTask /\ rec.ok \in BOOLEAN
  BY <1>5 DEF Recordings
<1>7. acc.window = WindowOf(m, b + n - 1)
  BY DEF TurnInv, WindowsAreRecent
<1>8. WindowWith(rec.ok) = LastOf(Append(acc.window, rec.ok), ErrorWindow)
  BY <1>2 DEF WindowWith
<1>9. Len(h) < started[turn] /\ started[turn] \in Nat
  BY <1>1, <1>2 DEF TurnInv, HistoriesAreTurns, Types
<1>10. started[turn] <= MaxAttempts
  <2>1. /\ started["coder"] \in Nat /\ started["reviewer"] \in Nat /\ started["qa"] \in Nat
    BY DEF TurnInv, Types, Agents
  <2>2. started["coder"] <= MaxAttempts /\ started["reviewer"] <= started["coder"]
        /\ started["qa"] <= 1
    BY <2>1 DEF TurnInv, TurnsInOrder
  <2>3. QED
    BY <2>1, <2>2, <1>2 DEF Agents, MaxAttempts
<1>11. HistoryWith(rec.call) = Append(h, rec.call)
  <2> DEFINE g == Append(h, rec.call)
  <2>1. g \in Seq(CallsOfTask) /\ Len(g) = Len(h) + 1
    BY <1>2, <1>6, AppendProperties
  <2> HIDE DEF g
  <2>2. ~(Len(g) > LoopWindow)
    BY <2>1, <1>2, <1>9, <1>10 DEF MaxAttempts, LoopWindow
  <2>3. LastOf(g, LoopWindow) = SubSeq(g, 1, Len(g))
    BY <2>2 DEF LastOf
  <2>4. LastOf(g, LoopWindow) = g
    BY <2>1, <2>3, SubSeqFull
  <2>5. QED
    BY <2>4 DEF g, HistoryWith
<1> HIDE DEF b, n, m, rec
<1>12. /\ k \in 1..Len(m) /\ k > b /\ b + n - 1 \in 0..Len(m) /\ b + n - 1 < Len(m)
       /\ k = (b + n - 1) + 1
  BY <1>2, <1>3 DEF b, n
<1>13. WindowWith(rec.ok) = WindowOf(m, k)
  BY <1>2, <1>4, <1>7, <1>8, <1>12, WindowOfNext
<1>14. QED
  BY <1>3, <1>4, <1>6, <1>11, <1>12, <1>13 DEF b, n, m, rec

-----------------------------------------------------------------------------
(* Each part of the invariant is kept                                      *)

\* Types.
LEMMA TypesStep ==
    ASSUME TurnInv, [Next]_vars
    PROVE  Types'
<1> USE DEF Undecided, Outcomes
<1>1. Types
  BY DEF TurnInv
<1>2. ASSUME NEW a \in Agents, StartTurn(a)
      PROVE  Types'
  <2>1. CallsBeforeModel(a) \in Seq(CallsOfTask)
    BY CallsBeforeModelType
  <2>2. started' \in [Agents -> Nat]
    <3>1. /\ started \in [Agents -> Nat] /\ started' = [started EXCEPT ![a] = @ + 1]
      BY <1>1, <1>2 DEF Types, StartTurn
    <3>2. started[a] + 1 \in Nat
      BY <3>1
    <3>3. QED
      BY <3>1, <3>2
  <2>3. QED
    BY <2>1, <2>2, <1>1, <1>2 DEF Types, StartTurn, Running
<1>3. CASE CallStep
  <2>1. InTurn /\ turn' = turn
    BY <1>3 DEF CallStep, InTurn
  <2>2. recordings' \in Seq(Recordings) /\ made' \in [Agents -> Seq(MadeCalls)]
    BY <2>1, <1>3, RecordedElements DEF CallStep
  <2>3. QED
    BY <2>2, <1>1, <1>3 DEF Types, CallStep
<1>4. CASE MoveStep
  <2>1. turn \in Agents
    BY <1>1, <1>4 DEF Types, MoveStep, Running
  <2>2. Reconstructed \in [next : Nat, history : Seq(CallsOfTask), window : Seq(BOOLEAN)]
    BY <2>1, <1>1 DEF Types, Reconstructed
  <2>3. acc' \in [next : Nat, history : Seq(CallsOfTask), window : Seq(BOOLEAN)]
    BY <2>2, <1>1, <1>4 DEF Types, MoveStep
  <2>4. phase # "over" /\ phase' # "over" /\ phase' # "idle"
    BY <1>4 DEF MoveStep, Running
  <2>5. QED
    BY <2>1, <2>3, <2>4, <1>1, <1>4 DEF Types, MoveStep
<1>5. CASE EndStep
  <2>1. recordings' \in Seq(Recordings) /\ made' \in [Agents -> Seq(MadeCalls)]
    <3>1. InTurn /\ turn' = turn
      BY <1>5 DEF EndStep, InTurn
    <3>2. CASE Recorded
      BY <3>1, <3>2, RecordedElements
    <3>3. CASE UNCHANGED <<recordings, made>>
      BY <3>3, <1>1 DEF Types
    <3>4. QED
      BY <3>2, <3>3, <1>5 DEF EndStep
  <2>2. phase # "idle"
    BY <1>5 DEF EndStep, Running
  <2>3. QED
    BY <2>1, <2>2, <1>1, <1>5 DEF Types, EndStep
<1>6. CASE SettleCall
  <2> DEFINE rec == recordings[acc.next]
  <2>1. phase = "settling" /\ acc.next <= Len(recordings)
    BY <1>6 DEF SettleCall
  <2>2. /\ acc.next \in 1..Len(recordings) /\ rec.call \in CallsOfTask /\ rec.ok \in BOOLEAN
        /\ HistoryWith(rec.call) = Append(toolHistory[turn], rec.call)
        /\ WindowWith(rec.ok) = WindowOf(made[turn], Before(turn) + acc.next)
        /\ Before(turn) + acc.next \in 1..Len(made[turn])
    BY <2>1, SettledElements
  <2>3. /\ turn \in Agents /\ toolHistory[turn] \in Seq(CallsOfTask)
        /\ made[turn] \in Seq(MadeCalls) /\ Len(made[turn]) \in Nat
    BY <2>1, TurnUnderWay DEF InTurn
  <2> HIDE DEF rec
  <2>4. HistoryWith(rec.call) \in Seq(CallsOfTask)
    BY <2>2, <2>3, AppendProperties
  <2>5. WindowWith(rec.ok) \in Seq(BOOLEAN)
    <3>1. Before(turn) + acc.next \in 0..Len(made[turn])
      BY <2>2, <2>3
    <3>2. QED
      BY <3>1, <2>2, <2>3, WindowOfType
  <2>6. acc.next + 1 \in Nat
    BY <2>2
  <2>7. /\ \/ /\ outcome' \in {"loop_detected", "uncertainty_escalation"}
              /\ toolHistory' = [toolHistory EXCEPT ![turn] = HistoryWith(rec.call)]
              /\ phase' = "over" /\ recordings' = <<>> /\ acc' = NoAcc
              /\ UNCHANGED errWindows
           \/ /\ acc' = [next |-> acc.next + 1, history |-> HistoryWith(rec.call),
                         window |-> WindowWith(rec.ok)]
              /\ UNCHANGED <<phase, outcome, recordings, toolHistory, errWindows>>
        /\ UNCHANGED <<turn, todo, report, made, started>>
    BY <1>6, <1>1 DEF SettleCall, rec, Types
  <2>8. CASE /\ outcome' \in {"loop_detected", "uncertainty_escalation"}
             /\ toolHistory' = [toolHistory EXCEPT ![turn] = HistoryWith(rec.call)]
             /\ phase' = "over" /\ recordings' = <<>> /\ acc' = NoAcc
             /\ UNCHANGED errWindows
    <3>1. acc' \in [next : Nat, history : Seq(CallsOfTask), window : Seq(BOOLEAN)]
      <4>1. NoAcc \in [next : Nat, history : Seq(CallsOfTask), window : Seq(BOOLEAN)]
        BY EmptySeq DEF NoAcc
      <4>2. QED
        BY <4>1, <2>8
    <3>2. /\ errWindows' \in [Agents -> Seq(BOOLEAN)]
          /\ toolHistory' \in [Agents -> Seq(CallsOfTask)]
      BY <2>4, <2>8, <1>1 DEF Types
    <3>3. recordings' \in Seq(Recordings)
      BY <2>8, EmptySeq
    <3>4. QED
      BY <3>1, <3>2, <3>3, <2>3, <2>7, <2>8, <1>1 DEF Types
  <2>9. CASE /\ acc' = [next |-> acc.next + 1, history |-> HistoryWith(rec.call),
                        window |-> WindowWith(rec.ok)]
             /\ UNCHANGED <<phase, outcome, recordings, toolHistory, errWindows>>
    <3>1. acc' \in [next : Nat, history : Seq(CallsOfTask), window : Seq(BOOLEAN)]
      BY <2>4, <2>5, <2>6, <2>9
    <3>2. QED
      BY <3>1, <2>7, <2>9, <1>1 DEF Types
  <2>10. QED
    BY <2>7, <2>8, <2>9
<1>7. CASE SettleTurn
  <2>1. acc.window \in Seq(BOOLEAN) /\ acc.history \in Seq(CallsOfTask)
    BY <1>1 DEF Types
  <2>2. /\ errWindows' \in [Agents -> Seq(BOOLEAN)]
        /\ toolHistory' \in [Agents -> Seq(CallsOfTask)]
    BY <2>1, <1>1, <1>7 DEF Types, SettleTurn, Settled
  <2>3. NoAcc \in [next : Nat, history : Seq(CallsOfTask), window : Seq(BOOLEAN)]
    BY EmptySeq DEF NoAcc
  <2>4. recordings' \in Seq(Recordings)
    BY <1>7, EmptySeq DEF SettleTurn
  <2>5. QED
    BY <2>2, <2>3, <2>4, <1>1, <1>7 DEF Types, SettleTurn
<1>8. CASE UNCHANGED vars
  BY <1>1, <1>8 DEF Types, vars
<1>9. QED
  BY <1>1, <1>2, <1>3, <1>4, <1>5, <1>6, <1>7, <1>8, StepKinds

\* The order of the turns.
LEMMA TurnsInOrderStep ==
    ASSUME TurnInv, [Next]_vars
    PROVE  TurnsInOrder'
<1>1. Types /\ TurnsInOrder
  BY DEF TurnInv
<1>2. ASSUME NEW a \in Agents, StartTurn(a)
      PROVE  TurnsInOrder'
  <2>1. /\ turn' = a /\ Follows(a) /\ started' = [started EXCEPT ![a] = @ + 1]
        /\ started["coder"] \in Nat /\ started["reviewer"] \in Nat /\ started["qa"] \in Nat
    BY <1>1, <1>2 DEF StartTurn, Types, Agents
  <2>2. started \in [Agents -> Nat]
    BY <1>1 DEF Types
  <2>3. CASE a = "coder"
    <3>1. /\ started'["coder"] = started["coder"] + 1
          /\ started'["reviewer"] = started["reviewer"] /\ started'["qa"] = started["qa"]
      BY <2>1, <2>2, <2>3 DEF Agents
    <3>2. turn # "coder" /\ turn # "qa" /\ started["coder"] < MaxAttempts
      BY <2>1, <2>3 DEF Follows
    <3>3. QED
      BY <3>1, <3>2, <2>1, <2>3, <1>1 DEF TurnsInOrder, MaxAttempts
  <2>4. CASE a = "reviewer"
    <3>1. /\ started'["coder"] = started["coder"]
          /\ started'["reviewer"] = started["reviewer"] + 1 /\ started'["qa"] = started["qa"]
      BY <2>1, <2>2, <2>4 DEF Agents
    <3>2. turn = "coder"
      BY <2>1, <2>4 DEF Follows
    <3>3. QED
      BY <3>1, <3>2, <2>1, <2>4, <1>1 DEF TurnsInOrder
  <2>5. CASE a = "qa"
    <3>1. /\ started'["coder"] = started["coder"]
          /\ started'["reviewer"] = started["reviewer"] /\ started'["qa"] = started["qa"] + 1
      BY <2>1, <2>2, <2>5 DEF Agents
    <3>2. turn = "reviewer"
      BY <2>1, <2>5 DEF Follows
    <3>3. QED
      BY <3>1, <3>2, <2>1, <2>5, <1>1 DEF TurnsInOrder
  <2>6. QED
    BY <2>3, <2>4, <2>5 DEF Agents
<1>3. CASE UNCHANGED <<turn, started>>
  BY <1>1, <1>3 DEF TurnsInOrder
<1>4. QED
  BY <1>1, <1>2, <1>3, StepKinds
     DEF CallStep, MoveStep, EndStep, SettleCall, SettleTurn, vars

\* The recordings and the turns of the calls.
LEMMA CallsAreRecordedStep ==
    ASSUME TurnInv, [Next]_vars
    PROVE  CallsAreRecorded'
<1>1. Types /\ CallsAreRecorded
  BY DEF TurnInv
<1>2. /\ \A a \in Agents : made[a] \in Seq(MadeCalls) /\ Len(made[a]) \in Nat
      /\ \A a \in Agents : started[a] \in Nat
      /\ recordings \in Seq(Recordings) /\ Len(recordings) \in Nat
  BY <1>1, LenProperties DEF Types
<1>3. ASSUME NEW a \in Agents, StartTurn(a)
      PROVE  CallsAreRecorded'
  <2>1. /\ phase = "idle" /\ turn' = a /\ phase' = "reading" /\ recordings' = recordings
        /\ made' = made /\ started \in [Agents -> Nat]
        /\ started' = [started EXCEPT ![a] = @ + 1]
    BY <1>1, <1>3 DEF StartTurn, Types
  <2>2. recordings = <<>>
    BY <2>1, <1>1 DEF CallsAreRecorded
  <2>3. Len(recordings) = 0
    BY <2>2, EmptySeq
  <2>4. started'[a] = started[a] + 1 /\ \A b \in Agents : b # a => started'[b] = started[b]
    BY <2>1
  <2>5. \A b \in Agents : \A i \in 1..Len(made[b]) : made[b][i].turn \in 1..started[b]
    BY <1>1 DEF CallsAreRecorded
  <2>6. \A b \in Agents : \A i \in 1..Len(made[b]) : made[b][i].turn \in 1..started'[b]
    <3> SUFFICES ASSUME NEW b \in Agents, NEW i \in 1..Len(made[b])
                 PROVE  made[b][i].turn \in 1..started'[b]
      OBVIOUS
    <3>1. CASE b = a
      BY <3>1, <2>4, <2>5, <1>2
    <3>2. CASE b # a
      BY <3>2, <2>4, <2>5
    <3>3. QED
      BY <3>1, <3>2
  <2>7. Before(turn)' = Len(made[a])
    <3>1. Before(turn)' = Len(made[a]) - Len(recordings)
      BY <2>1 DEF Before
    <3>2. Len(made[a]) \in Nat
      BY <1>2
    <3>3. QED
      BY <3>1, <3>2, <2>3
  <2>8. \A i \in 1..Len(made[a]) : made[a][i].turn < started'[a]
    <3> SUFFICES ASSUME NEW i \in 1..Len(made[a]) PROVE made[a][i].turn < started'[a]
      OBVIOUS
    <3>1. made[a][i].turn \in 1..started[a] /\ started[a] \in Nat
      BY <2>5, <1>2
    <3>2. QED
      BY <3>1, <2>4
  <2>9. (phase = "idle")' = FALSE
    BY <2>1
  <2>10. QED
    BY <2>1, <2>3, <2>6, <2>7, <2>8, <2>9, <1>2 DEF CallsAreRecorded
<1>4. ASSUME Recorded, InTurn, turn' = turn, started' = started, phase' # "idle"
      PROVE  CallsAreRecorded'
  <2> DEFINE m == Len(made[turn])  n == Len(recordings)  b == Before(turn)
  <2>1. /\ turn \in Agents /\ m \in Nat /\ n \in Nat /\ b = m - n /\ b \in 0..m
        /\ started[turn] \in Nat
    BY <1>4, TurnUnderWay
  <2>2. PICK c \in MadeCalls :
             /\ c.turn = started[turn]
             /\ made'[turn] = Append(made[turn], c)
             /\ \A a \in Agents : a # turn => made'[a] = made[a]
             /\ Len(recordings') = n + 1 /\ Len(made'[turn]) = m + 1
             /\ \A i \in 1..m : made'[turn][i] = made[turn][i]
             /\ made'[turn][m + 1] = c
             /\ \A i \in 1..n : recordings'[i] = recordings[i]
             /\ recordings'[n + 1] = [call |-> c.call, ok |-> c.ok]
             /\ Before(turn)' = b
    BY <1>4, RecordedElements
  <2>3. /\ \A a \in Agents : \A i \in 1..Len(made[a]) : made[a][i].turn \in 1..started[a]
        /\ n <= m
        /\ \A i \in 1..b : made[turn][i].turn < started[turn]
        /\ \A i \in 1..n :
            /\ made[turn][b + i].turn = started[turn]
            /\ made[turn][b + i].call = recordings[i].call
            /\ made[turn][b + i].ok = recordings[i].ok
    BY <1>1, <1>4 DEF CallsAreRecorded
  <2> HIDE DEF m, n, b
  <2>4. started[turn] > 0
    <3>1. Len(toolHistory[turn]) < started[turn]
      BY <1>4 DEF TurnInv, HistoriesAreTurns
    <3>2. Len(toolHistory[turn]) \in Nat
      BY <1>4, TurnUnderWay
    <3>3. QED
      BY <3>1, <3>2, <2>1
  <2>5. \A a \in Agents : \A i \in 1..Len(made'[a]) : made'[a][i].turn \in 1..started[a]
    <3> SUFFICES ASSUME NEW a \in Agents, NEW i \in 1..Len(made'[a])
                 PROVE  made'[a][i].turn \in 1..started[a]
      OBVIOUS
    <3>1. CASE a # turn
      BY <3>1, <2>2, <2>3
    <3>2. CASE a = turn /\ i \in 1..m
      BY <3>2, <2>2, <2>3 DEF m
    <3>3. CASE a = turn /\ i \notin 1..m
      <4>1. i = m + 1
        BY <3>3, <2>1, <2>2
      <4>2. made'[a][i].turn = started[turn]
        BY <4>1, <3>3, <2>2
      <4>3. QED
        BY <4>2, <3>3, <2>1, <2>4
    <3>4. QED
      BY <3>1, <3>2, <3>3
  <2>6. n + 1 <= m + 1
    BY <2>1, <2>3
  <2>7. \A i \in 1..b : made'[turn][i].turn < started[turn]
    <3>1. \A i \in 1..b : i \in 1..m
      BY <2>1
    <3>2. QED
      BY <3>1, <2>2, <2>3
  <2>8. \A i \in 1..(n + 1) :
            /\ made'[turn][b + i].turn = started[turn]
            /\ made'[turn][b + i].call = recordings'[i].call
            /\ made'[turn][b + i].ok = recordings'[i].ok
    <3> SUFFICES ASSUME NEW i \in 1..(n + 1)
                 PROVE  /\ made'[turn][b + i].turn = started[turn]
                        /\ made'[turn][b + i].call = recordings'[i].call
                        /\ made'[turn][b + i].ok = recordings'[i].ok
      OBVIOUS
    <3>1. CASE i \in 1..n
      <4>1. b + i \in 1..m
        BY <3>1, <2>1
      <4>2. QED
        BY <4>1, <3>1, <2>2, <2>3
    <3>2. CASE i \notin 1..n
      <4>1. i = n + 1 /\ b + i = m + 1
        BY <3>2, <2>1
      <4>2. made'[turn][b + i] = c /\ recordings'[i] = [call |-> c.call, ok |-> c.ok]
        BY <4>1, <2>2
      <4>3. QED
        BY <4>2, <2>2
    <3>3. QED
      BY <3>1, <3>2
  <2>9. QED
    BY <1>4, <2>2, <2>5, <2>6, <2>7, <2>8 DEF CallsAreRecorded
<1>5. ASSUME UNCHANGED <<turn, recordings, made, started>>, phase' # "idle",
             InTurn \/ phase' = "over"
      PROVE  CallsAreRecorded'
  <2>1. Before(turn)' = Before(turn)
    BY <1>5 DEF Before
  <2>2. InTurn' => InTurn
    BY <1>5 DEF InTurn, Running
  <2>3. QED
    BY <2>1, <2>2, <1>1, <1>5 DEF CallsAreRecorded
<1>6. CASE CallStep
  BY <1>4, <1>6 DEF CallStep, InTurn, Running
<1>7. CASE MoveStep
  BY <1>5, <1>7 DEF MoveStep, InTurn, Running
<1>8. CASE EndStep
  <2>1. InTurn /\ turn' = turn /\ started' = started /\ phase' = "over"
    BY <1>8 DEF EndStep, InTurn
  <2>2. CASE Recorded
    BY <2>1, <2>2, <1>4
  <2>3. CASE UNCHANGED <<recordings, made>>
    BY <2>1, <2>3, <1>5
  <2>4. QED
    BY <2>2, <2>3, <1>8 DEF EndStep
<1>9. ASSUME UNCHANGED <<made, started>>, phase' \in {"idle", "over"}, recordings' = <<>>
      PROVE  CallsAreRecorded'
  <2>1. ~InTurn'
    BY <1>9 DEF InTurn, Running
  <2>2. QED
    BY <2>1, <1>1, <1>9 DEF CallsAreRecorded
<1>10. CASE SettleCall
  <2>1. /\ phase = "settling" /\ UNCHANGED <<turn, made, started>>
        /\ \/ phase' = "over" /\ recordings' = <<>>
           \/ UNCHANGED <<phase, recordings>>
    BY <1>10 DEF SettleCall
  <2>2. CASE phase' = "over" /\ recordings' = <<>>
    BY <2>1, <2>2, <1>9
  <2>3. CASE UNCHANGED <<phase, recordings>>
    BY <2>1, <2>3, <1>5 DEF InTurn
  <2>4. QED
    BY <2>1, <2>2, <2>3
<1>11. CASE SettleTurn
  BY <1>9, <1>11 DEF SettleTurn
<1>12. CASE UNCHANGED vars
  BY <1>1, <1>12 DEF CallsAreRecorded, Before, InTurn, vars
<1>13. QED
  BY <1>1, <1>3, <1>6, <1>7, <1>8, <1>10, <1>11, <1>12, StepKinds

\* Between two turns nothing is recorded, and no call is of a turn under way.
LEMMA BeforeFacts ==
    ASSUME TurnInv, phase # "over"
    PROVE  /\ \A a \in Agents : made[a] \in Seq(MadeCalls) /\ Len(made[a]) \in Nat
           /\ \A a \in Agents : Before(a) \in 0..Len(made[a])
           /\ phase = "idle" =>
                Len(recordings) = 0 /\ \A a \in Agents : Before(a) = Len(made[a])
<1>1. \A a \in Agents : made[a] \in Seq(MadeCalls) /\ Len(made[a]) \in Nat
  BY LenProperties DEF TurnInv, Types
<1>2. CASE phase = "idle"
  <2>1. recordings = <<>>
    BY <1>2 DEF TurnInv, CallsAreRecorded
  <2>2. Len(recordings) = 0
    BY <2>1, EmptySeq
  <2>3. \A a \in Agents : Before(a) = Len(made[a])
    BY <2>2, <1>1 DEF Before
  <2>4. QED
    BY <2>2, <2>3, <1>1
<1>3. CASE phase # "idle"
  <2>1. InTurn
    BY <1>3 DEF InTurn, TurnInv, Types
  <2>2. Before(turn) \in 0..Len(made[turn])
    BY <2>1, TurnUnderWay
  <2>3. \A a \in Agents : a # turn => Before(a) = Len(made[a])
    BY DEF Before
  <2>4. QED
    BY <2>2, <2>3, <1>1, <1>3
<1>4. QED
  BY <1>2, <1>3

\* A step that keeps the calls made before the turn keeps the windows of them.
LEMMA WindowsKept ==
    ASSUME TurnInv, InTurn, turn' = turn, Recorded \/ UNCHANGED <<recordings, made>>
    PROVE  \A a \in Agents :
             /\ Before(a)' = Before(a)
             /\ \A n \in 0..Before(a) : WindowOf(made'[a], n) = WindowOf(made[a], n)
             /\ \A h : LastCallsOfTurns(made[a], h, Before(a)) =>
                         LastCallsOfTurns(made'[a], h, Before(a))
<1>1. CASE Recorded
  <2>1. PICK c \in MadeCalls :
             /\ made'[turn] = Append(made[turn], c)
             /\ \A a \in Agents : a # turn => made'[a] = made[a]
             /\ Before(turn)' = Before(turn)
    BY <1>1, RecordedElements
  <2>2. SUFFICES ASSUME NEW a \in Agents
                 PROVE  /\ Before(a)' = Before(a)
                        /\ \A n \in 0..Before(a) : WindowOf(made'[a], n) = WindowOf(made[a], n)
                        /\ \A h : LastCallsOfTurns(made[a], h, Before(a)) =>
                                    LastCallsOfTurns(made'[a], h, Before(a))
    OBVIOUS
  <2>3. CASE a # turn
    <3>1. made'[a] = made[a]
      BY <2>1, <2>3
    <3>2. Before(a)' = Before(a)
      BY <3>1, <2>3 DEF Before
    <3>3. QED
      BY <3>1, <3>2
  <2>4. CASE a = turn
    <3>1. made[a] \in Seq(MadeCalls) /\ Before(a) \in 0..Len(made[a]) /\ Len(made[a]) \in Nat
      BY <2>4, TurnUnderWay
    <3>2. Before(a)' = Before(a)
      <4>1. Before(a)' = Before(turn)'
        BY <2>4 DEF Before
      <4>2. QED
        BY <4>1, <2>1, <2>4
    <3>3. made'[a] = Append(made[a], c)
      BY <2>1, <2>4
    <3>4. \A n \in 0..Before(a) : n \in 0..Len(made[a])
      BY <3>1
    <3>5. \A n \in 0..Before(a) : WindowOf(made'[a], n) = WindowOf(made[a], n)
      BY <3>1, <3>3, <3>4, WindowOfKept
    <3>6. \A h : LastCallsOfTurns(made[a], h, Before(a)) =>
                   LastCallsOfTurns(made'[a], h, Before(a))
      BY <3>1, <3>3, LastCallsKept
    <3>7. QED
      BY <3>2, <3>5, <3>6
  <2>5. QED
    BY <2>3, <2>4
<1>2. CASE UNCHANGED <<recordings, made>>
  BY <1>2 DEF Before
<1>3. QED
  BY <1>1, <1>2

\* The error windows.
LEMMA WindowsAreRecentStep ==
    ASSUME TurnInv, [Next]_vars
    PROVE  WindowsAreRecent'
<1>1. Types /\ WindowsAreRecent
  BY DEF TurnInv
<1>2. ASSUME NEW a \in Agents, StartTurn(a)
      PROVE  WindowsAreRecent'
  <2>1. /\ phase = "idle" /\ phase' = "reading" /\ recordings' = recordings /\ made' = made
        /\ UNCHANGED <<errWindows, acc>>
    BY <1>2 DEF StartTurn
  <2>2. /\ \A b \in Agents : Len(made[b]) \in Nat /\ Before(b) = Len(made[b])
        /\ Len(recordings) = 0
    BY <2>1, BeforeFacts
  <2>3. \A b \in Agents : Before(b)' = Before(b)
    <3> SUFFICES ASSUME NEW b \in Agents PROVE Before(b)' = Before(b)
      OBVIOUS
    <3>1. Before(b)' = Len(made[b]) - Len(recordings) \/ Before(b)' = Len(made[b])
      BY <2>1 DEF Before
    <3>2. QED
      BY <3>1, <2>2
  <2>4. \A b \in Agents : Looked(b)' = Looked(b)
    BY <2>1 DEF Looked
  <2>5. QED
    BY <2>1, <2>3, <2>4, <1>1 DEF WindowsAreRecent
<1>3. CASE CallStep
  <2>1. /\ InTurn /\ turn' = turn /\ phase' = phase /\ phase \in Running
        /\ UNCHANGED <<errWindows, acc>>
    BY <1>3 DEF CallStep, InTurn
  <2>2. \A a \in Agents :
             /\ Before(a)' = Before(a)
             /\ \A n \in 0..Before(a) : WindowOf(made'[a], n) = WindowOf(made[a], n)
    BY <2>1, <1>3, WindowsKept DEF CallStep
  <2>3. phase \notin {"settling", "over"}
    BY <2>1 DEF Running
  <2>4. \A a \in Agents : Looked(a) = 0 /\ Looked(a)' = 0
    BY <2>1, <2>3 DEF Looked
  <2>5. \A a \in Agents : Before(a) \in Nat
    BY <2>3, BeforeFacts
  <2>6. \A a \in Agents : errWindows'[a] = WindowOf(made'[a], Before(a)')
    <3>1. \A a \in Agents : Before(a) \in 0..Before(a)
      BY <2>5
    <3>2. QED
      BY <3>1, <2>1, <2>2, <2>3, <1>1 DEF WindowsAreRecent
  <2>7. ASSUME NEW a \in Agents, NEW n \in 2..(Before(a)' + Looked(a)')
        PROVE  FewFailures(WindowOf(made'[a], n))
    <3>1. n \in 2..(Before(a) + Looked(a)) /\ n \in 0..Before(a)
      BY <2>2, <2>4, <2>5
    <3>2. FewFailures(WindowOf(made[a], n))
      BY <3>1, <2>3, <1>1 DEF WindowsAreRecent
    <3>3. QED
      BY <3>1, <3>2, <2>2
  <2>8. QED
    BY <2>1, <2>3, <2>6, <2>7, <1>1 DEF WindowsAreRecent
<1>4. CASE MoveStep
  <2>1. /\ InTurn /\ turn' = turn /\ phase \in Running /\ phase' \in Running \cup {"settling"}
        /\ UNCHANGED <<errWindows, recordings, made>>
        /\ acc' = IF phase' = "settling" THEN Reconstructed ELSE acc
    BY <1>4 DEF MoveStep, InTurn
  <2>2. \A a \in Agents : Before(a)' = Before(a)
    BY <2>1 DEF Before
  <2>3. phase \notin {"settling", "over"} /\ phase' # "over" /\ phase' # "idle"
    BY <2>1 DEF Running
  <2>4. /\ turn \in Agents /\ Before(turn) \in Nat /\ Len(recordings) \in Nat
    BY <2>1, TurnUnderWay
  <2>5. phase' = "settling" => acc'.next = 1 /\ acc'.window = errWindows[turn]
    BY <2>1 DEF Reconstructed
  <2>6. \A a \in Agents : Looked(a) = 0 /\ Looked(a)' = 0
    BY <2>1, <2>3, <2>5 DEF Looked
  <2>7. phase' = "settling" =>
             /\ acc'.next \in 1..(Len(recordings) + 1)
             /\ acc'.window = WindowOf(made[turn], Before(turn) + acc'.next - 1)
    <3> SUFFICES ASSUME phase' = "settling"
                 PROVE  /\ acc'.next \in 1..(Len(recordings) + 1)
                        /\ acc'.window = WindowOf(made[turn], Before(turn) + acc'.next - 1)
      OBVIOUS
    <3>1. acc'.next \in 1..(Len(recordings) + 1) /\ Before(turn) + acc'.next - 1 = Before(turn)
      BY <2>4, <2>5
    <3>2. errWindows[turn] = WindowOf(made[turn], Before(turn))
      BY <2>3, <2>4, <1>1 DEF WindowsAreRecent
    <3>3. QED
      BY <3>1, <3>2, <2>5
  <2>8. \A a \in Agents : errWindows'[a] = WindowOf(made'[a], Before(a)')
    BY <2>1, <2>2, <2>3, <1>1 DEF WindowsAreRecent
  <2>9. \A a \in Agents : \A n \in 2..(Before(a)' + Looked(a)') :
          FewFailures(WindowOf(made'[a], n))
    <3>1. \A a \in Agents : Before(a)' + Looked(a)' = Before(a) + Looked(a)
      BY <2>2, <2>6
    <3>2. QED
      BY <3>1, <2>1, <2>3, <1>1 DEF WindowsAreRecent
  <2>10. \A a \in Agents : Len(errWindows'[a]) <= ErrorWindow
    BY <2>1, <1>1, TurnUnderWay DEF WindowsAreRecent
  <2>11. Before(turn)' = Before(turn)
    BY <2>1 DEF Before
  <2>12. QED
    BY <2>1, <2>7, <2>8, <2>9, <2>10, <2>11 DEF WindowsAreRecent
<1>5. CASE EndStep
  BY <1>5, <1>1 DEF EndStep, WindowsAreRecent
<1>6. CASE SettleCall
  <2> DEFINE rec == recordings[acc.next]  k == Before(turn) + acc.next
             w == WindowWith(rec.ok)
  <2>1. phase = "settling" /\ acc.next <= Len(recordings) /\ InTurn
    BY <1>6 DEF SettleCall, InTurn
  <2>2. /\ acc.next \in 1..Len(recordings) /\ k \in 1..Len(made[turn]) /\ k > Before(turn)
        /\ w = WindowOf(made[turn], k)
    BY <2>1, SettledElements
  <2>3. /\ turn \in Agents /\ made[turn] \in Seq(MadeCalls) /\ Len(made[turn]) \in Nat
        /\ Before(turn) \in 0..Len(made[turn]) /\ Len(recordings) \in Nat
    BY <2>1, TurnUnderWay
  <2>4. /\ w \in Seq(BOOLEAN) /\ FailedIn(w) \in Nat
        /\ Len(w) = IF k > ErrorWindow THEN ErrorWindow ELSE k
    <3>1. k \in 0..Len(made[turn])
      BY <2>2, <2>3
    <3>2. QED
      BY <3>1, <2>2, <2>3, WindowOfType
  <2>5. /\ UNCHANGED <<turn, made>>
        /\ \/ phase' = "over" /\ UNCHANGED errWindows
           \/ /\ ~ErrorRateExceeded(w)
              /\ acc' = [next |-> acc.next + 1, history |-> HistoryWith(rec.call), window |-> w]
              /\ UNCHANGED <<phase, recordings, errWindows>>
    BY <1>6 DEF SettleCall
  <2>6. CASE phase' = "over" /\ UNCHANGED errWindows
    BY <2>6, <1>1 DEF WindowsAreRecent
  <2>7. CASE /\ ~ErrorRateExceeded(w)
             /\ acc' = [next |-> acc.next + 1, history |-> HistoryWith(rec.call), window |-> w]
             /\ UNCHANGED <<phase, recordings, errWindows>>
    <3>1. ~ErrorRateExceeded(w)
      BY <2>7
    <3>2. acc'.next = acc.next + 1 /\ acc'.window = w
      BY <2>7
    <3>3. \A a \in Agents : Before(a)' = Before(a)
      BY <2>5, <2>7 DEF Before
    <3>4. \A a \in Agents : Looked(a)' = IF a = turn THEN acc.next ELSE Looked(a)
      BY <2>1, <2>2, <2>5, <2>7, <3>2 DEF Looked
    <3> HIDE DEF w
    <3>5. k >= 2 => FewFailures(w)
      <4> HIDE DEF k
      <4>1. k >= 2 => Len(w) >= 2
        BY <2>2, <2>3, <2>4 DEF ErrorWindow
      <4>2. Len(w) \in Nat
        BY <2>4, LenProperties
      <4>3. QED
        BY <3>1, <2>4, <4>1, <4>2 DEF ErrorRateExceeded, FewFailures
    <3>6. ASSUME NEW a \in Agents, NEW n \in 2..(Before(a)' + Looked(a)')
          PROVE  FewFailures(WindowOf(made[a], n))
      <4>1. CASE a # turn
        <5>1. n \in 2..(Before(a) + Looked(a))
          BY <4>1, <3>3, <3>4
        <5>2. QED
          BY <5>1, <2>1, <1>1 DEF WindowsAreRecent
      <4>2. CASE a = turn /\ n # k
        <5>1. n \in 2..(Before(turn) + (acc.next - 1))
          BY <4>2, <3>3, <3>4, <2>2, <2>3
        <5>2. Looked(turn) = acc.next - 1
          BY <2>1 DEF Looked
        <5>3. QED
          BY <5>1, <5>2, <4>2, <2>1, <1>1 DEF WindowsAreRecent
      <4>3. CASE a = turn /\ n = k
        <5>1. k >= 2
          BY <4>3
        <5>2. QED
          BY <5>1, <4>3, <3>5, <2>2
      <4>4. QED
        BY <4>1, <4>2, <4>3
    <3>7. /\ acc'.next \in 1..(Len(recordings) + 1)
          /\ acc'.window = WindowOf(made[turn], Before(turn) + acc'.next - 1)
      <4>1. Before(turn) + acc'.next - 1 = k /\ acc'.next \in 1..(Len(recordings) + 1)
        BY <3>2, <2>2, <2>3
      <4>2. QED
        BY <4>1, <3>2, <2>2
    <3>8. \A a \in Agents : errWindows'[a] = WindowOf(made'[a], Before(a)')
      BY <3>3, <2>1, <2>5, <2>7, <1>1 DEF WindowsAreRecent
    <3>9. \A a \in Agents : Len(errWindows'[a]) <= ErrorWindow
      BY <2>7, <1>1 DEF WindowsAreRecent
    <3>10. /\ turn' = turn /\ made' = made /\ phase' = "settling" /\ recordings' = recordings
           /\ Before(turn)' = Before(turn)
      BY <3>3, <2>1, <2>3, <2>5, <2>7
    <3>11. QED
      BY <3>1, <3>6, <3>7, <3>8, <3>9, <3>10 DEF WindowsAreRecent
  <2>8. QED
    BY <2>5, <2>6, <2>7
<1>7. CASE SettleTurn
  <2>1. /\ phase = "settling" /\ acc.next > Len(recordings) /\ InTurn
        /\ Settled(acc.window, acc.history) /\ phase' = "idle" /\ recordings' = <<>>
        /\ UNCHANGED <<turn, made>>
    BY <1>7 DEF SettleTurn, InTurn
  <2>2. /\ turn \in Agents /\ Len(made[turn]) \in Nat /\ Len(recordings) \in Nat
        /\ made[turn] \in Seq(MadeCalls) /\ Before(turn) = Len(made[turn]) - Len(recordings)
    BY <2>1, TurnUnderWay
  <2>3. acc.next = Len(recordings) + 1
    <3>1. acc.next \in 1..(Len(recordings) + 1)
      BY <2>1, <1>1 DEF WindowsAreRecent
    <3>2. QED
      BY <3>1, <2>1, <2>2
  <2>4. /\ Before(turn) + acc.next - 1 = Len(made[turn])
        /\ Before(turn) + (acc.next - 1) = Len(made[turn])
    BY <2>2, <2>3
  <2>5. \A a \in Agents : Before(a)' = Len(made[a]) /\ Looked(a)' = 0
    <3>1. Len(recordings') = 0
      BY <2>1, EmptySeq
    <3>2. \A a \in Agents : Len(made[a]) \in Nat
      BY <2>1, BeforeFacts
    <3>3. QED
      BY <3>1, <3>2, <2>1 DEF Before, Looked
  <2>6. acc.window = WindowOf(made[turn], Len(made[turn]))
    BY <2>1, <2>4, <1>1 DEF WindowsAreRecent
  <2>7. /\ errWindows'[turn] = acc.window
        /\ \A a \in Agents : a # turn => errWindows'[a] = errWindows[a]
    BY <2>1, <2>2, <1>1 DEF Settled, Types
  <2>8. \A a \in Agents : a # turn => Before(a) = Len(made[a])
    BY DEF Before
  <2>9. \A a \in Agents : errWindows'[a] = WindowOf(made[a], Before(a)')
    BY <2>1, <2>5, <2>6, <2>7, <2>8, <1>1 DEF WindowsAreRecent
  <2>10. \A a \in Agents : Len(errWindows'[a]) <= ErrorWindow
    <3>1. Len(made[turn]) \in 0..Len(made[turn])
      BY <2>2
    <3>2. Len(acc.window) = IF Len(made[turn]) > ErrorWindow THEN ErrorWindow ELSE Len(made[turn])
      BY <3>1, <2>2, <2>6, WindowOfType
    <3>3. Len(acc.window) <= ErrorWindow
      BY <3>2, <2>2 DEF ErrorWindow
    <3>4. QED
      BY <3>3, <2>7, <1>1 DEF WindowsAreRecent
  <2>11. ASSUME NEW a \in Agents, NEW n \in 2..(Before(a)' + Looked(a)')
         PROVE  FewFailures(WindowOf(made[a], n))
    <3>1. n \in 2..Len(made[a])
      <4>1. Len(made[a]) \in Nat
        BY <2>1, BeforeFacts
      <4>2. QED
        BY <4>1, <2>5
    <3>2. Before(a) + Looked(a) = Len(made[a])
      <4>1. CASE a = turn
        BY <4>1, <2>1, <2>4 DEF Looked
      <4>2. CASE a # turn
        <5>1. Len(made[a]) \in Nat
          BY <2>1, BeforeFacts
        <5>2. QED
          BY <5>1, <4>2, <2>8 DEF Looked
      <4>3. QED
        BY <4>1, <4>2
    <3>3. QED
      BY <3>1, <3>2, <2>1, <1>1 DEF WindowsAreRecent
  <2>12. QED
    BY <2>1, <2>2, <2>9, <2>10, <2>11 DEF WindowsAreRecent
<1>8. CASE UNCHANGED vars
  BY <1>1, <1>8 DEF WindowsAreRecent, Before, Looked, vars
<1>9. QED
  BY <1>1, <1>2, <1>3, <1>4, <1>5, <1>6, <1>7, <1>8, StepKinds

\* The histories.
LEMMA HistoriesAreTurnsStep ==
    ASSUME TurnInv, [Next]_vars
    PROVE  HistoriesAreTurns'
<1>1. Types /\ HistoriesAreTurns
  BY DEF TurnInv
<1>2. \A a \in Agents : Len(toolHistory[a]) \in Nat /\ started[a] \in Nat
  BY <1>1, LenProperties DEF Types
<1>3. ASSUME NEW a \in Agents, StartTurn(a)
      PROVE  HistoriesAreTurns'
  <2>1. /\ phase = "idle" /\ phase' = "reading" /\ turn' = a /\ recordings' = recordings
        /\ made' = made /\ toolHistory' = toolHistory
        /\ started' = [started EXCEPT ![a] = @ + 1] /\ started \in [Agents -> Nat]
    BY <1>1, <1>3 DEF StartTurn, Types
  <2>2. /\ \A b \in Agents : Len(made[b]) \in Nat /\ Before(b) = Len(made[b])
        /\ Len(recordings) = 0
    BY <2>1, BeforeFacts
  <2>3. \A b \in Agents : Before(b)' = Before(b)
    <3> SUFFICES ASSUME NEW b \in Agents PROVE Before(b)' = Before(b)
      OBVIOUS
    <3>1. Before(b)' = Len(made[b]) - Len(recordings) \/ Before(b)' = Len(made[b])
      BY <2>1 DEF Before
    <3>2. QED
      BY <3>1, <2>2
  <2>4. started'[a] = started[a] + 1 /\ \A b \in Agents : b # a => started'[b] = started[b]
    BY <2>1
  <2>5. \A b \in Agents : Len(toolHistory[b]) <= started[b]
    BY <1>1 DEF HistoriesAreTurns
  <2>6. Len(toolHistory[a]) < started'[a]
    BY <2>4, <2>5, <1>2
  <2>7. \A b \in Agents : Len(toolHistory[b]) <= started'[b]
    <3> SUFFICES ASSUME NEW b \in Agents PROVE Len(toolHistory[b]) <= started'[b]
      OBVIOUS
    <3>1. CASE b = a
      BY <3>1, <2>4, <2>5, <1>2
    <3>2. CASE b # a
      BY <3>2, <2>4, <2>5
    <3>3. QED
      BY <3>1, <3>2
  <2>8. QED
    BY <2>1, <2>3, <2>6, <2>7, <1>1 DEF HistoriesAreTurns
<1>4. CASE CallStep
  <2>1. /\ InTurn /\ turn' = turn /\ phase' = phase /\ phase \in Running
        /\ UNCHANGED <<toolHistory, started, acc>>
    BY <1>4 DEF CallStep, InTurn
  <2>2. \A a \in Agents :
             /\ Before(a)' = Before(a)
             /\ \A h : LastCallsOfTurns(made[a], h, Before(a)) =>
                         LastCallsOfTurns(made'[a], h, Before(a))
    BY <2>1, <1>4, WindowsKept DEF CallStep
  <2>3. phase \notin {"settling", "over"}
    BY <2>1 DEF Running
  <2>4. \A a \in Agents : LastCallsOfTurns(made'[a], toolHistory'[a], Before(a)')
    BY <2>1, <2>2, <2>3, <1>1 DEF HistoriesAreTurns
  <2>5. Len(toolHistory'[turn']) < started'[turn']
    BY <2>1, <1>1 DEF HistoriesAreTurns
  <2>6. QED
    BY <2>1, <2>3, <2>4, <2>5, <1>1 DEF HistoriesAreTurns
<1>5. CASE MoveStep
  <2>1. /\ InTurn /\ turn' = turn /\ phase \in Running
        /\ UNCHANGED <<toolHistory, started, recordings, made>>
        /\ acc' = IF phase' = "settling" THEN Reconstructed ELSE acc
    BY <1>5 DEF MoveStep, InTurn
  <2>2. \A a \in Agents : Before(a)' = Before(a)
    BY <2>1 DEF Before
  <2>3. phase # "over"
    BY <2>1 DEF Running
  <2>4. turn \in Agents
    BY <2>1, TurnUnderWay
  <2>5. phase' = "settling" => acc'.next = 1 /\ acc'.history = toolHistory[turn]
    BY <2>1 DEF Reconstructed
  <2>6. Len(toolHistory'[turn']) < started'[turn']
    BY <2>1, <1>1 DEF HistoriesAreTurns
  <2>7. QED
    BY <2>1, <2>2, <2>3, <2>4, <2>5, <2>6, <1>1 DEF HistoriesAreTurns
<1>6. CASE EndStep
  <2>1. ~InTurn' /\ phase' = "over" /\ UNCHANGED <<toolHistory, started>>
    BY <1>6 DEF EndStep, InTurn, Running
  <2>2. QED
    BY <2>1, <1>1 DEF HistoriesAreTurns
<1>7. CASE SettleCall
  <2> DEFINE rec == recordings[acc.next]  g == HistoryWith(rec.call)
  <2>1. phase = "settling" /\ acc.next <= Len(recordings) /\ InTurn
    BY <1>7 DEF SettleCall, InTurn
  <2>2. /\ acc.next \in 1..Len(recordings) /\ rec.call \in CallsOfTask
        /\ g = Append(toolHistory[turn], rec.call)
    BY <2>1, SettledElements
  <2>3. /\ turn \in Agents /\ toolHistory[turn] \in Seq(CallsOfTask)
        /\ Len(toolHistory[turn]) \in Nat /\ Len(recordings) \in Nat /\ started[turn] \in Nat
    BY <2>1, TurnUnderWay
  <2>4. /\ UNCHANGED <<turn, made, started>>
        /\ \/ /\ toolHistory' = [toolHistory EXCEPT ![turn] = g]
              /\ phase' = "over"
           \/ /\ ~IsLoop(g)
              /\ acc' = [next |-> acc.next + 1, history |-> g, window |-> WindowWith(rec.ok)]
              /\ UNCHANGED <<phase, recordings, toolHistory>>
    BY <1>7 DEF SettleCall, LoopDetected
  <2>5. CASE toolHistory' = [toolHistory EXCEPT ![turn] = g] /\ phase' = "over"
    <3>1. Len(g) = Len(toolHistory[turn]) + 1
      BY <2>2, <2>3, AppendProperties
    <3> HIDE DEF g
    <3>2. Len(g) <= started[turn]
      <4>1. Len(toolHistory[turn]) < started[turn]
        BY <2>1, <1>1 DEF HistoriesAreTurns
      <4>2. QED
        BY <4>1, <3>1, <2>3
    <3>3. \A a \in Agents : \/ a = turn /\ toolHistory'[a] = g
                            \/ toolHistory'[a] = toolHistory[a]
      BY <2>5, <1>1 DEF Types
    <3>4. \A a \in Agents : Len(toolHistory'[a]) <= started'[a]
      BY <3>2, <3>3, <2>4, <1>1 DEF HistoriesAreTurns
    <3>5. ~InTurn'
      BY <2>5 DEF InTurn, Running
    <3>6. QED
      BY <3>4, <3>5, <2>5 DEF HistoriesAreTurns
  <2>6. CASE /\ ~IsLoop(g)
             /\ acc' = [next |-> acc.next + 1, history |-> g, window |-> WindowWith(rec.ok)]
             /\ UNCHANGED <<phase, recordings, toolHistory>>
    <3>1. /\ acc'.next = acc.next + 1 /\ acc'.history = g
      BY <2>6
    <3>2. acc'.next # 1 /\ acc'.next - 1 = acc.next
      BY <3>1, <2>2, <2>3
    <3>3. acc'.history = IF acc'.next = 1 THEN toolHistory[turn]
                         ELSE Append(toolHistory[turn], recordings[acc'.next - 1].call)
      BY <3>1, <3>2, <2>2
    <3>4. \A a \in Agents : Before(a)' = Before(a)
      BY <2>4, <2>6 DEF Before
    <3> HIDE DEF g
    <3>5. ~IsLoop(acc'.history)
      BY <3>1, <2>6
    <3>6. /\ turn' = turn /\ phase' = phase /\ recordings' = recordings
          /\ toolHistory' = toolHistory /\ made' = made /\ started' = started
      BY <2>4, <2>6
    <3>7. Len(toolHistory[turn]) < started[turn]
      BY <2>1, <1>1 DEF HistoriesAreTurns
    <3>8. /\ \A a \in Agents : Len(toolHistory[a]) <= started[a]
          /\ \A a \in Agents : ~IsLoop(toolHistory[a])
          /\ \A a \in Agents : LastCallsOfTurns(made[a], toolHistory[a], Before(a)')
      BY <3>4, <2>1, <1>1 DEF HistoriesAreTurns
    <3>9. QED
      BY <3>3, <3>5, <3>6, <3>7, <3>8 DEF HistoriesAreTurns
  <2>7. QED
    BY <2>4, <2>5, <2>6
<1>8. CASE SettleTurn
  <2> DEFINE m == made[turn]  n == Len(recordings)  b == Before(turn)  h == toolHistory[turn]
  <2>1. /\ phase = "settling" /\ acc.next > n /\ InTurn
        /\ Settled(acc.window, acc.history) /\ phase' = "idle" /\ recordings' = <<>>
        /\ UNCHANGED <<turn, started, made>>
    BY <1>8 DEF SettleTurn, InTurn
  <2>2. /\ turn \in Agents /\ Len(m) \in Nat /\ n \in Nat /\ m \in Seq(MadeCalls)
        /\ b = Len(m) - n /\ b \in 0..Len(m) /\ h \in Seq(CallsOfTask) /\ Len(h) \in Nat
        /\ started[turn] \in Nat
    BY <2>1, TurnUnderWay
  <2>3. acc.next = n + 1
    <3>1. acc.next \in 1..(n + 1)
      BY <2>1 DEF TurnInv, WindowsAreRecent
    <3>2. QED
      BY <3>1, <2>1, <2>2
  <2>4. /\ toolHistory'[turn] = acc.history
        /\ \A a \in Agents : a # turn => toolHistory'[a] = toolHistory[a]
    BY <2>1, <2>2, <1>1 DEF Settled, Types
  <2>5. \A a \in Agents : Before(a)' = Len(made[a])
    <3>1. Len(recordings') = 0
      BY <2>1, EmptySeq
    <3>2. \A a \in Agents : Len(made[a]) \in Nat
      BY <2>1, BeforeFacts
    <3>3. QED
      BY <3>1, <3>2, <2>1 DEF Before
  <2>6. /\ ~IsLoop(acc.history)
        /\ acc.history = IF acc.next = 1 THEN h ELSE Append(h, recordings[acc.next - 1].call)
        /\ Len(h) < started[turn] /\ LastCallsOfTurns(m, h, b)
    BY <2>1, <2>2, <1>1 DEF HistoriesAreTurns
  <2>7. LastCallsOfTurns(m, acc.history, Len(m)) /\ Len(acc.history) <= started[turn]
    <3>1. CASE n = 0
      <4>1. acc.next = 1 /\ b = Len(m)
        <5> HIDE DEF m, b, n
        <5>1. QED
          BY <3>1, <2>2, <2>3
      <4>2. acc.history = h
        BY <4>1, <2>6
      <4> HIDE DEF m, b, n, h
      <4>3. QED
        BY <4>1, <4>2, <2>2, <2>6
    <3>2. CASE n # 0
      <4>1. acc.next # 1 /\ acc.next - 1 = n /\ b < Len(m) /\ b + n = Len(m) /\ n \in 1..n
        <5> HIDE DEF m, b, n
        <5>1. QED
          BY <3>2, <2>2, <2>3
      <4>2. acc.history = Append(h, recordings[n].call)
        BY <4>1, <2>6
      <4>3. /\ \A i \in 1..b : m[i].turn < started[turn]
            /\ \A i \in 1..n : m[b + i].turn = started[turn] /\ m[b + i].call = recordings[i].call
        BY <2>1 DEF TurnInv, CallsAreRecorded
      <4>4. m[Len(m)].turn = started[turn] /\ m[Len(m)].call = recordings[n].call
        BY <4>1, <4>3
      <4>5. recordings[n].call \in CallsOfTask
        <5>1. recordings[n] \in Recordings
          BY <4>1, <1>1, ElementOfSeq DEF Types
        <5>2. QED
          BY <5>1 DEF Recordings
      <4>6. Len(acc.history) = Len(h) + 1
        BY <4>2, <4>5, <2>2, AppendProperties
      <4> HIDE DEF m, b, n, h
      <4>7. \A k \in 1..b : m[k].turn # m[Len(m)].turn
        <5> SUFFICES ASSUME NEW k \in 1..b PROVE m[k].turn # m[Len(m)].turn
          OBVIOUS
        <5>1. m[k].turn < started[turn]
          BY <4>3
        <5>2. k \in 1..Len(m)
          BY <2>2
        <5>3. m[k] \in MadeCalls
          BY <5>2, <2>2, ElementOfSeq
        <5>4. m[k].turn \in Nat
          BY <5>3 DEF MadeCalls
        <5>5. QED
          BY <5>1, <5>4, <4>4, <2>2
      <4>8. \A k \in (b + 1)..Len(m) : m[k].turn = m[Len(m)].turn
        <5> SUFFICES ASSUME NEW k \in (b + 1)..Len(m) PROVE m[k].turn = m[Len(m)].turn
          OBVIOUS
        <5>1. k - b \in 1..n /\ b + (k - b) = k
          BY <2>2
        <5>2. QED
          BY <5>1, <4>3, <4>4
      <4>9. LastCallsOfTurns(m, Append(h, m[Len(m)].call), Len(m))
        BY <4>1, <4>7, <4>8, <2>2, <2>6, LastCallsOfNextTurn
      <4>10. Len(acc.history) <= started[turn]
        BY <4>6, <2>2, <2>6
      <4>11. QED
        BY <4>2, <4>4, <4>9, <4>10
    <3>3. QED
      BY <3>1, <3>2
  <2>8. \A a \in Agents : a # turn => Before(a) = Len(made[a])
    BY DEF Before
  <2>9. \A a \in Agents : LastCallsOfTurns(made[a], toolHistory'[a], Before(a)')
    BY <2>1, <2>4, <2>5, <2>7, <2>8, <1>1 DEF HistoriesAreTurns
  <2>10. \A a \in Agents : Len(toolHistory'[a]) <= started[a] /\ ~IsLoop(toolHistory'[a])
    BY <2>1, <2>4, <2>6, <2>7, <1>1 DEF HistoriesAreTurns
  <2>11. ~InTurn'
    BY <2>1 DEF InTurn, Running
  <2>12. QED
    BY <2>1, <2>9, <2>10, <2>11 DEF HistoriesAreTurns
<1>9. CASE UNCHANGED vars
  BY <1>1, <1>9 DEF HistoriesAreTurns, Before, InTurn, vars
<1>10. QED
  BY <1>1, <1>3, <1>4, <1>5, <1>6, <1>7, <1>8, <1>9, StepKinds

\* A loop is reported by the call that closes it.
LEMMA LoopIsRepetitionStep ==
    ASSUME TurnInv, [Next]_vars
    PROVE  LoopIsRepetition'
<1>1. Types /\ LoopIsRepetition
  BY DEF TurnInv
<1>2. phase # "over" => outcome = ""
  BY <1>1 DEF Types, Undecided
<1>3. CASE SettleCall
  <2> DEFINE rec == recordings[acc.next]  k == Before(turn) + acc.next  c == rec.call
             m == made[turn]  h == toolHistory[turn]  g == Append(h, c)
  <2>1. phase = "settling" /\ acc.next <= Len(recordings) /\ InTurn
    BY <1>3 DEF SettleCall, InTurn
  <2>2. /\ k \in 1..Len(m) /\ k > Before(turn) /\ c \in CallsOfTask /\ c = m[k].call
        /\ HistoryWith(c) = g
    BY <2>1, SettledElements
  <2>3. /\ turn \in Agents /\ h \in Seq(CallsOfTask) /\ Len(h) \in Nat
        /\ m \in Seq(MadeCalls) /\ Len(m) \in Nat /\ Before(turn) \in 0..Len(m)
    BY <2>1, TurnUnderWay
  <2>4. CASE IsLoop(g)
    <3>1. ~IsLoop(h) /\ LastCallsOfTurns(m, h, Before(turn))
      BY <2>1, <2>3 DEF TurnInv, HistoriesAreTurns
    <3>2. Cardinality(Repeats(g, c)) >= LoopThreshold
      BY <3>1, <2>2, <2>3, <2>4, LoopIsOfLastCall
    <3>3. k \in (Before(turn) + 1)..Len(m)
      <4> HIDE DEF k, m
      <4>1. QED
        BY <2>2, <2>3
    <3>4. Cardinality(Repeats(g, c)) <= Cardinality(Makings(m, c))
      <4> HIDE DEF k, m, h
      <4>1. Cardinality(Repeats(Append(h, m[k].call), m[k].call))
              <= Cardinality(Makings(m, m[k].call))
        BY <3>1, <3>3, <2>3, RepeatsAreCalls
      <4>2. QED
        BY <4>1, <2>2
    <3>5. Cardinality(Makings(m, c)) \in Nat /\ Cardinality(Repeats(g, c)) \in Nat
      <4>1. IsFiniteSet(1..Len(m))
        BY <2>3, FS_Interval
      <4>2. IsFiniteSet(Makings(m, c))
        BY <4>1, FS_Subset DEF Makings
      <4>3. g \in Seq(CallsOfTask)
        BY <2>2, <2>3, AppendProperties
      <4>4. QED
        BY <4>2, <4>3, FS_CardinalityType, RepeatsFinite
    <3>6. Cardinality(Makings(m, c)) >= LoopThreshold
      <4> HIDE DEF m, c, g
      <4>1. QED
        BY <3>2, <3>4, <3>5 DEF LoopThreshold
    <3>7. toolHistory'[turn] = g /\ UNCHANGED <<turn, made>>
      BY <2>2, <2>3, <2>4, <1>1, <1>3 DEF SettleCall, LoopDetected, Types
    <3>8. g[Len(g)] = c
      BY <2>2, <2>3, AppendProperties
    <3> HIDE DEF g
    <3>9. toolHistory'[turn'][Len(toolHistory'[turn'])] = c
      BY <3>7, <3>8
    <3>10. QED
      BY <3>6, <3>7, <3>9 DEF LoopIsRepetition, Makings
  <2>5. CASE ~IsLoop(g)
    <3>1. outcome' # "loop_detected"
      BY <2>1, <2>2, <2>5, <1>2, <1>3 DEF SettleCall, LoopDetected
    <3>2. QED
      BY <3>1 DEF LoopIsRepetition
  <2>6. QED
    BY <2>4, <2>5
<1>4. CASE EndStep
  BY <1>4 DEF EndStep, LoopIsRepetition
<1>5. ASSUME phase # "over", outcome' = outcome
      PROVE  LoopIsRepetition'
  BY <1>2, <1>5 DEF LoopIsRepetition
<1>6. CASE UNCHANGED vars
  BY <1>1, <1>6 DEF LoopIsRepetition, vars
<1>7. QED
  BY <1>1, <1>3, <1>4, <1>5, <1>6, StepKinds
     DEF StartTurn, CallStep, MoveStep, SettleTurn, Running

-----------------------------------------------------------------------------
(* The theorems                                                            *)

\* Before the first turn nothing was called.
LEMMA TurnInvInit == Init => TurnInv
<1> SUFFICES ASSUME Init PROVE TurnInv
  OBVIOUS
<1>1. /\ turn = "none" /\ phase = "idle" /\ todo = <<>> /\ recordings = <<>>
      /\ toolHistory = [a \in Agents |-> <<>>] /\ errWindows = [a \in Agents |-> <<>>]
      /\ made = [a \in Agents |-> <<>>] /\ started = [a \in Agents |-> 0]
      /\ acc = NoAcc /\ outcome = "" /\ report = "none"
  BY DEF Init
<1>2. ~InTurn
  BY <1>1 DEF InTurn, Running
<1>3. /\ <<>> \in Seq(CallsOfTask) /\ <<>> \in Seq(Recordings) /\ <<>> \in Seq(BOOLEAN)
      /\ <<>> \in Seq(MadeCalls) /\ Len(<<>>) = 0
  BY EmptySeq
<1>4. Types
  <2>1. acc \in [next : Nat, history : Seq(CallsOfTask), window : Seq(BOOLEAN)]
    BY <1>1, <1>3 DEF NoAcc
  <2>2. /\ toolHistory \in [Agents -> Seq(CallsOfTask)] /\ errWindows \in [Agents -> Seq(BOOLEAN)]
        /\ made \in [Agents -> Seq(MadeCalls)] /\ started \in [Agents -> Nat]
        /\ todo \in Seq(CallsOfTask) /\ recordings \in Seq(Recordings)
    BY <1>1, <1>3
  <2>3. QED
    BY <2>1, <2>2, <1>1 DEF Types, Undecided, Outcomes
<1>5. /\ \A a \in Agents : started[a] = 0
      /\ turn = "none" /\ phase = "idle"
  BY <1>1
<1>6. TurnsInOrder
  <2>1. started["coder"] = 0 /\ started["reviewer"] = 0 /\ started["qa"] = 0
    BY <1>5 DEF Agents
  <2>2. turn = "none"
    BY <1>5
  <2>3. QED
    BY <2>1, <2>2 DEF TurnsInOrder, MaxAttempts
<1>7. \A a \in Agents : Len(made[a]) = 0 /\ Before(a) = 0 /\ toolHistory[a] = <<>>
                        /\ errWindows[a] = <<>>
  BY <1>1, <1>3 DEF Before, Agents
<1>8. \A a \in Agents : Len(made[a]) = 0 /\ Before(a) = 0 /\ Len(toolHistory[a]) = 0
  BY <1>3, <1>7
<1>9. CallsAreRecorded
  <2>1. \A a \in Agents : \A i \in 1..Len(made[a]) : made[a][i].turn \in 1..started[a]
    BY <1>8
  <2>2. QED
    BY <2>1, <1>1, <1>2 DEF CallsAreRecorded
<1>10. WindowsAreRecent
  <2>1. \A a \in Agents : WindowOf(made[a], 0) = <<>>
    <3> SUFFICES ASSUME NEW a \in Agents PROVE WindowOf(made[a], 0) = <<>>
      OBVIOUS
    <3>1. made[a] \in Seq(MadeCalls) /\ 0 \in 0..Len(made[a])
      BY <1>4, <1>8 DEF Types
    <3>2. WindowOf(made[a], 0) \in Seq(BOOLEAN)
          /\ Len(WindowOf(made[a], 0)) = IF 0 > ErrorWindow THEN ErrorWindow ELSE 0
      BY <3>1, WindowOfType
    <3>3. Len(WindowOf(made[a], 0)) = 0
      BY <3>2 DEF ErrorWindow
    <3>4. QED
      BY <3>2, <3>3, EmptySeq
  <2>2. \A a \in Agents : Looked(a) = 0
    BY <1>1 DEF Looked
  <2>3. \A a \in Agents : \A n \in 2..(Before(a) + Looked(a)) :
            FewFailures(WindowOf(made[a], n))
    BY <2>2, <1>7
  <2>4. \A a \in Agents : Len(errWindows[a]) <= ErrorWindow
    BY <1>3, <1>7 DEF ErrorWindow
  <2>5. \A a \in Agents : errWindows[a] = WindowOf(made[a], Before(a))
    BY <2>1, <1>7
  <2>6. QED
    BY <2>3, <2>4, <2>5, <1>1 DEF WindowsAreRecent
<1>11. HistoriesAreTurns
  <2>1. \A a \in Agents : ~IsLoop(toolHistory[a])
    BY <1>8 DEF IsLoop
  <2>2. \A a \in Agents : LastCallsOfTurns(made[a], toolHistory[a], Before(a))
    <3> SUFFICES ASSUME NEW a \in Agents
                 PROVE  LastCallsOfTurns(made[a], toolHistory[a], Before(a))
      OBVIOUS
    <3> DEFINE ends == [i \in 1..0 |-> i]
    <3>1. Len(toolHistory[a]) = 0 /\ Before(a) = 0
      BY <1>3, <1>7
    <3>2. ends \in [1..0 -> 1..0]
      OBVIOUS
    <3>3. /\ \A i, j \in 1..0 : ends[i] = ends[j] => i = j
          /\ \A i \in 1..0 : made[a][ends[i]].call = toolHistory[a][i]
          /\ \A k \in 1..0 : EndsTurn(made[a], k, 0) => \E i \in 1..0 : ends[i] = k
      OBVIOUS
    <3>4. QED
      BY <3>1, <3>2, <3>3 DEF LastCallsOfTurns
  <2>3. \A a \in Agents : Len(toolHistory[a]) <= started[a]
    BY <1>5, <1>8
  <2>4. QED
    BY <2>1, <2>2, <2>3, <1>1, <1>2 DEF HistoriesAreTurns
<1>12. LoopIsRepetition
  BY <1>1 DEF LoopIsRepetition
<1>13. QED
  BY <1>4, <1>6, <1>9, <1>10, <1>11, <1>12 DEF TurnInv

\* The invariant is inductive.
LEMMA TurnInvHolds == Spec => []TurnInv
<1>1. TurnInv /\ [Next]_vars => TurnInv'
  BY TypesStep, TurnsInOrderStep, CallsAreRecordedStep, WindowsAreRecentStep,
     HistoriesAreTurnsStep, LoopIsRepetitionStep DEF TurnInv
<1>2. QED
  BY TurnInvInit, <1>1, PTL DEF Spec

\* The state of the turns is of its type; the windows and the histories keep
\* their bounds and the Coder its budget, whatever the tools return.
THEOREM TurnsAreTyped == Spec => []TurnTypeOK
<1>1. ASSUME TurnInv PROVE TurnTypeOK
  <2>1. Types
    BY <1>1 DEF TurnInv
  <2>2. /\ turn \in Agents \cup {"none"}
        /\ phase \in {"idle", "reading", "fallback", "acting", "settling", "over"}
        /\ report \in {"none", "pass", "fail"}
        /\ outcome \in {"", "loop_detected", "uncertainty_escalation", "guardrail_block",
                        "sandbox_failure", "cost_budget_exhausted"}
        /\ (phase = "over") = (outcome # "")
    BY <2>1 DEF Types, Running, Undecided, Outcomes
  <2>3. \A a \in Agents : started[a] \in 0..MaxAttempts
    <3>1. /\ started["coder"] \in Nat /\ started["reviewer"] \in Nat /\ started["qa"] \in Nat
      BY <2>1 DEF Types, Agents
    <3>2. started["coder"] <= MaxAttempts /\ started["reviewer"] <= started["coder"]
          /\ started["qa"] <= 1
      BY <3>1, <1>1 DEF TurnInv, TurnsInOrder
    <3>3. QED
      BY <3>1, <3>2 DEF Agents, MaxAttempts
  <2>4. \A a \in Agents : Len(toolHistory[a]) <= LoopWindow
    <3> SUFFICES ASSUME NEW a \in Agents PROVE Len(toolHistory[a]) <= LoopWindow
      OBVIOUS
    <3>1. Len(toolHistory[a]) \in Nat
      BY <2>1, LenProperties DEF Types
    <3>2. Len(toolHistory[a]) <= started[a] /\ started[a] \in 0..MaxAttempts
      BY <2>3, <1>1 DEF TurnInv, HistoriesAreTurns
    <3>3. QED
      BY <3>1, <3>2 DEF MaxAttempts, LoopWindow
  <2>5. \A a \in Agents : Len(errWindows[a]) <= ErrorWindow
    BY <1>1 DEF TurnInv, WindowsAreRecent
  <2>6. QED
    BY <2>2, <2>3, <2>4, <2>5, Zenon DEF TurnTypeOK
<1>2. QED
  BY <1>1, TurnInvHolds, PTL

\* What a node settles is what its own agent called in this turn, in order, and
\* nothing is recorded between two turns.
THEOREM RecordingsAreOwnCalls == Spec => []OwnCallsOnly
<1>1. ASSUME TurnInv PROVE OwnCallsOnly
  <2>1. phase = "idle" => recordings = <<>>
    BY <1>1 DEF TurnInv, CallsAreRecorded
  <2>2. ASSUME phase = "settling"
        PROVE  recordings = [i \in 1..Cardinality(CallsOfTurn) |->
                  LET m == made[turn][Len(made[turn]) - Cardinality(CallsOfTurn) + i]
                  IN [call |-> m.call, ok |-> m.ok]]
    <3> DEFINE m == made[turn]  n == Len(recordings)  b == Before(turn)
    <3>1. InTurn
      BY <2>2 DEF InTurn
    <3>2. /\ turn \in Agents /\ m \in Seq(MadeCalls) /\ recordings \in Seq(Recordings)
          /\ Len(m) \in Nat /\ n \in Nat /\ b = Len(m) - n /\ b \in 0..Len(m)
          /\ started[turn] \in Nat
      BY <1>1, <3>1, TurnUnderWay
    <3>3. /\ \A i \in 1..b : m[i].turn < started[turn]
          /\ \A i \in 1..n : /\ m[b + i].turn = started[turn]
                             /\ m[b + i].call = recordings[i].call
                             /\ m[b + i].ok = recordings[i].ok
      BY <1>1, <3>1 DEF TurnInv, CallsAreRecorded
    <3> DEFINE C == {i \in 1..Len(m) : m[i].turn = started[turn]}
    <3> HIDE DEF m, n, b
    <3>4. \A i \in 1..Len(m) : i \in 1..b \/ (i - b \in 1..n /\ b + (i - b) = i)
      BY <3>2
    <3>5. \A i \in (b + 1)..Len(m) : i \in 1..Len(m) /\ i - b \in 1..n /\ b + (i - b) = i
      BY <3>2
    <3>6. \A i \in 1..Len(m) : i \notin 1..b => i \in (b + 1)..Len(m)
      BY <3>2
    <3>7. \A i \in 1..b : m[i].turn # started[turn]
      <4> SUFFICES ASSUME NEW i \in 1..b PROVE m[i].turn # started[turn]
        OBVIOUS
      <4>1. i \in 1..Len(m)
        BY <3>2
      <4>2. m[i] \in MadeCalls
        BY <4>1, <3>2, ElementOfSeq
      <4>3. m[i].turn \in Nat
        BY <4>2 DEF MadeCalls
      <4>4. QED
        BY <4>3, <3>2, <3>3
    <3>8. C = (b + 1)..Len(m)
      <4>1. ASSUME NEW i \in C PROVE i \in (b + 1)..Len(m)
        BY <3>6, <3>7
      <4>2. ASSUME NEW i \in (b + 1)..Len(m) PROVE i \in C
        BY <3>3, <3>5
      <4> HIDE DEF C
      <4>3. QED
        BY <4>1, <4>2
    <3>9. Cardinality((b + 1)..Len(m)) = n
      <4>1. b + 1 \in Int /\ Len(m) \in Int
        BY <3>2
      <4>2. Cardinality((b + 1)..Len(m)) = IF b + 1 > Len(m) THEN 0 ELSE Len(m) - (b + 1) + 1
        BY <4>1, FS_Interval
      <4>3. QED
        BY <4>2, <3>2
    <3>10. Cardinality(CallsOfTurn) = n
      BY <3>8, <3>9 DEF CallsOfTurn, m
    <3>11. Len(m) - n = b
      BY <3>2
    <3>12. \A i \in 1..n : recordings[i] = [call |-> m[b + i].call, ok |-> m[b + i].ok]
      <4> SUFFICES ASSUME NEW i \in 1..n
                   PROVE  recordings[i] = [call |-> m[b + i].call, ok |-> m[b + i].ok]
        OBVIOUS
      <4>1. recordings[i] \in Recordings
        BY <3>2, ElementOfSeq DEF n
      <4>2. recordings[i] = [call |-> recordings[i].call, ok |-> recordings[i].ok]
        BY <4>1 DEF Recordings
      <4>3. QED
        BY <4>2, <3>3
    <3>13. recordings = [i \in 1..n |-> recordings[i]]
      BY <3>2, LenProperties DEF n
    <3>14. recordings = [i \in 1..n |-> [call |-> m[b + i].call, ok |-> m[b + i].ok]]
      BY <3>12, <3>13
    <3>15. QED
      BY <3>10, <3>11, <3>14 DEF m
  <2>3. QED
    BY <2>1, <2>2 DEF OwnCallsOnly
<1>2. QED
  BY <1>1, TurnInvHolds, PTL

\* Between two turns the results of all the calls are in the window.
LEMMA WindowBetweenTurns ==
    ASSUME TurnInv, phase = "idle", NEW a \in Agents
    PROVE  /\ made[a] \in Seq(MadeCalls) /\ Len(made[a]) \in Nat /\ Before(a) = Len(made[a])
           /\ Looked(a) = 0 /\ ResultsOf(a) = ResultsIn(made[a])
<1>1. made[a] \in Seq(MadeCalls) /\ Len(made[a]) \in Nat /\ Before(a) = Len(made[a])
  BY BeforeFacts
<1>2. QED
  BY <1>1 DEF Looked, ResultsOf, ResultsIn

\* Between turns the error window of each agent is its last ten results, however
\* many turns it took to make them.
THEOREM WindowsAreTheLastResults == Spec => []ErrorWindowIsRecent
<1>1. ASSUME TurnInv PROVE ErrorWindowIsRecent
  <2> SUFFICES ASSUME phase = "idle", NEW a \in Agents
               PROVE  errWindows[a] = LastOf(ResultsOf(a), ErrorWindow)
    BY DEF ErrorWindowIsRecent
  <2>1. made[a] \in Seq(MadeCalls) /\ Before(a) = Len(made[a]) /\ ResultsOf(a) = ResultsIn(made[a])
    BY <1>1, WindowBetweenTurns
  <2>2. errWindows[a] = WindowOf(made[a], Before(a))
    BY <1>1 DEF TurnInv, WindowsAreRecent
  <2>3. QED
    BY <2>1, <2>2, WindowOfAll
<1>2. QED
  BY <1>1, TurnInvHolds, PTL

\* An agent that goes on to another turn never had more failures than successes
\* among its last ten calls.
THEOREM FailingAgentsStop == Spec => []FailingAgentStops
<1>1. ASSUME TurnInv PROVE FailingAgentStops
  <2> SUFFICES ASSUME phase = "idle", NEW a \in Agents, NEW n \in 2..Len(made[a])
               PROVE  FewFailures(LastOf(SubSeq(ResultsOf(a), 1, n), ErrorWindow))
    BY DEF FailingAgentStops, FewFailures
  <2>1. /\ Len(made[a]) \in Nat /\ Before(a) = Len(made[a]) /\ Looked(a) = 0
        /\ ResultsOf(a) = ResultsIn(made[a])
    BY <1>1, WindowBetweenTurns
  <2>2. n \in 2..(Before(a) + Looked(a))
    BY <2>1
  <2>3. FewFailures(WindowOf(made[a], n))
    BY <2>2, <1>1 DEF TurnInv, WindowsAreRecent
  <2>4. QED
    BY <2>1, <2>3 DEF WindowOf
<1>2. QED
  BY <1>1, TurnInvHolds, PTL

\* No agent completes a third turn that ends in the same call.
THEOREM StuckAgentsStop == Spec => []StuckAgentStops
<1>1. ASSUME TurnInv PROVE StuckAgentStops
  <2> SUFFICES ASSUME phase = "idle", NEW a \in Agents, NEW i \in TurnEnds(a)
               PROVE  Cardinality({j \in TurnEnds(a) : made[a][j].call = made[a][i].call})
                        < LoopThreshold
    BY DEF StuckAgentStops
  <2>1. made[a] \in Seq(MadeCalls) /\ Before(a) = Len(made[a])
    BY <1>1, WindowBetweenTurns
  <2>2. /\ ~IsLoop(toolHistory[a]) /\ toolHistory[a] \in Seq(CallsOfTask)
        /\ LastCallsOfTurns(made[a], toolHistory[a], Len(made[a]))
    BY <2>1, <1>1 DEF TurnInv, HistoriesAreTurns, Types
  <2>3. TurnEnds(a) = EndsOf(made[a])
    BY DEF TurnEnds, EndsOf
  <2>4. QED
    BY <2>1, <2>2, <2>3, TurnEndsInHistory
<1>2. QED
  BY <1>1, TurnInvHolds, PTL

\* A task that ends as a loop ends after three makings of the call reported.
THEOREM LoopsAreRepetitions == Spec => []LoopIsRepetition
BY TurnInvHolds, PTL DEF TurnInv

=============================================================================
