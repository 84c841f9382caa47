-------------------------- MODULE MonitorDir_proofs --------------------------
(***************************************************************************)
(* Proofs about MonitorDir, for any paths, contents and archives (nested and *)
(* broken ones too) and any number of files dropped.                         *)
(***************************************************************************)
EXTENDS MonitorDir, WellFoundedInduction, TLAPS

Held == Contents \cup {None}
Frame == [file : Names \cup {None}, left : SUBSET Names]
Filtering == {"sophos", "wait", "sig", "send"}

\* The types of the variables.
TypeInv ==
    /\ disk \in [Names -> Held] /\ reused \subseteq Names
    /\ stack \in Seq(Frame) /\ out \in Seq(Names \X {0, 1, Malformed})
    /\ cur \in Names \cup {None} /\ pc \in {"sleep", "next", "dead"} \cup Filtering
    /\ fifo \subseteq Names /\ handled \subseteq Names
    /\ tried \subseteq Names \X Held

\* The paths that hold a file.
Present == {n \in Names : disk[n] # None}

\* No file is ever removed, and only what was once in the directory is looked at.
PresentInv ==
    /\ fifo \subseteq Present /\ handled \subseteq Present
    /\ \A k \in 1 .. Len(out) : out[k][1] \in Present
    /\ \A k \in 1 .. Len(stack) : stack[k].left \subseteq Present
    /\ \A k \in 2 .. Len(stack) : stack[k].file \in Present
    /\ pc \in Filtering => cur \in Present
    /\ \A t \in tried : t[1] \in Present
    /\ pc # "sleep" => stack # << >>

\* What the scanner and the monitor found out about a file is still so, unless
\* its path was used again.
LineInv ==
    \A k \in 1 .. Len(out) :
        out[k][1] \notin reused /\ out[k][2] = 0 => disk[out[k][1]] \notin Virus

FilterInv ==
    pc \in Filtering /\ cur \notin reused =>
        /\ Kind[disk[cur]] \in {"pe", "pdf"}
        /\ pc # "send" => Kind[disk[cur]] = "pe"
        /\ pc \in {"sig", "send"} /\ Kind[disk[cur]] = "pe" => disk[cur] \notin Virus

TriedInv ==
    \A t \in tried : t[1] \notin reused =>
        t[2] = disk[t[1]] /\ (Kind[t[2]] = "pe" => t[2] \notin Virus)

\* The member of archive k that is being treated.
InHand(k) == IF k < Len(stack) THEN {stack[k + 1].file}
             ELSE IF pc \in Filtering \cup {"dead"} THEN {cur} ELSE {}

\* Every member of an archive that was opened is treated, in hand or still to come.
OpenInv(k) ==
    stack[k].file \notin reused =>
        /\ Kind[disk[stack[k].file]] = "archive"
        /\ \A m \in Unpacked : Inside[disk[stack[k].file]][m] # None =>
               m \in handled \/ m \in stack[k].left \/ m \in InHand(k)

StackInv == \A k \in 2 .. Len(stack) : OpenInv(k)

-----------------------------------------------------------------------------
(* The first line with a name                                                *)

LEMMA Smallest ==
    ASSUME NEW S \in SUBSET Nat, S # {}
    PROVE  \E m \in S : \A k \in S : m <= k
<1> DEFINE R == {p \in Nat \X Nat : p[1] < p[2]}
<1>1. IsWellFoundedOn(R, Nat)
    BY NatLessThanWellFounded, Zenon DEF OpToRel
<1> HIDE DEF R
<1>2. \E x \in S : \A y \in S : ~ (<<y, x>> \in R)
    BY <1>1, WFMin, Zenon
<1>3. \A x \in S, y \in S : ~ (<<y, x>> \in R) => x <= y
    BY DEF R
<1> QED BY <1>2, <1>3

LEMMA VerdictFacts ==
    ASSUME TypeInv
    PROVE  \/ Verdict = 2
           \/ \E k \in 1 .. Len(out) : out[k][1] = cur /\ Verdict = out[k][2]
<1> DEFINE I == {i \in 1 .. Len(out) : out[i][1] = cur}
<1>1. I \in SUBSET Nat
    OBVIOUS
<1>2. CASE I = {}
    BY <1>2 DEF Verdict, SelectInSeq
<1>3. CASE I # {}
    <2>1. Min(I) \in I
        <3> HIDE DEF I
        <3> QED BY <1>1, <1>3, Smallest DEF Min
    <2>2. SelectInSeq(out, LAMBDA l : l[1] = cur) = Min(I)
        BY <1>3 DEF SelectInSeq
    <2>3. Min(I) # 0 /\ Min(I) \in 1 .. Len(out) /\ out[Min(I)][1] = cur
        BY <2>1
    <2>4. Verdict = out[Min(I)][2]
        BY <2>2, <2>3 DEF Verdict
    <2> QED BY <2>3, <2>4
<1> QED BY <1>2, <1>3

-----------------------------------------------------------------------------
(* The running loops                                                         *)

LEMMA RestFacts ==
    ASSUME TypeInv, stack # << >>, NEW i \in Names
    PROVE  /\ Rest(i) \in Seq(Frame) /\ Len(Rest(i)) = Len(stack)
           /\ Len(stack) \in Nat \ {0} /\ Top \in Frame
           /\ \A k \in 1 .. Len(stack) : /\ Rest(i)[k].file = stack[k].file
                                         /\ k < Len(stack) => Rest(i)[k].left = stack[k].left
                                         /\ k = Len(stack) => Rest(i)[k].left = stack[k].left \ {i}
<1>1. stack \in Seq(Frame) /\ Len(stack) \in Nat \ {0} /\ Len(stack) \in 1 .. Len(stack)
    BY DEF TypeInv
<1>2. Top = stack[Len(stack)] /\ Top \in Frame
    BY <1>1 DEF Top, Last
<1> DEFINE f == [Top EXCEPT !.left = @ \ {i}]
<1>3. f \in Frame /\ f.file = Top.file /\ f.left = Top.left \ {i}
    BY <1>2 DEF Frame
<1>4. Rest(i) = [stack EXCEPT ![Len(stack)] = f]
    BY <1>2 DEF Rest
<1> HIDE DEF f
<1>5. Rest(i) \in Seq(Frame) /\ Len(Rest(i)) = Len(stack)
    BY <1>1, <1>3, <1>4
<1>6. ASSUME NEW k \in 1 .. Len(stack)
      PROVE  Rest(i)[k] = IF k = Len(stack) THEN f ELSE stack[k]
    BY <1>1, <1>4
<1> QED BY <1>1, <1>2, <1>3, <1>5, <1>6

LEMMA FilterFacts ==
    ASSUME TypeInv, NEW i \in Names, disk[i] # None, filter_file(i)
    PROVE  /\ cur' = i /\ disk' \in [Names -> Held]
           /\ reused' = reused \cup Overwritten(disk, disk')
           /\ \A n \in Names : disk[n] # None => disk'[n] # None
           /\ Kind[disk[i]] \in Kinds
           /\ \/ /\ Kind[disk[i]] = "archive" /\ pc' \in {"next", "dead"} /\ handled' = handled
                 /\ \E list \in SUBSET Names :
                      /\ list \subseteq {n \in Names : disk'[n] # None}
                      /\ Members(disk[i]) \subseteq list
                      /\ stack' = Append(Rest(i), [file |-> i, left |-> list])
              \/ /\ Kind[disk[i]] = "broken" /\ pc' = "dead"
                 /\ handled' = handled /\ stack' = Rest(i)
              \/ /\ Kind[disk[i]] \in {"gzip", "other"} /\ pc' \in {"next", "dead"}
                 /\ handled' = handled \cup {i} /\ disk' = disk /\ stack' = Rest(i)
              \/ /\ Kind[disk[i]] = "pe" /\ pc' = "sophos"
                 /\ handled' = handled /\ disk' = disk /\ stack' = Rest(i)
              \/ /\ Kind[disk[i]] = "pdf" /\ pc' = "send"
                 /\ handled' = handled /\ disk' = disk /\ stack' = Rest(i)
<1> DEFINE c == disk[i]
<1>1. c \in Contents /\ Kind[c] \in Kinds /\ Inside[c] \in [Unpacked -> Held]
    BY MonitorAssumption DEF TypeInv, Held
<1>2. disk \in [Names -> Held]
    BY DEF TypeInv
<1>3. PICK S \in Extracted(c) :
      /\ cur' = i /\ reused' = reused \cup Overwritten(disk, disk')
      /\ disk' = [n \in Names |-> IF n \in S THEN Inside[c][n] ELSE disk[n]]
      /\ handled' = IF Kind[c] \in {"gzip", "other"} THEN handled \cup {i} ELSE handled
      /\ stack' = IF Kind[c] = "archive"
                  THEN Append(Rest(i), [file |-> i,
                                        left |-> {n \in Unpacked : disk'[n] # None}])
                  ELSE Rest(i)
      /\ pc' = CASE Kind[c] = "pe" -> "sophos"
                 [] Kind[c] = "pdf" -> "send"
                 [] Kind[c] = "broken" -> "dead"
                 [] OTHER -> IF Len(stack') > MaxDepth THEN "dead" ELSE "next"
    BY DEF filter_file
<1> HIDE DEF c
<1>4. /\ Kind[c] = "archive" => S = Members(c)
      /\ S \subseteq Members(c)
      /\ Kind[c] \notin {"archive", "broken"} => S = {}
    BY <1>1 DEF Extracted, Kinds
<1>5. /\ disk' \in [Names -> Held] /\ \A n \in Names : disk[n] # None => disk'[n] # None
      /\ \A n \in S : disk'[n] # None
    BY <1>1, <1>2, <1>3, <1>4 DEF Members, Names
<1>6. CASE Kind[c] = "archive"
    <2> DEFINE list == {n \in Unpacked : disk'[n] # None}
    <2>1. handled' = handled /\ pc' \in {"next", "dead"}
          /\ stack' = Append(Rest(i), [file |-> i, left |-> list])
        BY <1>3, <1>6
    <2>2. list \in SUBSET Names /\ list \subseteq {n \in Names : disk'[n] # None}
        BY DEF Names
    <2>3. Members(c) \subseteq list
        BY <1>4, <1>5, <1>6 DEF Members
    <2> HIDE DEF list
    <2> QED BY <1>1, <1>3, <1>5, <1>6, <2>1, <2>2, <2>3 DEF c
<1>7. CASE Kind[c] \in {"gzip", "other", "pe", "pdf"}
    <2>1. disk' = disk
        BY <1>2, <1>3, <1>4, <1>7
    <2> QED BY <1>1, <1>2, <1>3, <1>7, <2>1 DEF c
<1>8. CASE Kind[c] = "broken"
    BY <1>1, <1>3, <1>5, <1>8 DEF c
<1> QED BY <1>1, <1>6, <1>7, <1>8 DEF Kinds

-----------------------------------------------------------------------------
(* The steps                                                                 *)

\* filter_file is entered for i, from either loop.
Enters(i) ==
    /\ i \in Names /\ pc = "next" /\ stack # << >> /\ i \in Top.left /\ filter_file(i)
    /\ UNCHANGED <<fifo, out, tried, called>>

\* run_loop passes over i.
Skips(i) ==
    /\ i \in Names /\ pc = "next" /\ Len(stack) = 1 /\ stack' = Rest(i)
    /\ UNCHANGED <<disk, reused, cur, pc, handled, fifo, out, tried, called>>

LEMMA LoopFacts ==
    ASSUME TypeInv, PresentInv, NEW i \in Names, LoopNext(i) \/ MemberNext(i)
    PROVE  Enters(i) \/ Skips(i)
<1>1. pc = "next" /\ i \in Top.left /\ UNCHANGED <<fifo, out, tried, called>>
    BY DEF LoopNext, MemberNext
<1>2. stack # << >>
    BY <1>1 DEF PresentInv
<1>3. \/ filter_file(i)
      \/ /\ Len(stack) = 1 /\ stack' = Rest(i)
         /\ UNCHANGED <<disk, reused, cur, pc, handled>>
    BY DEF LoopNext, MemberNext
<1> QED BY <1>1, <1>2, <1>3 DEF Enters, Skips

LEMMA InTop ==
    ASSUME TypeInv, PresentInv, stack # << >>, NEW i \in Top.left
    PROVE  i \in Names /\ disk[i] # None /\ Len(stack) \in Nat \ {0}
<1>1. stack \in Seq(Frame) /\ Len(stack) \in Nat \ {0} /\ Len(stack) \in 1 .. Len(stack)
    BY DEF TypeInv
<1>2. Top.left \subseteq Present
    BY <1>1 DEF PresentInv, Top, Last
<1> QED BY <1>1, <1>2 DEF Present

LEMMA FrontFacts ==
    ASSUME TypeInv, stack # << >>
    PROVE  /\ Front(stack) \in Seq(Frame) /\ Len(Front(stack)) = Len(stack) - 1
           /\ Len(stack) \in Nat \ {0}
           /\ \A k \in 1 .. Len(stack) - 1 : Front(stack)[k] = stack[k]
<1>1. stack \in Seq(Frame) /\ Len(stack) \in Nat \ {0}
    BY DEF TypeInv
<1> DEFINE n == Len(stack) - 1
<1>2. n \in 0 .. Len(stack)
    BY <1>1
<1>3. /\ SubSeq(stack, 1, n) \in Seq(Frame) /\ Len(SubSeq(stack, 1, n)) = n
      /\ \A k \in 1 .. n : SubSeq(stack, 1, n)[k] = stack[k]
    <2> HIDE DEF n
    <2> QED BY <1>1, <1>2
<1> QED BY <1>1, <1>3 DEF Front

LEMMA InitType == Init => TypeInv /\ PresentInv
<1> SUFFICES ASSUME Init PROVE TypeInv /\ PresentInv
    OBVIOUS
<1>1. TypeInv
    BY DEF Init, TypeInv, Held
<1>2. PresentInv
    BY DEF Init, PresentInv, Filtering
<1> QED BY <1>1, <1>2

LEMMA NextType == TypeInv /\ PresentInv /\ [Next]_vars => TypeInv'
<1> SUFFICES ASSUME TypeInv, PresentInv, [Next]_vars PROVE TypeInv'
    OBVIOUS
<1> USE DEF Filtering
<1>1. ASSUME NEW n \in Dropped, NEW c \in Contents, Drop(n, c) PROVE TypeInv'
    <2>1. disk' \in [Names -> Held] /\ reused' \subseteq Names
        BY <1>1 DEF Drop, TypeInv, Names, Held
    <2> QED BY <1>1, <2>1 DEF Drop, TypeInv, history
<1>2. ASSUME NEW n \in Dropped, Close(n) PROVE TypeInv'
    BY <1>2 DEF Close, TypeInv, history
<1>3. ASSUME NEW n \in Names, Scanner(n) PROVE TypeInv'
    <2>1. PICK v \in {0, 1, Malformed} : out' = Append(out, <<n, v>>)
        BY <1>3 DEF Scanner
    <2>2. out' \in Seq(Names \X {0, 1, Malformed}) /\ fifo' \subseteq Names
        BY <1>3, <2>1 DEF Scanner, TypeInv
    <2> QED BY <1>3, <2>2 DEF Scanner, TypeInv, history
<1>4. CASE Listed
    <2>1. stack' \in Seq(Frame) /\ pc' = "next"
        BY <1>4 DEF Listed, Frame, Names
    <2> QED BY <1>4, <2>1 DEF Listed, TypeInv, history
<1>5. CASE LoopEnd
    <2>1. stack # << >> /\ pc' \in {"next", "sleep"}
        BY <1>5 DEF LoopEnd, PresentInv
    <2>2. stack' \in Seq(Frame)
        BY <1>5, <2>1, FrontFacts DEF LoopEnd
    <2>3. handled' \subseteq Names
        <3>1. Len(stack) > 1 => Top.file \in Present
            <4>1. Len(stack) \in Nat
                BY DEF TypeInv
            <4> QED BY <4>1 DEF PresentInv, Top, Last
        <3> QED BY <1>5, <3>1 DEF LoopEnd, Present, TypeInv
    <2> QED BY <1>5, <2>1, <2>2, <2>3 DEF LoopEnd, TypeInv
<1>6. ASSUME NEW i \in Names, LoopNext(i) \/ MemberNext(i) PROVE TypeInv'
    <2>1. CASE Skips(i)
        <3>1. stack # << >>
            BY <2>1 DEF Skips, PresentInv
        <3>2. stack' \in Seq(Frame)
            BY <2>1, <3>1, RestFacts DEF Skips
        <3> QED BY <2>1, <3>2 DEF Skips, TypeInv
    <2>2. CASE Enters(i)
        <3>1. /\ stack # << >> /\ i \in Top.left /\ filter_file(i)
              /\ UNCHANGED <<fifo, out, tried, called>>
            BY <2>2 DEF Enters
        <3>2. disk[i] # None
            BY <3>1, InTop
        <3>3. Rest(i) \in Seq(Frame)
            BY <3>1, RestFacts
        <3>4. stack' \in Seq(Frame)
            <4>1. CASE stack' = Rest(i)
                BY <3>3, <4>1
            <4>2. ASSUME NEW list \in SUBSET Names,
                         stack' = Append(Rest(i), [file |-> i, left |-> list])
                  PROVE  stack' \in Seq(Frame)
                BY <3>3, <4>2 DEF Frame
            <4> QED BY <3>1, <3>2, <4>1, <4>2, FilterFacts
        <3>5. /\ cur' = i /\ disk' \in [Names -> Held] /\ reused' \subseteq Names
              /\ handled' \subseteq Names /\ pc' \in {"next", "dead", "sophos", "send"}
            <4>1. /\ cur' = i /\ disk' \in [Names -> Held]
                  /\ reused' = reused \cup Overwritten(disk, disk')
                  /\ handled' = handled \/ handled' = handled \cup {i}
                  /\ pc' \in {"next", "dead", "sophos", "send"}
                BY <3>1, <3>2, FilterFacts
            <4> QED BY <4>1 DEF TypeInv, Overwritten
        <3> QED BY <3>1, <3>4, <3>5 DEF TypeInv
    <2> QED BY <1>6, <2>1, <2>2, LoopFacts
<1>7. CASE SophosAsk
    <2>1. cur \in Names
        BY <1>7 DEF SophosAsk, PresentInv, Present
    <2> QED BY <1>7, <2>1 DEF SophosAsk, TypeInv, history
<1>8. ASSUME SophosRead \/ SophosRaises \/ SigOk \/ SigBad \/ Send PROVE TypeInv'
    <2>1. cur \in Names
        BY <1>8 DEF SophosRead, SophosRaises, SigOk, SigBad, Send, PresentInv, Present
    <2>2. /\ handled' = handled \/ handled' = handled \cup {cur}
          /\ tried' = tried \/ tried' = tried \cup {<<cur, disk[cur]>>}
          /\ pc' \in {"next", "sig", "send", "dead"}
          /\ UNCHANGED <<disk, reused, stack, out, cur, fifo>>
        BY <1>8 DEF SophosRead, SophosRaises, SigOk, SigBad, Send, Return, history
    <2>3. handled' \subseteq Names /\ tried' \subseteq Names \X Held
        BY <2>1, <2>2 DEF TypeInv
    <2> QED BY <2>2, <2>3 DEF TypeInv
<1>9. CASE UNCHANGED vars
    BY <1>9 DEF vars, TypeInv
<1> QED BY <1>1, <1>2, <1>3, <1>4, <1>5, <1>6, <1>7, <1>8, <1>9 DEF Next, Monitor

\* A file stays, and what it holds is what it held unless its path was used again.
Stable ==
    /\ reused \subseteq reused' /\ Present \subseteq Present'
    /\ \A n \in Present : n \notin reused' => disk'[n] = disk[n]
    /\ handled \subseteq handled' /\ called \subseteq called' /\ tried \subseteq tried'

LEMMA NextStable == TypeInv /\ PresentInv /\ [Next]_vars => Stable
<1> SUFFICES ASSUME TypeInv, PresentInv, [Next]_vars PROVE Stable
    OBVIOUS
<1> USE DEF Stable, Present
<1>1. ASSUME NEW n \in Dropped, NEW c \in Contents, Drop(n, c) PROVE Stable
    <2>1. c # None
        BY MonitorAssumption
    <2>2. /\ disk' = [disk EXCEPT ![n] = c] /\ disk \in [Names -> Held]
          /\ reused' = IF disk[n] = None THEN reused ELSE reused \cup {n}
          /\ UNCHANGED <<handled, called, tried>>
        BY <1>1 DEF Drop, history, TypeInv
    <2> QED BY <2>1, <2>2
<1>2. CASE UNCHANGED <<disk, reused>> /\ handled \subseteq handled' /\ called \subseteq called' /\ tried \subseteq tried'
    BY <1>2
<1>3. ASSUME NEW n \in Names, Close(n) \/ Scanner(n) PROVE Stable
    BY <1>2, <1>3 DEF Close, Scanner, history
<1>4. CASE Listed \/ LoopEnd \/ SophosAsk \/ SophosRaises \/ SigBad
    BY <1>2, <1>4 DEF Listed, LoopEnd, SophosAsk, SophosRaises, SigBad, history
<1>5. CASE SophosRead \/ SigOk \/ Send
    BY <1>2, <1>5 DEF SophosRead, SigOk, Send, Return
<1>6. ASSUME NEW i \in Names, LoopNext(i) \/ MemberNext(i) PROVE Stable
    <2>1. CASE Skips(i)
        BY <1>2, <2>1 DEF Skips
    <2>2. CASE Enters(i)
        <3>1. /\ stack # << >> /\ i \in Top.left /\ filter_file(i)
              /\ UNCHANGED <<fifo, out, tried, called>>
            BY <2>2 DEF Enters
        <3>2. disk[i] # None
            BY <3>1, InTop
        <3>3. /\ reused' = reused \cup Overwritten(disk, disk')
              /\ \A n \in Names : disk[n] # None => disk'[n] # None
              /\ handled' = handled \/ handled' = handled \cup {i}
            BY <3>1, <3>2, FilterFacts
        <3> QED BY <3>1, <3>3 DEF Overwritten
    <2> QED BY <1>6, <2>1, <2>2, LoopFacts
<1>7. CASE UNCHANGED vars
    BY <1>2, <1>7 DEF vars
<1> QED BY <1>1, <1>3, <1>4, <1>5, <1>6, <1>7 DEF Next, Monitor, Names

LEMMA NextPresent == TypeInv /\ PresentInv /\ [Next]_vars => PresentInv'
<1> SUFFICES ASSUME TypeInv, PresentInv, [Next]_vars PROVE PresentInv'
    OBVIOUS
<1>1. Present \subseteq Present'
    BY NextStable DEF Stable
<1> USE DEF Filtering
\* A step that leaves the loops and the answers alone.
<1>2. ASSUME UNCHANGED <<stack, out>>, fifo' \subseteq Present, handled' \subseteq Present,
             \A t \in tried' : t[1] \in Present,
             pc' = "sleep" <=> pc = "sleep", pc' \in Filtering => cur' \in Present
      PROVE  PresentInv'
    BY <1>1, <1>2 DEF PresentInv
<1>3. ASSUME NEW n \in Dropped, NEW c \in Contents, Drop(n, c) PROVE PresentInv'
    BY <1>2, <1>3 DEF Drop, history, PresentInv
<1>4. ASSUME NEW n \in Dropped, Close(n) PROVE PresentInv'
    BY <1>2, <1>4 DEF Close, history, PresentInv
<1>5. ASSUME NEW n \in Names, Scanner(n) PROVE PresentInv'
    <2>1. PICK v \in {0, 1, Malformed} : out' = Append(out, <<n, v>>)
        BY <1>5 DEF Scanner
    <2>2. n \in Present /\ out \in Seq(Names \X {0, 1, Malformed})
        BY <1>5 DEF Scanner, PresentInv, TypeInv
    <2>3. \A k \in 1 .. Len(out') : out'[k][1] \in Present
        BY <2>1, <2>2 DEF PresentInv
    <2>4. UNCHANGED <<stack, handled, tried, pc, cur, disk>> /\ fifo' \subseteq fifo
        BY <1>5 DEF Scanner, history
    <2> QED BY <1>1, <2>3, <2>4 DEF PresentInv
<1>6. CASE Listed
    <2> DEFINE f == [file |-> None, left |-> {n \in Dropped : disk[n] # None}]
    <2>1. stack' = <<f>> /\ f.left \subseteq Present /\ pc' = "next"
        BY <1>6 DEF Listed, Present, Names
    <2>2. UNCHANGED <<disk, fifo, out, handled, tried>>
        BY <1>6 DEF Listed, history
    <2> HIDE DEF f
    <2>3. Len(stack') = 1 /\ stack'[1] = f /\ stack' # << >>
        BY <2>1
    <2> QED BY <1>1, <2>1, <2>2, <2>3 DEF PresentInv
<1>7. CASE LoopEnd
    <2>1. stack # << >> /\ stack' = Front(stack) /\ UNCHANGED <<disk, fifo, out, tried, cur>>
        BY <1>7 DEF LoopEnd, PresentInv
    <2>2. /\ stack \in Seq(Frame) /\ Len(stack) \in Nat \ {0} /\ stack' \in Seq(Frame)
          /\ Len(stack') = Len(stack) - 1 /\ \A k \in 1 .. Len(stack') : stack'[k] = stack[k]
        BY <2>1, FrontFacts DEF TypeInv
    <2>3. handled' \subseteq Present
        <3>1. Len(stack) > 1 => Top.file \in Present
            BY <2>2 DEF PresentInv, Top, Last
        <3> QED BY <1>7, <3>1 DEF LoopEnd, PresentInv
    <2>4. pc' \notin Filtering /\ (pc' # "sleep" => stack' # << >>)
        BY <1>7, <2>2 DEF LoopEnd
    <2>5. /\ \A k \in 1 .. Len(stack') : stack'[k].left \subseteq Present
          /\ \A k \in 2 .. Len(stack') : stack'[k].file \in Present
        BY <2>2 DEF PresentInv
    <2> QED BY <1>1, <2>1, <2>3, <2>4, <2>5 DEF PresentInv
<1>8. ASSUME NEW i \in Names, LoopNext(i) \/ MemberNext(i) PROVE PresentInv'
    <2>1. /\ stack # << >> /\ UNCHANGED <<fifo, out, tried>> /\ pc = "next"
        BY <1>8, LoopFacts DEF Enters, Skips, PresentInv
    <2>2. /\ Rest(i) \in Seq(Frame) /\ Len(Rest(i)) = Len(stack) /\ Len(stack) \in Nat \ {0}
          /\ \A k \in 1 .. Len(stack) : Rest(i)[k].file = stack[k].file
          /\ \A k \in 1 .. Len(stack) : Rest(i)[k].left \subseteq stack[k].left
        <3>1. /\ Rest(i) \in Seq(Frame) /\ Len(Rest(i)) = Len(stack) /\ Len(stack) \in Nat \ {0}
              /\ \A k \in 1 .. Len(stack) : /\ Rest(i)[k].file = stack[k].file
                                            /\ k < Len(stack) => Rest(i)[k].left = stack[k].left
                                            /\ k = Len(stack) => Rest(i)[k].left = stack[k].left \ {i}
            BY <2>1, RestFacts
        <3>2. \A k \in 1 .. Len(stack) : Rest(i)[k].left \subseteq stack[k].left
            BY <3>1
        <3> QED BY <3>1, <3>2
    <2>3. /\ Rest(i) # << >>
          /\ \A k \in 1 .. Len(Rest(i)) : Rest(i)[k].left \subseteq Present
          /\ \A k \in 2 .. Len(Rest(i)) : Rest(i)[k].file \in Present
        BY <2>2 DEF PresentInv
    <2>4. CASE Skips(i)
        BY <1>1, <2>1, <2>3, <2>4 DEF Skips, PresentInv
    <2>5. CASE Enters(i)
        <3>1. /\ i \in Top.left /\ filter_file(i)
            BY <2>5 DEF Enters
        <3>2. disk[i] # None /\ i \in Present
            BY <2>1, <3>1, InTop DEF Present
        <3>3. cur' = i /\ (handled' = handled \/ handled' = handled \cup {i}) /\ pc' # "sleep"
            BY <3>1, <3>2, FilterFacts
        <3>4. CASE stack' = Rest(i)
            BY <1>1, <2>1, <2>3, <3>2, <3>3, <3>4 DEF PresentInv
        <3>5. ASSUME NEW list \in SUBSET Names, list \subseteq {n \in Names : disk'[n] # None},
                     stack' = Append(Rest(i), [file |-> i, left |-> list])
              PROVE  PresentInv'
            <4> DEFINE f == [file |-> i, left |-> list]
            <4>1. f.file = i /\ f.left = list /\ f \in Frame /\ list \subseteq Present'
                BY <3>5 DEF Frame, Present
            <4> HIDE DEF f
            <4>2. /\ Len(stack') = Len(Rest(i)) + 1 /\ stack'[Len(Rest(i)) + 1] = f
                  /\ stack' # << >>
                  /\ \A k \in 1 .. Len(Rest(i)) : stack'[k] = Rest(i)[k]
                BY <2>2, <3>5, <4>1 DEF f
            <4>3. \A k \in 1 .. Len(stack') : stack'[k].left \subseteq Present'
                BY <1>1, <2>2, <2>3, <4>1, <4>2
            <4>4. \A k \in 2 .. Len(stack') : stack'[k].file \in Present'
                BY <1>1, <2>2, <2>3, <3>2, <4>1, <4>2
            <4> QED BY <1>1, <2>1, <3>2, <3>3, <4>2, <4>3, <4>4 DEF PresentInv
        <3> QED BY <3>1, <3>2, <3>4, <3>5, FilterFacts
    <2> QED BY <1>8, <2>4, <2>5, LoopFacts
<1>9. CASE SophosAsk
    BY <1>2, <1>9 DEF SophosAsk, history, PresentInv
<1>10. ASSUME SophosRead \/ SophosRaises \/ SigOk \/ SigBad \/ Send PROVE PresentInv'
    <2>1. cur \in Present
        BY <1>10 DEF SophosRead, SophosRaises, SigOk, SigBad, Send, PresentInv
    <2>2. /\ handled' = handled \/ handled' = handled \cup {cur}
          /\ tried' = tried \/ tried' = tried \cup {<<cur, disk[cur]>>}
          /\ pc' # "sleep" /\ pc # "sleep"
          /\ UNCHANGED <<stack, out, cur, fifo>>
        BY <1>10 DEF SophosRead, SophosRaises, SigOk, SigBad, Send, Return, history
    <2>3. \A t \in tried' : t[1] \in Present
        BY <2>1, <2>2 DEF PresentInv
    <2> QED BY <1>2, <2>1, <2>2, <2>3 DEF PresentInv
<1>11. CASE UNCHANGED vars
    BY <1>1, <1>11 DEF vars, PresentInv
<1> QED BY <1>3, <1>4, <1>5, <1>6, <1>7, <1>8, <1>9, <1>10, <1>11 DEF Next, Monitor

-----------------------------------------------------------------------------
(* What the monitor knows of a file                                          *)

LEMMA NextLine == TypeInv /\ PresentInv /\ LineInv /\ [Next]_vars => LineInv'
<1> SUFFICES ASSUME TypeInv, PresentInv, LineInv, [Next]_vars PROVE LineInv'
    OBVIOUS
<1>1. Stable
    BY NextStable
\* A line that was there before.
<1>2. ASSUME NEW k \in 1 .. Len(out), out[k][1] \notin reused', out[k][2] = 0
      PROVE  disk'[out[k][1]] \notin Virus
    <2>1. out[k][1] \in Present /\ out[k][1] \notin reused
        BY <1>1, <1>2 DEF PresentInv, Stable
    <2>2. disk'[out[k][1]] = disk[out[k][1]]
        BY <1>1, <1>2, <2>1 DEF Stable
    <2> QED BY <1>2, <2>1, <2>2 DEF LineInv
<1>3. CASE out' = out
    BY <1>2, <1>3 DEF LineInv
<1>4. ASSUME NEW n \in Names, Scanner(n) PROVE LineInv'
    <2>1. PICK v \in {IF disk[n] \in Virus THEN 1 ELSE 0, Malformed} :
             out' = Append(out, <<n, v>>) /\ UNCHANGED <<disk, reused>>
        BY <1>4 DEF Scanner
    <2>2. /\ out \in Seq(Names \X {0, 1, Malformed}) /\ v \in {0, 1, Malformed}
          /\ v = 0 => disk[n] \notin Virus
        BY DEF TypeInv, Malformed
    <2>3. /\ Len(out') = Len(out) + 1 /\ out'[Len(out) + 1] = <<n, v>>
          /\ \A k \in 1 .. Len(out) : out'[k] = out[k]
        BY <2>1, <2>2
    <2>4. ASSUME NEW k \in 1 .. Len(out'), out'[k][1] \notin reused', out'[k][2] = 0
          PROVE  disk'[out'[k][1]] \notin Virus
        <3>1. CASE k \in 1 .. Len(out)
            <4>1. out'[k] = out[k]
                BY <2>3, <3>1
            <4>2. out[k][1] \notin reused' /\ out[k][2] = 0
                BY <2>4, <4>1
            <4> QED BY <1>2, <3>1, <4>1, <4>2
        <3>2. CASE k = Len(out) + 1
            <4>1. out'[k] = <<n, v>>
                BY <2>3, <3>2
            <4> QED BY <2>1, <2>2, <2>4, <4>1
        <3>3. Len(out) \in Nat
            BY <2>2
        <3> QED BY <2>3, <3>1, <3>2, <3>3
    <2> QED BY <2>4 DEF LineInv
<1>5. ASSUME ~ \E n \in Names : Scanner(n) PROVE out' = out
    <2>1. ASSUME NEW i \in Names, LoopNext(i) \/ MemberNext(i) PROVE out' = out
        BY <2>1 DEF LoopNext, MemberNext
    <2>2. ASSUME NEW n \in Dropped, Close(n) \/ \E c \in Contents : Drop(n, c) PROVE out' = out
        BY <2>2 DEF Close, Drop
    <2>3. ASSUME Listed \/ LoopEnd \/ SophosAsk \/ SophosRead \/ SophosRaises \/ SigOk
                 \/ SigBad \/ Send \/ UNCHANGED vars
          PROVE  out' = out
        BY <2>3 DEF Listed, LoopEnd, SophosAsk, SophosRead, SophosRaises, SigOk, SigBad, Send, vars
    <2> QED BY <1>5, <2>1, <2>2, <2>3 DEF Next, Monitor
<1> QED BY <1>3, <1>4, <1>5

LEMMA NextFilter ==
    TypeInv /\ PresentInv /\ LineInv /\ FilterInv /\ [Next]_vars => FilterInv'
<1> SUFFICES ASSUME TypeInv, PresentInv, LineInv, FilterInv, [Next]_vars PROVE FilterInv'
    OBVIOUS
<1>1. Stable
    BY NextStable
<1> USE DEF Filtering
<1>2. CASE pc' \notin Filtering
    BY <1>2 DEF FilterInv
\* The file in hand holds what it held.
<1>3. ASSUME pc \in Filtering, cur' = cur, cur \notin reused'
      PROVE  disk'[cur'] = disk[cur] /\ cur \notin reused
    BY <1>1, <1>3 DEF Stable, PresentInv
<1>4. CASE UNCHANGED <<pc, cur>>
    BY <1>3, <1>4 DEF FilterInv
<1>5. ASSUME NEW n \in Dropped, Close(n) \/ \E c \in Contents : Drop(n, c) PROVE UNCHANGED <<pc, cur>>
    BY <1>5 DEF Close, Drop
<1>6. ASSUME NEW n \in Names, Scanner(n) PROVE UNCHANGED <<pc, cur>>
    BY <1>6 DEF Scanner
<1>7. ASSUME Listed \/ LoopEnd \/ SophosRaises \/ SigOk \/ Send PROVE pc' \notin Filtering
    BY <1>7 DEF Listed, LoopEnd, SophosRaises, SigOk, Send, Return
<1>8. ASSUME NEW i \in Names, LoopNext(i) \/ MemberNext(i) PROVE FilterInv'
    <2>1. CASE Skips(i)
        BY <1>2, <2>1 DEF Skips
    <2>2. CASE Enters(i)
        <3>1. filter_file(i) /\ disk[i] # None
            BY <2>2, InTop DEF Enters
        <3>2. /\ cur' = i
              /\ \/ pc' \notin Filtering
                 \/ Kind[disk[i]] = "pe" /\ pc' = "sophos" /\ disk' = disk
                 \/ Kind[disk[i]] = "pdf" /\ pc' = "send" /\ disk' = disk
            BY <3>1, FilterFacts
        <3> QED BY <1>2, <3>2 DEF FilterInv
    <2> QED BY <1>8, <2>1, <2>2, LoopFacts
<1>9. CASE SophosAsk
    BY <1>3, <1>9 DEF SophosAsk, FilterInv
<1>10. CASE SophosRead
    <2>1. CASE Verdict # 0
        BY <1>2, <1>10, <2>1 DEF SophosRead, Return
    <2>2. CASE Verdict = 0
        <3>1. pc = "wait" /\ pc' = "sig" /\ cur' = cur
            BY <1>10, <2>2 DEF SophosRead
        <3>2. PICK k \in 1 .. Len(out) : out[k][1] = cur /\ out[k][2] = 0
            BY <2>2, VerdictFacts
        <3>3. cur \notin reused => disk[cur] \notin Virus
            BY <3>2 DEF LineInv
        <3> QED BY <1>3, <3>1, <3>3 DEF FilterInv
    <2> QED BY <2>1, <2>2
<1>11. CASE SigBad
    BY <1>3, <1>11 DEF SigBad, FilterInv
<1>12. CASE UNCHANGED vars
    BY <1>4, <1>12 DEF vars
<1> QED BY <1>2, <1>4, <1>5, <1>6, <1>7, <1>8, <1>9, <1>10, <1>11, <1>12 DEF Next, Monitor

\* Only Send uploads.
LEMMA TriedStep ==
    ASSUME [Next]_vars
    PROVE  tried' = tried \/ Send
<1>1. ASSUME NEW i \in Names, LoopNext(i) \/ MemberNext(i) PROVE tried' = tried
    BY <1>1 DEF LoopNext, MemberNext
<1>2. ASSUME NEW n \in Dropped, Close(n) \/ \E c \in Contents : Drop(n, c) PROVE tried' = tried
    BY <1>2 DEF Close, Drop, history
<1>3. ASSUME NEW n \in Names, Scanner(n) PROVE tried' = tried
    BY <1>3 DEF Scanner, history
<1>4. ASSUME Listed \/ LoopEnd \/ SophosAsk \/ SophosRead \/ SophosRaises \/ SigOk
             \/ SigBad \/ UNCHANGED vars
      PROVE  tried' = tried
    BY <1>4 DEF Listed, LoopEnd, SophosAsk, SophosRead, SophosRaises, SigOk, SigBad, vars, history
<1> QED BY <1>1, <1>2, <1>3, <1>4 DEF Next, Monitor

LEMMA NextTried ==
    TypeInv /\ PresentInv /\ FilterInv /\ TriedInv /\ [Next]_vars => TriedInv'
<1> SUFFICES ASSUME TypeInv, PresentInv, FilterInv, TriedInv, [Next]_vars,
                    NEW t \in tried', t[1] \notin reused'
             PROVE  t[2] = disk'[t[1]] /\ (Kind[t[2]] = "pe" => t[2] \notin Virus)
    BY DEF TriedInv
<1>1. Stable
    BY NextStable
<1>2. CASE t \in tried
    <2>1. t[1] \in Present /\ t[1] \notin reused
        BY <1>1, <1>2 DEF Stable, PresentInv
    <2>2. disk'[t[1]] = disk[t[1]]
        BY <1>1, <2>1 DEF Stable
    <2> QED BY <1>2, <2>1, <2>2 DEF TriedInv
<1>3. CASE t \notin tried
    <2>1. Send
        BY <1>3, TriedStep
    <2>2. pc = "send" /\ t = <<cur, disk[cur]>> /\ UNCHANGED <<disk, reused>>
        BY <1>3, <2>1 DEF Send
    <2> QED BY <2>2 DEF FilterInv, Filtering
<1> QED BY <1>2, <1>3

KnownInv == /\ TypeInv /\ PresentInv /\ LineInv /\ FilterInv /\ TriedInv

LEMMA InitKnown == Init => KnownInv
<1> SUFFICES ASSUME Init PROVE KnownInv
    OBVIOUS
<1>1. TypeInv /\ PresentInv
    BY InitType
<1>2. Len(out) = 0 /\ pc = "sleep" /\ tried = {}
    BY DEF Init
<1> QED BY <1>1, <1>2 DEF KnownInv, LineInv, FilterInv, TriedInv, Filtering

LEMMA NextKnown == KnownInv /\ [Next]_vars => KnownInv'
BY NextType, NextPresent, NextLine, NextFilter, NextTried DEF KnownInv

\* A program in which the scanner finds a virus is not uploaded unless its path was
\* used for another file before, however late the scanner answers (sophos_it takes
\* the first line with the name) and whatever archives the program comes in.
THEOREM VirusNotSentCorrect == Spec => []VirusNotSent
<1>1. KnownInv => VirusNotSent
    <2> SUFFICES ASSUME KnownInv, NEW n \in Names, NEW c \in Virus, Kind[c] = "pe",
                        <<n, c>> \in tried, n \notin reused
                 PROVE  FALSE
        BY DEF VirusNotSent
    <2> QED BY DEF KnownInv, TriedInv
<1> QED BY <1>1, InitKnown, NextKnown, PTL DEF Spec

-----------------------------------------------------------------------------
(* Every file is judged                                                      *)

LEMMA OpenStays ==
    ASSUME PresentInv, Stable, NEW k \in 2 .. Len(stack), OpenInv(k),
           stack'[k].file = stack[k].file,
           \A m \in Unpacked : m \in stack[k].left \/ m \in InHand(k) =>
               m \in handled' \/ m \in stack'[k].left \/ m \in InHand(k)'
    PROVE  OpenInv(k)'
<1> SUFFICES ASSUME stack[k].file \notin reused'
             PROVE  /\ Kind[disk'[stack[k].file]] = "archive"
                    /\ \A m \in Unpacked : Inside[disk'[stack[k].file]][m] # None =>
                           m \in handled' \/ m \in stack'[k].left \/ m \in InHand(k)'
    BY DEF OpenInv
<1>1. stack[k].file \in Present /\ stack[k].file \notin reused /\ handled \subseteq handled'
    BY DEF PresentInv, Stable
<1>2. disk'[stack[k].file] = disk[stack[k].file]
    BY <1>1 DEF Stable
<1> QED BY <1>1, <1>2 DEF OpenInv

LEMMA NextStack == KnownInv /\ StackInv /\ [Next]_vars => StackInv'
<1> SUFFICES ASSUME KnownInv, StackInv, [Next]_vars PROVE StackInv'
    OBVIOUS
<1>1. Stable /\ TypeInv /\ PresentInv
    BY NextStable DEF KnownInv
<1>2. stack \in Seq(Frame) /\ Len(stack) \in Nat
    BY <1>1 DEF TypeInv
<1> USE DEF Filtering
\* A step of the file in hand, and one of the other processes.
<1>3. ASSUME UNCHANGED <<stack, cur>>,
             pc \in Filtering \cup {"dead"} =>
                 pc' \in Filtering \cup {"dead"} \/ cur \in handled'
      PROVE  StackInv'
    <2> SUFFICES ASSUME NEW k \in 2 .. Len(stack) PROVE OpenInv(k)'
        BY <1>3 DEF StackInv
    <2>1. OpenInv(k)
        BY DEF StackInv
    <2>2. \A m : m \in InHand(k) => m \in handled' \/ m \in InHand(k)'
        BY <1>3 DEF InHand
    <2> QED BY <1>1, <1>3, <2>1, <2>2, OpenStays
<1>4. ASSUME NEW n \in Dropped, Close(n) \/ \E c \in Contents : Drop(n, c) PROVE StackInv'
    BY <1>3, <1>4 DEF Close, Drop
<1>5. ASSUME NEW n \in Names, Scanner(n) PROVE StackInv'
    BY <1>3, <1>5 DEF Scanner
<1>6. CASE SophosAsk \/ SophosRaises \/ SigBad
    BY <1>3, <1>6 DEF SophosAsk, SophosRaises, SigBad
<1>7. CASE SophosRead \/ SigOk \/ Send
    BY <1>3, <1>7 DEF SophosRead, SigOk, Send, Return
<1>8. CASE Listed
    <2>1. Len(stack') = 1
        BY <1>8 DEF Listed
    <2> QED BY <2>1 DEF StackInv
<1>9. CASE LoopEnd
    <2>1. stack # << >> /\ stack' = Front(stack) /\ pc = "next" /\ pc' \notin Filtering /\ Top.left = {}
          /\ handled' = (IF Len(stack) > 1 THEN handled \cup {Top.file} ELSE handled)
        BY <1>1, <1>9 DEF LoopEnd, PresentInv
    <2>2. /\ Len(stack') = Len(stack) - 1 /\ Len(stack) \in Nat \ {0}
          /\ \A k \in 1 .. Len(stack) - 1 : stack'[k] = stack[k]
        BY <1>1, <2>1, FrontFacts
    <2> SUFFICES ASSUME NEW k \in 2 .. Len(stack') PROVE OpenInv(k)'
        BY DEF StackInv
    <2>3. OpenInv(k) /\ k \in 2 .. Len(stack) /\ stack'[k] = stack[k] /\ k < Len(stack)
        BY <2>2 DEF StackInv
    <2>4. \A m : m \in InHand(k) => m \in handled' \/ m \in InHand(k)'
        <3>1. CASE k + 1 < Len(stack)
            <4>1. stack'[k + 1] = stack[k + 1] /\ k < Len(stack')
                BY <2>2, <2>3, <3>1
            <4> QED BY <2>3, <4>1 DEF InHand
        <3>2. CASE k + 1 = Len(stack)
            <4>1. stack[k + 1].file \in handled'
                BY <2>1, <2>2, <3>2 DEF Top, Last
            <4> QED BY <2>3, <4>1 DEF InHand
        <3> QED BY <2>2, <2>3, <3>1, <3>2
    <2> QED BY <1>1, <2>3, <2>4, OpenStays
<1>10. ASSUME NEW i \in Names, LoopNext(i) \/ MemberNext(i) PROVE StackInv'
    <2>1. pc = "next" /\ stack # << >>
        BY <1>1, <1>10, LoopFacts DEF Enters, Skips, PresentInv
    <2>2. /\ Rest(i) \in Seq(Frame) /\ Len(Rest(i)) = Len(stack) /\ Len(stack) \in Nat \ {0}
          /\ \A k \in 1 .. Len(stack) : /\ Rest(i)[k].file = stack[k].file
                                        /\ k < Len(stack) => Rest(i)[k].left = stack[k].left
                                        /\ k = Len(stack) => Rest(i)[k].left = stack[k].left \ {i}
        BY <1>1, <2>1, RestFacts
    <2> PICK n \in Nat : n = Len(stack)
        BY <2>2
    <2>3. CASE Skips(i)
        <3>1. Len(stack') = 1
            BY <2>2, <2>3 DEF Skips
        <3> QED BY <3>1 DEF StackInv
    \* The loops that run on, with i treated or in hand.
    <2>4. ASSUME NEW k \in 2 .. Len(stack), Len(stack') >= Len(stack),
                 \A j \in 1 .. Len(stack) : stack'[j] = Rest(i)[j],
                 i \in handled' \/ i \in InHand(n)'
          PROVE  OpenInv(k)'
        <3>1. OpenInv(k) /\ k \in 1 .. Len(stack)
            BY <2>2 DEF StackInv
        <3>2. stack'[k].file = stack[k].file
            BY <2>2, <2>4, <3>1
        <3>3. CASE k < Len(stack)
            <4>1. k + 1 \in 1 .. Len(stack)
                BY <2>2, <3>1, <3>3
            <4>2. stack'[k].left = stack[k].left /\ stack'[k + 1].file = stack[k + 1].file
                BY <2>2, <2>4, <3>1, <3>3, <4>1
            <4>3. k < Len(stack')
                <5>1. Len(stack') \in Nat
                    BY <1>1, NextType DEF TypeInv
                <5> QED BY <2>2, <2>4, <3>3, <5>1
            <4>4. InHand(k)' = InHand(k)
                BY <3>3, <4>2, <4>3 DEF InHand
            <4> QED BY <1>1, <3>1, <3>2, <4>2, <4>4, OpenStays
        <3>4. CASE k = Len(stack)
            <4>1. stack'[k].left = stack[k].left \ {i} /\ InHand(k) = {}
                BY <2>1, <2>2, <2>4, <3>1, <3>4 DEF InHand
            <4>2. i \in handled' \/ i \in InHand(k)'
                BY <2>4, <3>4
            <4> QED BY <1>1, <3>1, <3>2, <4>1, <4>2, OpenStays
        <3> QED BY <2>2, <3>3, <3>4
    <2>5. CASE Enters(i)
        <3>1. filter_file(i) /\ disk[i] # None /\ i \in Present
            BY <1>1, <2>5, InTop DEF Enters, Present
        <3>2. CASE stack' = Rest(i)
            <4>1. Len(stack') = Len(stack)
                BY <2>2, <3>2
            <4>2. cur' = i /\ (i \in handled' \/ pc' \in {"sophos", "send", "dead"})
                <5>1. Kind[disk[i]] # "archive"
                    <6>1. ASSUME NEW list \in SUBSET Names,
                                 stack' = Append(Rest(i), [file |-> i, left |-> list])
                          PROVE  FALSE
                        <7>1. [file |-> i, left |-> list] \in Frame
                            BY DEF Frame
                        <7>2. Len(stack') = Len(Rest(i)) + 1
                            BY <2>2, <6>1, <7>1
                        <7> QED BY <2>2, <4>1, <7>2
                    <6> QED BY <1>1, <3>1, <6>1, FilterFacts
                <5> QED BY <1>1, <3>1, <5>1, FilterFacts
            <4>3. i \in handled' \/ i \in InHand(n)'
                BY <2>2, <4>1, <4>2 DEF InHand
            <4> QED BY <2>2, <2>4, <3>2, <4>1, <4>3 DEF StackInv
        <3>3. ASSUME NEW list \in SUBSET Names, Members(disk[i]) \subseteq list,
                     Kind[disk[i]] = "archive",
                     stack' = Append(Rest(i), [file |-> i, left |-> list])
              PROVE  StackInv'
            <4> DEFINE f == [file |-> i, left |-> list]
            <4>1. f.file = i /\ f.left = list /\ f \in Frame
                BY <3>3 DEF Frame
            <4> HIDE DEF f
            <4>2. /\ Len(stack') = Len(stack) + 1 /\ stack'[Len(stack) + 1] = f
                  /\ \A k \in 1 .. Len(stack) : stack'[k] = Rest(i)[k]
                BY <2>2, <3>3, <4>1 DEF f
            <4>3. i \in InHand(n)'
                BY <2>2, <4>1, <4>2 DEF InHand
            <4>4. ASSUME NEW k \in 2 .. Len(stack) PROVE OpenInv(k)'
                BY <2>2, <2>4, <4>2, <4>3
            <4>5. OpenInv(n + 1)'
                <5>1. ASSUME i \notin reused' PROVE disk'[i] = disk[i]
                    BY <1>1, <3>1, <5>1 DEF Stable
                <5> QED BY <3>3, <4>1, <4>2, <5>1 DEF OpenInv, Members
            <4> QED BY <2>2, <4>2, <4>4, <4>5 DEF StackInv
        <3> QED BY <1>1, <3>1, <3>2, <3>3, FilterFacts
    <2> QED BY <1>1, <1>10, <2>3, <2>5, LoopFacts
<1>11. CASE UNCHANGED vars
    BY <1>3, <1>11 DEF vars
<1> QED BY <1>4, <1>5, <1>6, <1>7, <1>8, <1>9, <1>10, <1>11 DEF Next, Monitor

\* What Judged says of one file.
JudgedFile(n) ==
    /\ Kind[disk[n]] = "pe" => n \in called \/ disk[n] \in Signed \/ <<n, disk[n]>> \in tried
    /\ Kind[disk[n]] = "pdf" => <<n, disk[n]>> \in tried
    /\ Kind[disk[n]] = "archive" => \A m \in Members(disk[n]) : m \in handled

\* Who adds a file to handled, and what is then known.
LEMMA HandledStep ==
    ASSUME KnownInv, StackInv, [Next]_vars, NEW n \in handled', n \notin handled, n \notin reused'
    PROVE  /\ UNCHANGED <<disk, reused>>
           /\ \/ Kind[disk[n]] = "pe" /\ (n \in called' \/ disk[n] \in Signed)
              \/ Kind[disk[n]] \in {"pe", "pdf"} /\ <<n, disk[n]>> \in tried'
              \/ Kind[disk[n]] \in {"gzip", "other"}
              \/ Kind[disk[n]] = "archive" /\ \A m \in Members(disk[n]) : m \in handled
<1>1. TypeInv /\ PresentInv /\ FilterInv
    BY DEF KnownInv
<1>2. ASSUME NEW i \in Names, LoopNext(i) \/ MemberNext(i)
      PROVE  Kind[disk[n]] \in {"gzip", "other"} /\ UNCHANGED <<disk, reused>>
    <2>1. Enters(i)
        BY <1>1, <1>2, LoopFacts DEF Skips
    <2>2. filter_file(i) /\ disk[i] # None
        BY <1>1, <2>1, InTop DEF Enters
    <2>3. /\ Kind[disk[i]] \in {"gzip", "other"} /\ handled' = handled \cup {i} /\ disk' = disk
          /\ reused' = reused \cup Overwritten(disk, disk')
        BY <1>1, <2>2, FilterFacts
    <2> QED BY <2>3 DEF Overwritten
<1>3. ASSUME NEW d \in Dropped, Close(d) \/ \E c \in Contents : Drop(d, c) PROVE FALSE
    BY <1>3 DEF Close, Drop, history
<1>4. ASSUME NEW d \in Names, Scanner(d) PROVE FALSE
    BY <1>4 DEF Scanner, history
<1>5. ASSUME Listed \/ SophosAsk \/ SophosRaises \/ SigBad \/ UNCHANGED vars PROVE FALSE
    BY <1>5 DEF Listed, SophosAsk, SophosRaises, SigBad, vars, history
<1>6. CASE LoopEnd
    <2>1. /\ stack # << >> /\ Len(stack) > 1 /\ n = Top.file /\ Top.left = {} /\ pc = "next"
          /\ UNCHANGED <<disk, reused>>
        BY <1>1, <1>6 DEF LoopEnd, PresentInv
    <2>2. Len(stack) \in Nat
        BY <1>1 DEF TypeInv
    <2> PICK k \in Nat : k = Len(stack)
        BY <2>2
    <2>3. OpenInv(k) /\ InHand(k) = {} /\ n = stack[k].file /\ stack[k].left = {}
        BY <2>1, <2>2 DEF StackInv, InHand, Filtering, Top, Last
    <2>4. Kind[disk[n]] = "archive" /\ \A m \in Members(disk[n]) : m \in handled
        BY <2>1, <2>3 DEF OpenInv, Members
    <2> QED BY <2>1, <2>4
<1>7. CASE SophosRead
    <2>1. n = cur /\ n \in called' /\ UNCHANGED <<disk, reused>> /\ pc = "wait"
        BY <1>7 DEF SophosRead, Return
    <2>2. Kind[disk[n]] = "pe"
        BY <1>1, <2>1 DEF FilterInv, Filtering
    <2> QED BY <2>1, <2>2
<1>8. CASE SigOk
    <2>1. n = cur /\ disk[n] \in Signed /\ UNCHANGED <<disk, reused>> /\ pc = "sig"
        BY <1>8 DEF SigOk, Return
    <2>2. Kind[disk[n]] = "pe"
        BY <1>1, <2>1 DEF FilterInv, Filtering
    <2> QED BY <2>1, <2>2
<1>9. CASE Send
    <2>1. n = cur /\ <<n, disk[n]>> \in tried' /\ UNCHANGED <<disk, reused>> /\ pc = "send"
        BY <1>9 DEF Send, Return
    <2>2. Kind[disk[n]] \in {"pe", "pdf"}
        BY <1>1, <2>1 DEF FilterInv, Filtering
    <2> QED BY <2>1, <2>2
<1> QED BY <1>2, <1>3, <1>4, <1>5, <1>6, <1>7, <1>8, <1>9 DEF Next, Monitor

JudgedInv == KnownInv /\ StackInv /\ \A n \in handled \ reused : JudgedFile(n)

LEMMA NextJudged == JudgedInv /\ [Next]_vars => JudgedInv'
<1> SUFFICES ASSUME JudgedInv, [Next]_vars PROVE JudgedInv'
    OBVIOUS
<1>1. KnownInv /\ StackInv /\ KnownInv' /\ StackInv' /\ Stable /\ PresentInv
    BY NextKnown, NextStack, NextStable DEF JudgedInv, KnownInv
<1>2. ASSUME NEW n \in handled', n \notin reused' PROVE JudgedFile(n)'
    <2>1. CASE n \in handled
        <3>1. JudgedFile(n) /\ n \in Present
            BY <1>1, <1>2, <2>1 DEF JudgedInv, Stable, PresentInv
        <3>2. /\ disk'[n] = disk[n] /\ called \subseteq called' /\ tried \subseteq tried'
              /\ handled \subseteq handled'
            BY <1>1, <1>2, <3>1 DEF Stable
        <3> QED BY <3>1, <3>2 DEF JudgedFile
    <2>2. CASE n \notin handled
        <3>1. handled \subseteq handled'
            BY <1>1 DEF Stable
        <3> QED BY <1>1, <1>2, <2>2, <3>1, HandledStep DEF JudgedFile
    <2> QED BY <2>1, <2>2
<1> QED BY <1>1, <1>2 DEF JudgedInv

\* When filter_file has returned, a program was called a virus, has a trusted
\* signature or was uploaded, a PDF was uploaded, and every member of an archive was
\* treated likewise, whatever the other processes drop meanwhile.
THEOREM JudgedCorrect == Spec => []Judged
<1>1. Init => JudgedInv
    <2> SUFFICES ASSUME Init PROVE JudgedInv
        OBVIOUS
    <2>1. Len(stack) = 0 /\ handled = {}
        BY DEF Init
    <2> QED BY <2>1, InitKnown DEF JudgedInv, StackInv
<1>2. JudgedInv => Judged
    <2> SUFFICES ASSUME JudgedInv, NEW n \in handled \ reused
                 PROVE  LET c == disk[n]
                        IN  /\ Kind[c] = "pe" => n \in called \/ c \in Signed \/ <<n, c>> \in tried
                            /\ Kind[c] = "pdf" => <<n, c>> \in tried
                            /\ Kind[c] = "archive" =>
                                 \A m \in Unpacked : Inside[c][m] # None => m \in handled
        BY DEF Judged
    <2>1. JudgedFile(n)
        BY DEF JudgedInv
    <2> QED BY <2>1 DEF JudgedFile, Members
<1> QED BY <1>1, <1>2, NextJudged, PTL DEF Spec
==============================================================================
