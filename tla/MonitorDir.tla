----------------------------- MODULE MonitorDir -----------------------------
(***************************************************************************)
(* The cloud agent's directory monitor (monitordir.py): a loop that lists a *)
(* directory, and for every file that no process has open and that it has   *)
(* not seen before asks the virus scanner and the signature checker, unpacks *)
(* archives and uploads what is left.  The processes that drop files and    *)
(* the scanner, which reads names from a FIFO and appends its verdicts to a *)
(* file, run beside it.                                                     *)
(*                                                                         *)
(* A file is its path and what it holds (an element of Contents); what the  *)
(* monitor appends to a file is kept in `marked'.  Archives are unpacked    *)
(* into one directory that is never emptied.  An exception is caught nowhere *)
(* and ends the monitor (pc = "dead"): an archive that does not unpack, one  *)
(* that holds an archive and so is unpacked without end, and an answer of    *)
(* the scanner that is missing or malformed.                                 *)
(***************************************************************************)
EXTENDS Naturals, Sequences, SequencesExt

CONSTANTS Dropped,    \* paths in the monitored directory
          Unpacked,   \* paths in /tmp/decompression
          Contents,   \* what a file may hold
          Kind,       \* [Contents -> Kinds], what libmagic says of it
          Inside,     \* [Contents -> what each unpacked path then holds]
          Virus,      \* the contents in which the scanner finds a virus
          Signed,     \* the contents with a trusted signature
          None,       \* no file
          MaxWrites,  \* bound on how often a file is dropped
          MaxDepth    \* Python's limit on nested calls

Names == Dropped \cup Unpacked

\* "gzip" is a compressed file that is neither a tar nor a zip archive, "broken"
\* an archive whose extraction fails (cut short, encrypted, damaged).
Kinds == {"pe", "pdf", "archive", "broken", "gzip", "other"}

ASSUME MonitorAssumption ==
    /\ Dropped \cap Unpacked = {}
    /\ None \notin Contents
    /\ Kind \in [Contents -> Kinds]
    /\ Inside \in [Contents -> [Unpacked -> Contents \cup {None}]]
    /\ Virus \subseteq Contents /\ Signed \subseteq Contents
    /\ MaxWrites \in Nat /\ MaxDepth \in Nat \ {0, 1}

VARIABLES disk,      \* what each path holds
          using,     \* the paths that a writer has open
          marked,    \* the files to which the monitor has appended a line
          filedone,  \* the list filedone
          stack,     \* the for loops that are running, innermost last
          cur, pc,   \* the file in filter_file, and where it is
          fifo,      \* names on their way to the scanner
          out, made, \* the lines of /tmp/sophos_out, and whether it exists
          writes,    \* how many files have been dropped
          tried,     \* history: the files, with their contents, uploaded
          called,    \* history: the files that were called a virus
          handled,   \* history: the files for which filter_file has returned
          reused,    \* history: the paths that have held two contents
          fatal      \* history: a file that ends the monitor has been dropped
vars == <<disk, using, marked, filedone, stack, cur, pc, fifo, out, made, writes,
          tried, called, handled, reused, fatal>>

history == <<tried, called, handled>>

Init ==
    /\ disk = [n \in Names |-> None]
    /\ using = {} /\ marked = {} /\ filedone = {} /\ fifo = {} /\ reused = {}
    /\ stack = <<>> /\ out = <<>> /\ writes = 0
    /\ cur = None /\ pc = "sleep"
    /\ tried = {} /\ called = {} /\ handled = {}
    /\ made \in BOOLEAN /\ fatal = FALSE

\* The paths an archive is unpacked to.
Members(c) == {n \in Unpacked : Inside[c][n] # None}

\* Contents that the monitor does not survive.
Fatal(c) == \/ Kind[c] = "broken"
            \/ Kind[c] = "archive" /\ \E m \in Members(c) : Kind[Inside[c][m]] \in {"archive", "broken"}

\* Paths that hold one content in d and another in e.
Overwritten(d, e) == {n \in Names : d[n] # None /\ d[n] # e[n]}

-----------------------------------------------------------------------------
(* The other processes *)

Drop(n, c) ==
    /\ writes < MaxWrites
    /\ n \notin using
    /\ disk' = [disk EXCEPT ![n] = c]
    /\ using' = using \cup {n}
    /\ marked' = marked \ {n}
    /\ reused' = IF disk[n] = None THEN reused ELSE reused \cup {n}
    /\ writes' = writes + 1
    /\ fatal' = (fatal \/ Fatal(c))
    /\ UNCHANGED <<filedone, stack, cur, pc, fifo, out, made>> /\ UNCHANGED history

Close(n) ==
    /\ n \in using
    /\ using' = using \ {n}
    /\ UNCHANGED <<disk, marked, filedone, stack, cur, pc, fifo, out, made, writes, reused,
                   fatal>>
    /\ UNCHANGED history

\* The scanner takes a name and appends a line with its verdict, or one that
\* int() refuses.
Malformed == 3
Scanner(n) ==
    /\ n \in fifo
    /\ fifo' = fifo \ {n}
    /\ \E v \in {IF disk[n] \in Virus THEN 1 ELSE 0, Malformed} :
          out' = Append(out, <<n, v>>)
    /\ made' = TRUE
    /\ UNCHANGED <<disk, using, marked, filedone, stack, cur, pc, writes, reused, fatal>>
    /\ UNCHANGED history

-----------------------------------------------------------------------------
(* run_loop *)

\* A new round: the directory is listed.
Listed ==
    /\ pc = "sleep"
    /\ stack' = <<[file |-> None, left |-> {n \in Dropped : disk[n] # None}]>>
    /\ pc' = "next"
    /\ UNCHANGED <<disk, using, marked, filedone, cur, fifo, out, writes, reused>>
    /\ UNCHANGED history

Top == Last(stack)
Rest(i) == [stack EXCEPT ![Len(stack)].left = @ \ {i}]

\* What extractall leaves in the directory: every member, or, when it fails, some.
Extracted(c) == CASE Kind[c] = "archive" -> {Members(c)}
                  [] Kind[c] = "broken"  -> SUBSET Members(c)
                  [] OTHER               -> {{}}

\* The entry of filter_file(i): libmagic decides; an archive is unpacked and
\* everything that is now in the directory is filtered in turn.  Nothing catches
\* what extractall raises, nor Python's error when the calls are nested too deep.
filter_file(i) ==
    LET c == disk[i]
    IN  \E S \in Extracted(c) :
        /\ cur' = i
        /\ disk' = [n \in Names |-> IF n \in S THEN Inside[c][n] ELSE disk[n]]
        /\ reused' = reused \cup Overwritten(disk, disk')
        /\ marked' = marked \ S
        /\ stack' = IF Kind[c] = "archive"
                    THEN Append(Rest(i), [file |-> i,
                                          left |-> {n \in Unpacked : disk'[n] # None}])
                    ELSE Rest(i)
        /\ handled' = IF Kind[c] \in {"gzip", "other"}
                      THEN handled \cup {i} ELSE handled
        /\ pc' = CASE Kind[c] = "pe" -> "sophos"
                   [] Kind[c] = "pdf" -> "send"
                   [] Kind[c] = "broken" -> "dead"
                   [] OTHER -> IF Len(stack') > MaxDepth THEN "dead" ELSE "next"

\* Variant: the name is noted before the test whether the file is open.
LoopNext_NotedFirst(i) ==
    /\ pc = "next" /\ Len(stack) = 1 /\ i \in Top.left
    /\ filedone' = filedone \cup {i}
    /\ IF i \in using \/ i \in filedone
       THEN stack' = Rest(i) /\ UNCHANGED <<disk, marked, cur, pc, handled, reused>>
       ELSE filter_file(i)
    /\ UNCHANGED <<using, fifo, out, writes, tried, called>>

\* The next file of the listing.
LoopNext(i) ==
    /\ pc = "next" /\ Len(stack) = 1 /\ i \in Top.left
    /\ IF i \in using \/ i \in filedone
       THEN /\ stack' = Rest(i)
            /\ UNCHANGED <<disk, marked, filedone, cur, pc, handled, reused>>
       ELSE filedone' = filedone \cup {i} /\ filter_file(i)
    /\ UNCHANGED <<using, fifo, out, writes, tried, called>>

\* The next file of an archive.
MemberNext(i) ==
    /\ pc = "next" /\ Len(stack) > 1 /\ i \in Top.left
    /\ filter_file(i)
    /\ UNCHANGED <<using, filedone, fifo, out, writes, tried, called>>

\* Variant: the call returns after the first member of an archive.
LoopEnd_FirstOnly ==
    /\ pc = "next" /\ (Top.left = {} \/ (Len(stack) > 1 /\ cur # Top.file))
    /\ stack' = Front(stack)
    /\ handled' = IF Len(stack) > 1 THEN handled \cup {Top.file} ELSE handled
    /\ pc' = IF Len(stack) > 1 THEN "next" ELSE "sleep"
    /\ UNCHANGED <<disk, using, marked, filedone, cur, fifo, out, writes, tried,
                   called, reused>>

\* A for loop is at its end: filter_file of the archive returns, or the round
\* is over.
LoopEnd ==
    /\ pc = "next" /\ Top.left = {}
    /\ stack' = Front(stack)
    /\ handled' = IF Len(stack) > 1 THEN handled \cup {Top.file} ELSE handled
    /\ pc' = IF Len(stack) > 1 THEN "next" ELSE "sleep"
    /\ UNCHANGED <<disk, using, marked, filedone, cur, fifo, out, writes, tried,
                   called, reused>>

-----------------------------------------------------------------------------
(* filter_file, on the file cur *)

Return == pc' = "next" /\ handled' = handled \cup {cur}

\* sophos_it: the name goes to the scanner ...
SophosAsk ==
    /\ pc = "sophos"
    /\ fifo' = fifo \cup {cur}
    /\ pc' = "wait"
    /\ UNCHANGED <<disk, using, marked, filedone, stack, cur, out, writes, reused>>
    /\ UNCHANGED history

\* Variant: no answer within six seconds counts as clean.
Verdict_LateIsClean ==
    LET line == SelectInSeq(out, LAMBDA l : l[1] = cur)
    IN  IF line = 0 THEN 0 ELSE out[line][2]

\* ... and six seconds later the first line with that name is its verdict; 2
\* when there is none yet.
Verdict ==
    LET line == SelectInSeq(out, LAMBDA l : l[1] = cur)
    IN  IF line = 0 THEN 2 ELSE out[line][2]

\* Any result but 0 is a virus.  log_virus appends its line to the file itself.
SophosRead ==
    /\ pc = "wait" /\ made /\ Verdict # Malformed
    /\ IF Verdict # 0
       THEN /\ called' = called \cup {cur}
            /\ marked' = marked \cup {cur}
            /\ Return
       ELSE /\ pc' = "sig"
            /\ UNCHANGED <<called, marked, handled>>
    /\ UNCHANGED <<disk, using, filedone, stack, cur, fifo, out, writes, tried, reused>>

\* open() of a missing file, int() and the index of a malformed line raise.
SophosRaises ==
    /\ pc = "wait" /\ (~made \/ Verdict = Malformed)
    /\ pc' = "dead"
    /\ UNCHANGED <<disk, using, marked, filedone, stack, cur, fifo, out, writes, reused>>
    /\ UNCHANGED history

\* verify_sig, with either outcome for a signed file that has been appended to.
SigOk ==
    /\ pc = "sig" /\ disk[cur] \in Signed
    /\ marked' = marked \cup {cur}
    /\ Return
    /\ UNCHANGED <<disk, using, filedone, stack, cur, fifo, out, writes, tried,
                   called, reused>>

SigBad ==
    /\ pc = "sig" /\ (disk[cur] \notin Signed \/ cur \in marked)
    /\ pc' = "send"
    /\ UNCHANGED <<disk, using, marked, filedone, stack, cur, fifo, out, writes, reused>>
    /\ UNCHANGED history

\* send_to_clound; whether it succeeded is not looked at.
Send ==
    /\ pc = "send"
    /\ tried' = tried \cup {<<cur, disk[cur]>>}
    /\ Return
    /\ UNCHANGED <<disk, using, marked, filedone, stack, cur, fifo, out, writes,
                   called, reused>>

Monitor ==
    /\ UNCHANGED <<made, fatal>>
    /\ \/ Listed \/ LoopEnd
       \/ \E i \in Names : LoopNext(i) \/ MemberNext(i)
       \/ SophosAsk \/ SophosRead \/ SophosRaises \/ SigOk \/ SigBad \/ Send

Next ==
    \/ Monitor
    \/ \E n \in Dropped, c \in Contents : Drop(n, c)
    \/ \E n \in Dropped : Close(n)
    \/ \E n \in Names : Scanner(n)

\* The loop runs for ever; the scanner may be slow and a writer may keep its
\* file open.
Spec == Init /\ [][Next]_vars /\ WF_vars(Monitor)

-----------------------------------------------------------------------------
\* A program in which the scanner finds a virus is not uploaded, however late
\* the scanner answers, unless its path has held something else before: then
\* the first line with that path may be about the other file.
VirusNotSent ==
    \A n \in Names, c \in Virus :
        Kind[c] = "pe" /\ <<n, c>> \in tried => n \in reused

\* Step 4 of the description at the head of monitordir.py: when filter_file has
\* returned, a program was called a virus, has a trusted signature or was uploaded, a
\* PDF was uploaded, and every member of an archive has been treated likewise.
Judged ==
    \A n \in handled \ reused :
        LET c == disk[n]
        IN  /\ Kind[c] = "pe" => n \in called \/ c \in Signed \/ <<n, c>> \in tried
            /\ Kind[c] = "pdf" => <<n, c>> \in tried
            /\ Kind[c] = "archive" =>
                   \A m \in Unpacked : Inside[c][m] # None => m \in handled

\* What ends the monitor: a file that cannot be unpacked, or no usable answer of
\* the scanner.
Fault == fatal \/ ~made \/ \E k \in 1 .. Len(out) : out[k][2] = Malformed

\* A file that is in the directory and is not kept open is handled sooner or
\* later, however slow the scanner is, unless the monitor ends; and it ends only
\* if a broken archive or an archive of archives was dropped (decompress.py:20-27),
\* or the scanner's output is missing or malformed (sophos.py:20, 25).
EachFileHandled ==
    \A n \in Dropped :
        <>[](disk[n] # None /\ n \notin using)
        => <>(n \in handled \/ (pc = "dead" /\ Fault))
=============================================================================
