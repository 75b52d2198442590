----------------------------- MODULE AuditTrail -----------------------------
(***************************************************************************)
(* The JSONL file of one run: how a line lands in it (state/writes.ts) and *)
(* what its readers require of it (state/reads.ts).                        *)
(***************************************************************************)
EXTENDS Reconstruct

CONSTANTS MayTear,    \* TRUE: an append may stop part-way through its line
          MaxFaults   \* bound on failed appends

VARIABLES lines,      \* the lines of the file, in order
          open,       \* the last line has no newline yet
          faults      \* appends that failed so far

trailVars == <<lines, open, faults>>

ASSUME FaultAssumption == MayTear \in BOOLEAN /\ MaxFaults \in Nat

-----------------------------------------------------------------------------
(* tryAppendJsonl: appendFileSync of the row and a newline.                *)

Glued == [lines EXCEPT ![Len(lines)] = Garbled]

(* The append returns true.  Behind a line that was cut short the row      *)
(* lands on that same line, and the reader can parse neither.              *)
Landed(line) ==
  /\ lines' = IF open THEN Glued ELSE Append(lines, line)
  /\ open' = FALSE
  /\ UNCHANGED faults

(* The append throws: nothing was written, or a part of the line was: all  *)
(* but its newline (the line parses) or less (it does not).                *)
Torn(line) ==
  /\ MayTear
  /\ \/ open /\ lines' = Glued
     \/ ~open /\ \E l \in {line, Garbled} : lines' = Append(lines, l)
  /\ open' = TRUE

AppendFails(line) ==
  /\ faults < MaxFaults
  /\ faults' = faults + 1
  /\ UNCHANGED <<lines, open>> \/ Torn(line)

(* A writer that ignores the result of the append.                         *)
BestEffort(line) == Landed(line) \/ AppendFails(line)

(* readHeader parses the first line of the file and nothing else.          *)
HeaderReadable == lines # <<>> /\ lines[1].type = "header"
=============================================================================
