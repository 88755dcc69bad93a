-------------------------------- MODULE RxPut ---------------------------------
(***************************************************************************)
(* A file is pushed to a box by commands that may be answered, fail, or    *)
(* lose their answer (rxput.sh, by way of rxrun.sh).  A transport error    *)
(* says nothing about the command: it may not have run, have run, or still *)
(* run while the next attempt, or the next command, already does.          *)
(***************************************************************************)
EXTENDS Naturals, Sequences

CONSTANTS
  Chunks,  (* of the file, as base64                                       *)
  Tries,   (* RXRUN_TRIES                                                  *)
  Losses   (* bound: transport errors                                      *)

ASSUME PutAssumption == Chunks \in Nat \ {0} /\ Tries \in Nat \ {0} /\ Losses \in Nat

VARIABLES
  put,     (* "runs", or what it ended with: "ok", "failed"                *)
  command, (* the one it is at: 0 truncates, Chunks + 1 decodes           *)
  tried,   (* attempts of that command                                     *)
  staged,  (* the chunks in $dst.b64                                       *)
  dst,     (* the chunks the file was decoded from                         *)
  late,    (* the commands that may still run, though their answer is lost *)
  overtook, (* history: of those, the ones that did, later than they should  *)
  losses

putVars == <<put, command, tried, staged, dst, late, overtook, losses>>

Truncate == 0
Decode   == Chunks + 1
Whole    == [i \in 1 .. Chunks |-> i]

PutInit ==
  /\ put = "runs" /\ command = Truncate /\ tried = 0
  /\ staged \in {<<>>, Whole}  \* of an earlier push
  /\ dst = <<>>
  /\ late = {} /\ overtook = {} /\ losses = 0

\* What a command does to the box: ": > $dst.b64", "printf >> $dst.b64",
\* "base64 -d < $dst.b64 > $dst".  A chunk twice decodes as well.
Runs(c) ==
  /\ staged' = CASE c = Truncate -> <<>>
                 [] c = Decode   -> staged
                 [] OTHER        -> Append(staged, c)
  /\ dst' = IF c = Decode THEN staged ELSE dst

NotRun == UNCHANGED <<staged, dst>>

\* Mutant of Verdict: the answer alone decides.
Trusted == "ok"

\* The checksum that the decoding command answers with is compared.
Verdict == IF dst' = Whole THEN "ok" ELSE "failed"

\* rc 0
Answered ==
  /\ put = "runs" /\ Runs(command)
  /\ IF command = Decode THEN put' = Verdict /\ UNCHANGED command
                     ELSE command' = command + 1 /\ UNCHANGED put
  /\ tried' = 0
  /\ UNCHANGED <<late, overtook, losses>>

\* A transport error: the same command again, up to Tries times.  That it gives
\* up in the end is an exit code like any other.
Lost ==
  /\ put = "runs"
  /\ losses < Losses /\ losses' = losses + 1
  /\ IF tried + 1 < Tries THEN tried' = tried + 1 /\ UNCHANGED put
                          ELSE tried' = 0 /\ put' = "failed"
  /\ \/ NotRun /\ UNCHANGED late
     \/ Runs(command) /\ UNCHANGED late
     \/ NotRun /\ late' = late \cup {<<command, losses>>}
  /\ UNCHANGED <<command, overtook>>

\* The box is gone, or the command fails on it: not tried again.
Refused ==
  /\ put = "runs" /\ put' = "failed" /\ tried' = 0
  /\ NotRun /\ UNCHANGED <<command, late, overtook, losses>>

\* A command whose answer was lost runs after all.
RunsLate ==
  /\ \E l \in late : Runs(l[1]) /\ late' = late \ {l} /\ overtook' = overtook \cup {l[1]}
  /\ UNCHANGED <<put, command, tried, losses>>

PutNext == Answered \/ Lost \/ Refused \/ RunsLate

PutSpec == PutInit /\ [][PutNext]_putVars

-----------------------------------------------------------------------------
\* A file that rxput has called ok is whole, and stays so, unless two commands
\* it had given up on have run behind its back: one that changed the staged
\* chunks, and one that decoded them.  A chunk appended twice, or an answer lost
\* after the command ran, never passes for a delivered file.
PushedIsWhole ==
  put = "ok" =>
    \/ dst = Whole
    \/ Decode \in overtook /\ overtook \ {Decode} # {}

=============================================================================
