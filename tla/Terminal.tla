------------------------------ MODULE Terminal ------------------------------
(***************************************************************************)
(* What the console promises about its input: characters are edited in a   *)
(* line of their own, become readable only when the line is ended (or the  *)
(* room is used up), and are then read in order, each once.  An end of     *)
(* file is taken only by a call that got nothing, so that a reader sees it *)
(* as a call that returns 0.                                               *)
(***************************************************************************)
EXTENDS Integers, Sequences, SequencesExt

CONSTANTS Readers, Room, Chars, NewLine, Eof

VARIABLES
    line,   \* the readable characters
    edit,   \* the line being typed
    got     \* got[p]: the characters p's call has been given

tvars == <<line, edit, got>>

TermInit == line = <<>> /\ edit = <<>> /\ got = [p \in Readers |-> 0]

Type(c) ==
    /\ Len(line) + Len(edit) < Room
    /\ IF c \in {NewLine, Eof} \/ Len(line) + Len(edit) + 1 = Room
         THEN line' = line \o Append(edit, c) /\ edit' = <<>>
         ELSE edit' = Append(edit, c) /\ UNCHANGED line
    /\ UNCHANGED got

Erase    == edit # <<>> /\ edit' = Front(edit) /\ UNCHANGED <<line, got>>
KillLine == edit' = <<>> /\ UNCHANGED <<line, got>>

Give(p) ==
    /\ line # <<>> /\ Head(line) # Eof
    /\ line' = Tail(line) /\ got' = [got EXCEPT ![p] = @ + 1]
    /\ UNCHANGED edit

GiveEof(p) ==
    /\ line # <<>> /\ Head(line) = Eof /\ got[p] = 0
    /\ line' = Tail(line)
    /\ UNCHANGED <<edit, got>>

Return(p) == got' = [got EXCEPT ![p] = 0] /\ UNCHANGED <<line, edit>>

TermNext ==
    \/ (\E c \in Chars : Type(c)) \/ Erase \/ KillLine
    \/ \E p \in Readers : Give(p) \/ GiveEof(p) \/ Return(p)

TermSpec == TermInit /\ [][TermNext]_tvars
=============================================================================
