---------------------------- MODULE EchoService ----------------------------
(***************************************************************************)
(* What client and server together promise the user at the terminal: the   *)
(* greeting comes first and once, and after it echoes of the commands that *)
(* were typed, in the order they were typed and each at most once.         *)
(*                                                                         *)
(* A command may stay without an answer; which ones do is module           *)
(* EchoSystem.  Once bytes of a replaced message have reached the client   *)
(* (TcpConnection::send during a write), nothing is promised.              *)
(***************************************************************************)
EXTENDS Naturals, Sequences, SequencesExt

CONSTANT LineKinds

VARIABLES
    lines,     \* the lines typed, by kind
    answers,   \* what was shown: 0 for the greeting, k for the echo of line k
    broken     \* damaged bytes have reached the client

vars == <<lines, answers, broken>>

Init ==
    /\ lines = <<>>
    /\ answers = <<>>
    /\ broken = FALSE

Type ==
    /\ \E kind \in LineKinds : lines' = Append(lines, kind)
    /\ UNCHANGED <<answers, broken>>

Greet ==
    /\ answers = <<>>
    /\ answers' = <<0>>
    /\ UNCHANGED <<lines, broken>>

Answer(k) ==
    /\ answers # <<>> /\ Last(answers) < k
    /\ lines[k] = "echo"
    /\ answers' = Append(answers, k)
    /\ UNCHANGED <<lines, broken>>

Break == broken'

Next == Type \/ Greet \/ (\E k \in DOMAIN lines : Answer(k)) \/ Break

Spec == Init /\ [][Next]_vars

=============================================================================
