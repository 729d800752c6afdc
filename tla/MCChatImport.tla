---------------------------- MODULE MCChatImport ----------------------------
(* Instances of ChatImport for TLC. *)
EXTENDS ChatImport

CONSTANTS m1, m2, m3

\* An empty file; only skipped actions; a last batch that is not full; a
\* message that occurs twice, in one batch and across batches; a malformed
\* action after a batch was saved.
MCArtifacts ==
  {<<>>, <<"skipped">>, <<m1, m2, m3>>, <<m1, m1, m2>>, <<m2, "skipped", m1, m2>>,
   <<m1, m2, "malformed", m3>>}

\* The same replay in every attempt.
MCOneArtifact == {<<m1, m2, m3>>}
=============================================================================
