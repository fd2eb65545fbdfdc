--------------------------- MODULE MCDelveChannel ---------------------------
(* Answers and greetings for the runs of DelveChannel. *)
EXTENDS DelveChannel

\* What looks like a prompt comes last, or first.
AnyShape == {<<FALSE, TRUE>>, <<TRUE, FALSE>>}

\* Answers that end with their prompt.
PromptLast == {<<TRUE>>, <<FALSE, TRUE>>}
Silent == {<<>>}
SilentOrPrompt == {<<>>, <<TRUE>>}
=============================================================================
