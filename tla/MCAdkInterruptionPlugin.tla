----------------------- MODULE MCAdkInterruptionPlugin -----------------------
(* The plugin's loop over every request of up to MaxLen contents.           *)
EXTENDS AdkInterruptionPlugin

MCWord == {"yes", "say", "no", Quote}

\* A plain sentence, and one that quotes a word.
MCText == {<<"yes">>, <<"say", Quote, "no", Quote>>}
=============================================================================
