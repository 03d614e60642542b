--------------------------------- MODULE MCChat ---------------------------------
(* A small instance of the chat rooms alone.                               *)
EXTENDS Chat
=============================================================================
