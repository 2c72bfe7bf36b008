------------------------------- MODULE MCGuard --------------------------------
(* Small instances of Guard: a guard that blocks on errors, and a callback   *)
(* of LangChain that does not, each with an API key of its own.              *)
EXTENDS Guard, TLC

TwoKeys == "careful" :> "k1" @@ "watching" :> "k2"
ThreeCalls == "c1" :> "careful" @@ "c2" :> "watching" @@ "c3" :> "watching"
TwoPromptsFirst == "c1" :> 2 @@ "c2" :> 1 @@ "c3" :> 1

==============================================================================
