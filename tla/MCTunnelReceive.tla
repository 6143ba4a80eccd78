-------------------------- MODULE MCTunnelReceive --------------------------
(* Instructions with up to two arguments, of contents that look like the   *)
(* notation around them.                                                    *)
EXTENDS TunnelReceive

MCId == <<Letter, 1>>

MCTexts == {<<>>, <<1>>, <<Semicolon>>, <<Dot, 1>>, <<Comma, Letter, 0>>}

MCVocabulary ==
  UNION {{<<<<Letter>>>>}, {<<<<Letter>>, a>> : a \in MCTexts},
         {<<<<Letter, Letter>>, a, b>> : a, b \in MCTexts}}
=============================================================================
