------------------------ MODULE MCInstructionReader ------------------------
(* Instructions with up to two arguments, whose contents look like the      *)
(* notation around them.                                                    *)
EXTENDS InstructionReader

MCTexts == {<<>>, <<1>>, <<Semicolon>>, <<Dot, 1>>, <<Comma, Letter, 0>>}

MCVocabulary ==
  UNION {{<<<<Letter>>>>}, {<<<<>>, a>> : a \in MCTexts},
         {<<<<Letter, Letter>>, a, b>> : a, b \in MCTexts}}
=============================================================================
