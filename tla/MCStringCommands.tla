-------------------------- MODULE MCStringCommands --------------------------
(* StringCommands on a small instance: a text that is its own number, a text *)
(* that int() reads as the same number, and a text that is no number.        *)
EXTENDS StringCommands, TLC

MCNumberOf == [t \in Texts |-> IF t = "abc" THEN NotANumber ELSE 7]
MCDecimal == [n \in {7} |-> "7"]
MCNumerals == [w \in {"-5", "0", "1"} |-> CASE w = "-5" -> -5 [] w = "0" -> 0 [] w = "1" -> 1]
Symmetry == Permutations(Keys)
=============================================================================
