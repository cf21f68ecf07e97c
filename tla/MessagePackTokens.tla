----------------------------- MODULE MessagePackTokens -----------------------------
(* MessagePack as a sequence of tokens: what the serializers write. A map or an    *)
(* array is a token with the count that the writer announced.                      *)
EXTENDS Integers, Sequences

Map(n) == [kind |-> "map", count |-> n]
Array(n) == [kind |-> "array", count |-> n]
Key(name) == [kind |-> "key", name |-> name]
Scalar(name, v) == [kind |-> "scalar", name |-> name, value |-> v]
Pair(name, tokens) == <<Key(name)>> \o tokens
Field(name, v) == Pair(name, <<Scalar(name, v)>>)
When(condition, tokens) == IF condition THEN tokens ELSE <<>>
Count(condition) == IF condition THEN 1 ELSE 0

\* What a token asks for behind it: a map of n asks for 2n values, an array for n.
Asks(token) ==
    CASE token.kind = "map" -> 2 * token.count
      [] token.kind = "array" -> token.count
      [] token.kind \in {"key", "scalar"} -> 0

\* One value is due at first. The tokens are one value when something is due before
\* each and nothing at the end; -1 when something comes that is not due.
OneValue(tokens) ==
    LET due[i \in 0..Len(tokens)] ==
            IF i = 0 THEN 1
            ELSE LET before == due[i - 1]
                 IN  IF before > 0 THEN before - 1 + Asks(tokens[i]) ELSE -1
    IN  due[Len(tokens)] = 0
====================================================================================
