------------------------------ MODULE MCSettingValues ------------------------------
EXTENDS SettingValues
Flag == [bits |-> 1, signed |-> FALSE]
Small == [bits |-> 4, signed |-> TRUE]     \* narrower than int
Natural == [bits |-> 4, signed |-> FALSE]
Wide == [bits |-> 8, signed |-> TRUE]      \* as wide as int
MCTypes == <<Flag, Small, Natural, Wide>>
Optional(S) == {{}} \cup {{n} : n \in S}
Definition(t, default, min, max, step, options) ==
    [type |-> t, default |-> default, min |-> min, max |-> max, step |-> step, options |-> options,
     ids |-> [i \in DOMAIN options |-> "id"], isRange |-> FALSE]
MCDefinitions ==
    {Definition(Flag, 0, {}, {}, step, options) : step \in Optional({1}), options \in {<<>>, <<0, 1>>, <<1>>}}
    \cup {[Definition(Flag, 0, {}, {}, {}, <<0, 1>>) EXCEPT !.ids[2] = ""]}
    \cup UNION {{Definition(t, 1, min, max, step, options) : min \in Optional({1, Lowest(t), Lowest(t) + 2}),
                   max \in Optional({0, 5}), step \in Optional({0, 1, 2, 3}), options \in {<<>>, <<1, 4>>, <<4, 1, 1>>}}
                : t \in {Small, Natural, Wide}}
MCCandidates ==
    {[type |-> t, num |-> n] : t \in {Small, Wide}, n \in -8..7}
    \cup {[type |-> Natural, num |-> n] : n \in 0..15}
    \cup {[type |-> Wide, num |-> n] : n \in {-128, -100, 127}}
    \cup {[type |-> Flag, num |-> n] : n \in {0, 1}}
MCKeys == {[id |-> 18, scope |-> 1, instance |-> 3], [id |-> 0, scope |-> 0, instance |-> 4]}
MCMedia == {[alignment |-> 1, erased |-> 15, room |-> 9], [alignment |-> 4, erased |-> 0, room |-> 12],
            [alignment |-> 4, erased |-> 15, room |-> 8], [alignment |-> 0, erased |-> 15, room |-> 12]}
====================================================================================
