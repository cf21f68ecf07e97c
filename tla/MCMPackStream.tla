------------------------------- MODULE MCMPackStream -------------------------------
(* The constants of the stream's runs: bytes of four values, buffers as small as the *)
(* longest tag allows, and pages that hold two builds.                               *)
EXTENDS MPackStream

MCScalars == {Tag("nil", 0), Tag("bool", 1), Number(300), Number(-3), Tag("float", 2)}
MCTexts == {<<1, 0>>, <<1, 2, 3, 1, 2, 3, 1, 2, 3, 1, 2>>}
MCNotUtf8 == {<<1, 2, 3, 1, 2, 3, 1, 2, 3, 1, 2>>}
MCIntTypes == {Integer(1, FALSE), Integer(8, TRUE)}
\* Four numbers share a float.
MCAsFloat(tag) == Tag("float", tag.value \div 4)
MCNegativeOne == -1
MCLucks == {-1, 1}
MCNoLuck == {-1}
====================================================================================
