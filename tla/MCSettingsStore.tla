---------------------------- MODULE MCSettingsStore ----------------------------
(* Values of the constants of SettingsDurability for model checking.           *)
EXTENDS SettingsDurability, TLC

CONSTANTS k1, k2, v1, v2

KeySymmetry == Permutations(Keys)

\* Alignment 8: a u8 record is one unit, a u32 record two, a record header one.
SizesAlign8 == v1 :> 1 @@ v2 :> 2

\* Alignment 4: a u8 record is two units, a u32 record three, a record header two.
SizesAlign4 == v1 :> 2 @@ v2 :> 3

Banks22 == "A" :> 2 @@ "B" :> 2
Banks32 == "A" :> 3 @@ "B" :> 2
Banks33 == "A" :> 3 @@ "B" :> 3
Banks43 == "A" :> 4 @@ "B" :> 3
===============================================================================
