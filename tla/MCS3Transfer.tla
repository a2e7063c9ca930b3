---------------------------- MODULE MCS3Transfer ----------------------------
(* Instances of S3Transfer for TLC: key 3 is no image, keys 1, 4 and 6 end  *)
(* in the same name.                                                        *)
EXTENDS S3Transfer

MCImages == Keys \ {3}
MCNames  == {"a", "b", "c"}
MCNameOf == [k \in Keys |-> IF k \in {1, 4, 6} THEN "a"
                            ELSE IF k = 2 THEN "b" ELSE "c"]
=============================================================================
