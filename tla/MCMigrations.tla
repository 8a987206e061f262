--------------------------- MODULE MCMigrations ---------------------------
(***************************************************************************)
(* Finite instances of Migrations for TLC.                                 *)
(***************************************************************************)
EXTENDS Migrations, TLC

CONSTANTS m1, m2, m3, original, edited

Row(one, two, three) == (1 :> one) @@ (2 :> two) @@ (3 :> three)
History(shape, one, two, three) == [table |-> shape, rows |-> Row(one, two, three)]

(* m1 comes from a branch without file 2, m2 from the main line, m3 from an
   older image of one file, which was edited since. *)
ThreeImages == (m1 :> Row(original, None, original))
                 @@ (m2 :> Row(original, original, original))
                 @@ (m3 :> Row(edited, None, None))

(* Databases that a first start, a restart and an upgrade find, and databases
   earlier runners left in other shapes. *)
AnyHistory ==
    {History("absent", None, None, None),
     History("no checksum", None, None, None),
     History("no checksum", Unverified, None, None),
     History("nullable", Unverified, None, None),
     History("nullable", original, Unverified, None),
     History("nullable", original, edited, None),
     History("required", original, original, original)}
=============================================================================
