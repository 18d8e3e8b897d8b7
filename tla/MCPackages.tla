----------------------------- MODULE MCPackages -----------------------------
(***************************************************************************)
(* A plugin whose second version has a third service and other images, and *)
(* whose third version depends on a service it does not have.              *)
(***************************************************************************)
EXTENDS Packages, TLC

CONSTANTS v1, v2, v3, app, db, queue, appImage, newAppImage, dbImage, queueImage

Has(image, deps) == [image |-> image, deps |-> deps]

ThreeVersions ==
    (v1 :> (app :> Has(appImage, <<db>>) @@ db :> Has(dbImage, <<>>))) @@
    (v2 :> (app :> Has(newAppImage, <<queue>>) @@ db :> Has(dbImage, <<>>)
            @@ queue :> Has(queueImage, <<db>>))) @@
    (v3 :> (app :> Has(newAppImage, <<queue>>)))

TwoFiles == <<"manifest", "boot">>
OfTheSubServices == {dbImage, queueImage}
OfGriffinGuard == {appImage, newAppImage}
=============================================================================
