---------------------------- MODULE MCCertRenewer ---------------------------
(***************************************************************************)
(* The certbot unit, the catalog-heal unit and an operator; one domain of  *)
(* nginx's and one that is yet to be registered.                           *)
(***************************************************************************)
EXTENDS CertRenewer

MCListed == {<<>>, <<"www">>}

=============================================================================
