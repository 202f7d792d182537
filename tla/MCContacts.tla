----------------------------- MODULE MCContacts -----------------------------
(* Three addresses, two of which share a bucket, and three categories, two  *)
(* of which do.                                                             *)
EXTENDS Contacts, TLC

CONSTANTS ip1, ip2, ip3, c1, c2, c3

MCIps == {ip1, ip2, ip3}
MCCategories == {c1, c2, c3}
MCUserBucket == ip1 :> 1 @@ ip2 :> 1 @@ ip3 :> 2
MCCategoryBucket == c1 :> 1 @@ c2 :> 1 @@ c3 :> 2
MCMaxEntries == 5
=============================================================================
