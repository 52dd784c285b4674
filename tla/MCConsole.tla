----------------------------- MODULE MCConsole ------------------------------
EXTENDS Console

CONSTANTS ann, bob

AllKinds == {KeysPage, CollectionsPage, CollectionsManagement}
=============================================================================
