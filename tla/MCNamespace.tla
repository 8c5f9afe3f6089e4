---------------------------- MODULE MCNamespace ----------------------------
EXTENDS NamespaceProperties, TLC

=============================================================================
