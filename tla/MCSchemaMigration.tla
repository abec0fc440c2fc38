------------------------ MODULE MCSchemaMigration ------------------------
(* Instances of SchemaMigration for TLC. *)
EXTENDS SchemaMigration

\* The file does not exist when the first server starts.
StartFresh == {NoFile}

\* The file is new, or was written by any earlier release.
StartAny == {NoFile} \cup 0 .. currentSchemaVersion
=============================================================================
