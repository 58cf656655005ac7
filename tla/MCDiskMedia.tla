---------------------------- MODULE MCDiskMedia ----------------------------
(* A writable image, a write-protected one and one that is no ADF; any may  *)
(* be the boot image.                                                       *)
EXTENDS DiskMedia

CONSTANTS rw, ro, bad

MCImages    == {rw, ro, bad}
MCUsable    == {rw, ro}
MCProtected == {ro}
=============================================================================
