----------------------------- MODULE MCDiscovery -----------------------------
(* An instance of Discovery for TLC. *)
EXTENDS Discovery, TLC

CONSTANTS v1, v2, v3, r1, r2, boot, data, lun, cut, iso, nfs, lost

\* A repository on OCFS2 and one that is not.
MCMount      == r1 :> <<"/", "1">> @@ r2 :> <<"/", "2">>
MCFilesystem == r1 :> "ocfs2" @@ r2 :> "nfs"
MCHome       == v1 :> r2 @@ v2 :> r1 @@ v3 :> Nil
MCObjectType == [n \in Names |-> IF n = iso THEN "VIRTUAL_CDROM" ELSE "VIRTUAL_DISK"]

DiskLine(kind, top, name) == [kind |-> kind, dir |-> <<"/", top, "/", "v">>, name |-> name]

\* v1 is accepted, with a physical disk, which is passed over, between its images.
\* v2 has a line that is cut short and a disk that is not on OCFS2, v3 a cdrom image
\* and a disk in no repository.
MCConfig ==
    v1 :> <<DiskLine("file", "1", boot), DiskLine("phy", "3", lun), DiskLine("file", "1", data)>> @@
    v2 :> <<DiskLine("short", "1", cut), DiskLine("file", "2", nfs)>> @@
    v3 :> <<DiskLine("file", "1", iso), DiskLine("file", "3", lost)>>
=============================================================================
