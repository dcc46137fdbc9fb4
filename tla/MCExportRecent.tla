---------------------------- MODULE MCExportRecent ----------------------------
(* The runs of export_db a small instance asks for.                           *)
EXTENDS ExportRecent

(* A full export, with auto_delete or -delete, bare -recent and -recent 1, and
   a run narrowed by -type and one by -my.                                   *)
FullExport == [recent |-> "none", days |-> 0, names |-> Items, mine |-> FALSE,
               delete |-> FALSE, sweep |-> TRUE]
FewRequests == {FullExport, [FullExport EXCEPT !.delete = TRUE],
                [FullExport EXCEPT !.recent = "last"],
                [FullExport EXCEPT !.recent = "days", !.days = 1],
                [FullExport EXCEPT !.names = Dated],
                [FullExport EXCEPT !.recent = "last", !.mine = TRUE]}
=============================================================================
