--------------------------- MODULE MCSessionStore ----------------------------
(* A worker's stamp and a rendition change racing the restarts, the stop   *)
(* and the scans of one session.                                           *)
EXTENDS SessionStore, TLC

CONSTANTS SetWorkerInfo, SetSelectedRendition, List, DeleteByMedia

MCMut == {SetWorkerInfo, SetSelectedRendition}
MCField == {"worker", "activity", "rendition"}
MCFieldsOf == SetWorkerInfo :> {"worker"}
              @@ SetSelectedRendition :> {"rendition", "activity"}
MCCanSkip == {SetSelectedRendition}
MCScan == {List, DeleteByMedia}
MCDeletes == {DeleteByMedia}
=============================================================================
