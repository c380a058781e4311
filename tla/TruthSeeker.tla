---------------------------- MODULE TruthSeeker ----------------------------
(***************************************************************************)
(* TruthSeeker's proof page: a session logs in, has ZKPassport prove an    *)
(* identity, puts the proof on IPFS, has Ethereum and then Hyli verify it, *)
(* records a video and has the steganography server write the CID of the   *)
(* proof into it.  Each step is a handler that awaits somebody else; the   *)
(* page may be reloaded or left at any time and finds its state again in   *)
(* the session storage.                                                    *)
(***************************************************************************)
EXTENDS Steganography

CONSTANTS
    CidOf,         \* the CID of each proof that may be generated, in order
    FrameCounts,   \* how many frames a recorded video may have
    NoProof

VARIABLES
    step,          \* currentStep
    page,          \* "proof" or "camera"
    zk,            \* zkProofData[0]
    verified,      \* onChainVerified
    data,          \* proofData: the CID uploaded and the proof submitted on Hyli
    uploaded,      \* ipfsUploadResult.cid
    inProgress,    \* requestInProgress
    requests,      \* the ZKPassport requests whose callbacks are to come
    call,          \* what a handler with isProcessing set awaits
    recorded,      \* whether recorded_video is in the session storage
    made,          \* how many proofs were generated
    video,         \* the last video finished, with the proof on chain then
    strayed        \* the user or the network left the path (history)

sessionVars == <<step, page, zk, verified, data, uploaded, inProgress, requests, call,
                 recorded, made, video, strayed>>

Idling == [op |-> "none", proof |-> NoProof]
NoVideo == [done |-> FALSE, mp4 |-> <<>>, damaged |-> {}, proof |-> NoProof]
Processing == call # Idling

TruthInit ==
    /\ step = 0
    /\ page = "proof"
    /\ zk = NoProof /\ verified = FALSE
    /\ data = [cid |-> NoProof, onchain |-> NoProof]
    /\ uploaded = NoProof
    /\ inProgress = FALSE
    /\ requests = {}
    /\ call = Idling
    /\ recorded = FALSE
    /\ made = 0
    /\ video = NoVideo
    /\ strayed = FALSE

----------------------------------------------------------------------------
(* Leaving and coming back.  The storage holds what the page shows; when    *)
(* the process completed it was cleared, but the effect that saves          *)
(* proofData ran once more after that.                                      *)

Stored == IF step = 5 THEN 0 ELSE step

\* The page is mounted: callbacks and awaits of its former life are gone.
Mount(s) ==
    /\ page' = "proof"
    /\ requests' = {} /\ inProgress' = FALSE /\ call' = Idling
    /\ step' = s
    /\ IF step = 5
       THEN zk' = NoProof /\ verified' = FALSE /\ uploaded' = NoProof
       ELSE UNCHANGED <<zk, verified, uploaded>>
    /\ UNCHANGED <<data, made, video>>

Reload ==
    /\ page = "proof"
    /\ Mount(Stored)
    /\ UNCHANGED <<recorded, strayed>>

ToCamera ==
    /\ page' = "camera"
    /\ requests' = {} /\ inProgress' = FALSE /\ call' = Idling
    /\ UNCHANGED <<step, zk, verified, data, uploaded, recorded, made, video>>

handleNavigateToCamera ==
    /\ page = "proof" /\ step = 3
    /\ data.onchain # NoProof
    /\ ToCamera
    /\ UNCHANGED strayed

\* The camera page is open to everybody.
VisitCamera ==
    /\ page = "proof"
    /\ ToCamera
    /\ strayed' = TRUE

\* The recording is stored; back on the page the effect goes to step 4, whether or not
\* the proof was verified.
RecordVideo ==
    /\ page = "camera"
    /\ Mount(4)
    /\ recorded' = TRUE
    /\ UNCHANGED strayed

LeaveCamera ==
    /\ page = "camera"
    /\ Mount(Stored)
    /\ UNCHANGED <<recorded, strayed>>

----------------------------------------------------------------------------

handleHyliLogin ==
    /\ page = "proof" /\ step = 0
    /\ step' = 1
    /\ UNCHANGED <<page, zk, verified, data, uploaded, inProgress, requests, call, recorded,
                   made, video, strayed>>

\* A request is made, or fails to be.  An earlier one may still be with Ethereum:
\* requestInProgress is cleared after the upload.
handleZKPassportVerification ==
    /\ page = "proof" /\ step = 1
    /\ ~inProgress /\ ~Processing
    /\ zk' = NoProof /\ verified' = FALSE
    /\ \/ /\ requests' = requests \cup {[proof |-> NoProof, stage |-> "waiting"]}
          /\ inProgress' = TRUE
       \/ UNCHANGED <<requests, inProgress>>
    /\ strayed' = (strayed \/ requests # {})
    /\ UNCHANGED <<step, page, data, uploaded, call, recorded, made, video>>

\* onProofGenerated, up to the upload.
onProofGenerated(r) ==
    /\ r \in requests /\ r.stage = "waiting"
    /\ made < Len(CidOf)
    /\ made' = made + 1
    /\ requests' = (requests \ {r}) \cup {[proof |-> made + 1, stage |-> "uploading"]}
    /\ zk' = made + 1
    /\ UNCHANGED <<step, page, verified, data, uploaded, inProgress, call, recorded, video,
                   strayed>>

\* onReject, onError
onReject(r) ==
    /\ r \in requests /\ r.stage = "waiting"
    /\ requests' = requests \ {r}
    /\ inProgress' = FALSE
    /\ UNCHANGED <<step, page, zk, verified, data, uploaded, call, recorded, made, video, strayed>>

\* Mutant of WithUpload: the first CID of a session is kept.
WithUpload_KeepsFirst(d, p) == IF d.cid = NoProof THEN [d EXCEPT !.cid = p] ELSE d

WithUpload(d, p) == [d EXCEPT !.cid = p]

\* lib/pinata-service: the CID of what was uploaded, if it was and the CID is valid.
uploadProofToIPFS(p, ok) == IF ok THEN p ELSE NoProof

\* The upload is done, or failed, which leaves the CID of an earlier proof in place.
uploadProofToIPFS_Action(r, ok) ==
    /\ r \in requests /\ r.stage = "uploading"
    /\ uploaded' = uploadProofToIPFS(r.proof, ok)
    /\ data' = IF uploaded' # NoProof THEN WithUpload(data, uploaded') ELSE data
    /\ requests' = (requests \ {r}) \cup {[r EXCEPT !.stage = "verifying"]}
    /\ inProgress' = FALSE
    /\ strayed' = (strayed \/ ~ok)
    /\ UNCHANGED <<step, page, zk, verified, call, recorded, made, video>>

\* Ethereum's answer.
onEthereumResult(r, ok) ==
    /\ r \in requests /\ r.stage = "verifying"
    /\ requests' = requests \ {r}
    /\ verified' = ok
    /\ step' = IF ok THEN 2 ELSE step
    /\ UNCHANGED <<page, zk, data, uploaded, inProgress, call, recorded, made, video, strayed>>

handleOnchainVerification ==
    /\ page = "proof" /\ step = 2
    /\ verified /\ ~Processing
    /\ zk # NoProof
    /\ call' = [op |-> "submit", proof |-> zk]
    /\ UNCHANGED <<step, page, zk, verified, data, uploaded, inProgress, requests, recorded,
                   made, video, strayed>>

\* zkpassport_verify (server/src/app.rs) sends the blob and answers with the hash of its
\* transaction, which nobody there waits for, or with an error.
zkpassport_verify(c, ok) == IF ok THEN [c EXCEPT !.op = "poll"] ELSE Idling

submitToHyliNetwork(ok) ==
    /\ call.op = "submit"
    /\ call' = zkpassport_verify(call, ok)
    /\ UNCHANGED <<step, page, zk, verified, data, uploaded, inProgress, requests, recorded,
                   made, video, strayed>>

\* pollTransactionStatus returns; that it gave up is only logged.
PollReturns ==
    /\ call.op = "poll"
    /\ data' = [data EXCEPT !.onchain = call.proof]
    /\ step' = 3
    /\ call' = Idling
    /\ UNCHANGED <<page, zk, verified, uploaded, inProgress, requests, recorded, made, video,
                   strayed>>

handleSteganographicProcessing ==
    LET cid == IF data.cid # NoProof THEN data.cid ELSE uploaded IN
    /\ page = "proof" /\ step = 4
    /\ recorded /\ ~Processing
    /\ cid # NoProof
    /\ call' = [op |-> "encrypt", proof |-> cid]
    /\ UNCHANGED <<step, page, zk, verified, data, uploaded, inProgress, requests, recorded,
                   made, video, strayed>>

\* The server's answer.  The page shows the video; the storage is cleared (step 5).
encryptVideo(n, damaged, fails) ==
    LET answer == encrypt_endpoint(n, CidOf[call.proof], damaged, fails) IN
    /\ call.op = "encrypt"
    /\ call' = Idling
    /\ IF answer.ok
       THEN /\ video' = [done |-> TRUE, mp4 |-> answer.mp4, damaged |-> damaged,
                         proof |-> data.onchain]
            /\ step' = 5
            /\ recorded' = FALSE
       ELSE UNCHANGED <<video, step, recorded>>
    /\ UNCHANGED <<page, zk, verified, data, uploaded, inProgress, requests, made, strayed>>

TruthNext ==
    \/ Reload \/ handleNavigateToCamera \/ VisitCamera \/ RecordVideo \/ LeaveCamera
    \/ handleHyliLogin
    \/ handleZKPassportVerification
    \/ \E r \in requests : onProofGenerated(r) \/ onReject(r)
    \/ \E r \in requests, ok \in BOOLEAN : uploadProofToIPFS_Action(r, ok) \/ onEthereumResult(r, ok)
    \/ handleOnchainVerification
    \/ \E ok \in BOOLEAN : submitToHyliNetwork(ok)
    \/ PollReturns
    \/ handleSteganographicProcessing
    \/ \E n \in FrameCounts : \E damaged \in SUBSET (1..n + 1), fails \in BOOLEAN :
           encryptVideo(n, damaged, fails)

----------------------------------------------------------------------------

\* A finished video tells the proof that was submitted on chain: what the decrypt
\* endpoint reads from it starts with the marker and the CID of that very proof, in
\* whatever order requests were refused, verified, retried, interrupted by a reload or
\* followed by another session in the same tab.  Sessions are left out in which a
\* request was made while Ethereum still looked at the former one's proof, an upload
\* failed, or the camera page was opened by its address, and videos whose first frame
\* the compression damaged.
VideoTellsProof ==
    video.done /\ ~strayed /\ 1 \notin video.damaged =>
        /\ video.proof # NoProof
        /\ Tells(decrypt_endpoint(video.mp4), CidOf[video.proof])
=============================================================================
