------------------------------ MODULE LatestImage ------------------------------
(***************************************************************************)
(* The latest image of one camera worker and its cached JPEG               *)
(* (ai-vm/app/camera_worker.py, _capture_loop and get_latest_jpeg).        *)
(*                                                                         *)
(* The capture thread counts a frame before it takes latest_frame_lock to  *)
(* swap it in; readers copy under the lock, encode outside it, and cache   *)
(* what they encoded if no frame was counted meanwhile.  A frame is its    *)
(* number; a cache entry is a JPEG of that frame for one quality.          *)
(***************************************************************************)
EXTENDS Integers

CONSTANTS
  Readers,    \* request threads and stream generators
  MaxImages   \* bound: frames read

ASSUME ImageAssumption == MaxImages \in Nat

VARIABLES
  frames,    \* frames_read
  latest,    \* the frame in latest_frame, 0 before the first
  swapping,  \* whether a counted frame is still to be swapped in
  cache,     \* _latest_jpeg_cache: <<version, frame>>
  copy,      \* what each reader is encoding: <<version, frame>>
  served     \* the last image each reader was given, 0 before

imageVars == <<frames, latest, swapping, cache, copy, served>>
NoJpeg == <<0, 0>>

ImageInit ==
  /\ frames = 0
  /\ latest = 0
  /\ swapping = FALSE
  /\ cache = NoJpeg
  /\ copy = [r \in Readers |-> NoJpeg]
  /\ served = [r \in Readers |-> 0]

\* A frame comes in: frames_read, then the frame under the lock.
CountFrame ==
  /\ ~swapping
  /\ frames < MaxImages
  /\ frames' = frames + 1
  /\ swapping' = TRUE
  /\ UNCHANGED <<latest, cache, copy, served>>

SwapFrame ==
  /\ swapping
  /\ latest' = frames
  /\ swapping' = FALSE
  /\ cache' = NoJpeg
  /\ UNCHANGED <<frames, copy, served>>

Serve(r, f) == served' = [served EXCEPT ![r] = f]

\* Under the lock: no image yet, the cached JPEG of this version, or a copy.
ServeCached(r) ==
  /\ copy[r] = NoJpeg
  /\ latest # 0
  /\ cache[1] = frames
  /\ Serve(r, cache[2])
  /\ UNCHANGED <<frames, latest, swapping, cache, copy>>

CopyFrame(r) ==
  /\ copy[r] = NoJpeg
  /\ latest # 0
  /\ cache[1] # frames
  /\ copy' = [copy EXCEPT ![r] = <<frames, latest>>]
  /\ UNCHANGED <<frames, latest, swapping, cache, served>>

\* Mutant: the version is read again when the JPEG is stored.
StoreAsNewest(r) == cache' = <<frames, copy[r][2]>>

\* The JPEG is cached only under the version it was copied at, if still current.
StoreIfCurrent(r) == cache' = IF copy[r][1] = frames THEN copy[r] ELSE cache

\* The copy is encoded (or encoding fails and nothing is served).
Encoded(r) ==
  /\ copy[r] # NoJpeg
  /\ StoreIfCurrent(r)
  /\ Serve(r, copy[r][2])
  /\ copy' = [copy EXCEPT ![r] = NoJpeg]
  /\ UNCHANGED <<frames, latest, swapping>>

EncodeFailed(r) ==
  /\ copy[r] # NoJpeg
  /\ copy' = [copy EXCEPT ![r] = NoJpeg]
  /\ UNCHANGED <<frames, latest, swapping, cache, served>>

ImageNext ==
  \/ CountFrame \/ SwapFrame
  \/ \E r \in Readers : ServeCached(r) \/ CopyFrame(r) \/ Encoded(r) \/ EncodeFailed(r)

ImageSpec == ImageInit /\ [][ImageNext]_imageVars

-----------------------------------------------------------------------------
ImageTypeOK ==
  /\ frames \in 0 .. MaxImages
  /\ latest \in 0 .. MaxImages
  /\ swapping \in BOOLEAN
  /\ cache \in (0 .. MaxImages) \X (0 .. MaxImages)
  /\ copy \in [Readers -> (0 .. MaxImages) \X (0 .. MaxImages)]
  /\ served \in [Readers -> 0 .. MaxImages]

\* A JPEG that would be served from the cache is of the latest frame or of
\* the one before: a reader between the counter and the swap may cache the old
\* frame under the new number, after the swap has cleared the cache.
CacheAtMostOneBehind ==
  cache[1] = frames /\ frames # 0 => cache[2] \in {frames - 1, frames}
=============================================================================
