------------------------- MODULE VulkanWindowPresenter -------------------------
(***************************************************************************)
(* VulkanWindowPresenter for one window: the event thread attaches it,     *)
(* redraws it, detaches it and shuts the presenter down, one Vulkan call   *)
(* at a time, while the GPU executes what was submitted and the compositor *)
(* shows and gives back images.  Any call may fail, the device may be      *)
(* lost, and the surface may go out of date between any two calls.         *)
(*                                                                         *)
(* A fence is reset, pending (a queued operation will signal it) or        *)
(* signaled; so is a semaphore, as far as the code can tell.               *)
(***************************************************************************)
EXTENDS Naturals, FiniteSets, Sequences

CONSTANTS
  Images,                   (* the images of a swapchain                    *)
  NoImage,
  Sizes,                    (* framebuffer sizes other than zero            *)
  MaxFaults                 (* calls that fail (bound)                      *)

Frames == 0..1              (* FramesInFlight                               *)
NoFrame == 2
Zero == 0                   (* a framebuffer or surface without an area     *)

ASSUME VulkanAssumption == /\ Images # {} /\ NoImage \notin Images
                           /\ Sizes \subseteq Nat \ {Zero}
                           /\ MaxFaults \in Nat

VARIABLES
  cpu,                      (* the call of the event thread: its place and its locals *)
  live,                     (* the Vulkan objects that exist, and "retired" *)
                            (* when the swapchain may no longer be used     *)
  window,                   (* the rest of PresentedWindow                  *)
  frame,                    (* FrameResources: fence and semaphore          *)
  image,                    (* the arrays of PresentedWindow, and who has the image *)
  submitted,                (* what the graphics queue has not executed     *)
  presenting,               (* the images whose presentation is not over    *)
  stopped,
  lost,                     (* the device is lost                           *)
  faults

gpu == <<submitted, presenting>>
presenterVars == <<cpu, live, window, frame, image, gpu, stopped, lost, faults>>

WindowObjects == {"surface", "buffers", "sync0", "sync1", "swapchain", "retired",
                  "replacement"}
NewFrame == [complete |-> "signaled", available |-> "reset"]
NewImage == [owner |-> "engine", finished |-> "reset", complete |-> "reset", pending |-> FALSE, inFlight |-> NoFrame]
Unattached == [attached |-> FALSE, failed |-> FALSE, extent |-> Zero, frameIndex |-> 0]
NoCall == [at |-> "idle", call |-> "none", size |-> Zero, extent |-> Zero, attempt |-> 0,
           image |-> NoImage, suboptimal |-> FALSE]

PresenterInit == /\ cpu = NoCall /\ live = {} /\ window = Unattached
        /\ frame = [f \in Frames |-> NewFrame]
        /\ image = [i \in Images |-> NewImage]
        /\ submitted = <<>> /\ presenting = {}
        /\ stopped = FALSE /\ lost = FALSE /\ faults = 0

At(place) == cpu.at = place
Goes(place) == cpu' = [cpu EXCEPT !.at = place]
Has(object) == object \in live
objects == <<live, frame, image>>

(* A call fails, by itself or because the device is lost.                    *)
Fault == \/ lost /\ UNCHANGED faults
         \/ ~lost /\ faults < MaxFaults /\ faults' = faults + 1

(* Nothing executes on a lost device, and nothing is in use any more.        *)
DeviceLost == /\ Has("device") /\ ~lost /\ faults < MaxFaults
              /\ lost' = TRUE /\ faults' = faults + 1
              /\ submitted' = <<>> /\ presenting' = {}
              /\ UNCHANGED <<cpu, objects, window, stopped>>

-----------------------------------------------------------------------------
(* DestroyPresentedWindow and DestroySwapchain, and what follows them.       *)
Forgotten == [i \in Images |-> NewImage]

(* vkDeviceWaitIdle waits for the queue, not for the compositor.             *)
DeviceIsIdle == submitted = <<>>
PresentationIsOver == lost \/ \A i \in Images : image[i].pending => image[i].complete = "signaled"

DestroyPresentedWindow ==
  /\ At("destroyWindow")
  /\ "device" \in live => DeviceIsIdle /\ PresentationIsOver
  /\ live' = live \ WindowObjects
  /\ window' = Unattached
  /\ frame' = [f \in Frames |-> NewFrame] /\ image' = Forgotten
  /\ IF cpu.call = "shutdown" THEN Goes("destroyDevice") ELSE cpu' = NoCall
  /\ UNCHANGED <<gpu, stopped, lost, faults>>

(* The loop of RedrawPresentedWindow makes a second attempt, and no third.   *)
TriesAgain == cpu' = IF cpu.attempt = 0 THEN [cpu EXCEPT !.at = "redraw", !.call = "redraw", !.attempt = 1]
                     ELSE NoCall

(* A surface without an area keeps no swapchain.                             *)
DestroySwapchain ==
  /\ At("destroySwapchain")
  /\ Has("swapchain") => DeviceIsIdle
  /\ PresentationIsOver
  /\ live' = live \ {"swapchain"}
  /\ window' = [window EXCEPT !.extent = Zero, !.frameIndex = IF Has("swapchain") THEN 0 ELSE @]
  /\ image' = Forgotten
  /\ IF cpu.call = "again" THEN TriesAgain ELSE cpu' = NoCall
  /\ UNCHANGED <<frame, gpu, stopped, lost, faults>>

Fails == Goes("destroyWindow")

-----------------------------------------------------------------------------
(* AttachWindow.  The instance and the device are made for the first window  *)
(* and stay.                                                                 *)
BeginAttach ==
  /\ At("idle") /\ ~stopped /\ ~window.attached
  /\ \E size \in Sizes \cup {Zero} :
       cpu' = [NoCall EXCEPT !.at = "instance", !.call = "attach", !.size = size]
  /\ UNCHANGED <<objects, window, gpu, stopped, lost, faults>>

Made(object, next) == live' = live \cup {object} /\ Goes(next) /\ UNCHANGED faults

EnsureInstance ==
  /\ At("instance")
  /\ \/ Made("instance", "surface")
     \/ ~Has("instance") /\ Fault /\ cpu' = NoCall /\ UNCHANGED live
  /\ UNCHANGED <<window, frame, image, gpu, stopped, lost>>

CreateSurface ==
  /\ At("surface")
  /\ \/ Made("surface", "device")
     \/ Fault /\ cpu' = NoCall /\ UNCHANGED live
  /\ UNCHANGED <<window, frame, image, gpu, stopped, lost>>

EnsureDevice ==
  /\ At("device")
  /\ \/ Has("device") /\ Goes("support") /\ UNCHANGED <<live, faults>>
     \/ ~Has("device") /\ Made("device", "pool")
     \/ ~Has("device") /\ Fault /\ Fails /\ UNCHANGED live
  /\ UNCHANGED <<window, frame, image, gpu, stopped, lost>>

CreateCommandPool ==
  /\ At("pool")
  /\ \/ Made("pool", "support") /\ UNCHANGED lost
     \/ Fault /\ Fails /\ live' = live \ {"device"} /\ lost' = FALSE
  /\ UNCHANGED <<window, frame, image, gpu, stopped>>

ValidatePresentationSupport ==
  /\ At("support")
  /\ \/ Goes("buffers") /\ UNCHANGED faults
     \/ Fault /\ Fails
  /\ UNCHANGED <<objects, window, gpu, stopped, lost>>

(* The command buffers, then a semaphore and a fence for each frame.         *)
CreateFrameResources ==
  /\ cpu.at \in {"buffers", "sync0", "sync1"}
  /\ \/ /\ At("sync1") /\ Made("sync1", IF cpu.size = Zero THEN "idle" ELSE "query")
        /\ window' = [window EXCEPT !.attached = TRUE]
     \/ At("sync0") /\ Made("sync0", "sync1") /\ UNCHANGED window
     \/ At("buffers") /\ Made("buffers", "sync0") /\ UNCHANGED window
     \/ /\ Fault /\ Fails
        /\ \/ UNCHANGED live
           \/ ~At("buffers") /\ live' = live \cup {cpu.at}      (* the semaphore exists *)
        /\ UNCHANGED window
  /\ UNCHANGED <<frame, image, gpu, stopped, lost>>

-----------------------------------------------------------------------------
(* RecreateSwapchain.                                                        *)
RecreateFails == IF cpu.call = "attach" THEN Fails ELSE cpu' = NoCall
Recreated == CASE cpu.call = "attach" -> cpu' = NoCall
               [] cpu.call = "redraw" -> Goes("present")
               [] cpu.call = "again" -> TriesAgain

(* The surface dictates the extent, or leaves it to the window.              *)
QuerySurface ==
  /\ At("query")
  /\ \/ \E extent \in Sizes :
          cpu' = [cpu EXCEPT !.at = "waitDevice", !.extent = extent] /\ UNCHANGED faults
     \/ Goes("destroySwapchain") /\ UNCHANGED faults
     \/ Fault /\ RecreateFails
  /\ UNCHANGED <<objects, window, gpu, stopped, lost>>

WaitDevice ==
  /\ At("waitDevice")
  /\ \/ ~lost /\ DeviceIsIdle /\ Goes("waitPresentation")
     \/ lost /\ RecreateFails
  /\ UNCHANGED <<objects, window, gpu, stopped, lost, faults>>

(* The fences stay signaled; their swapchain goes next.                      *)
WaitForPresentation ==
  /\ At("waitPresentation")
  /\ \/ /\ ~lost /\ PresentationIsOver
        /\ image' = [i \in Images |-> [image[i] EXCEPT !.pending = FALSE]]
        /\ Goes("create")
     \/ /\ lost
        /\ \E done \in SUBSET {i \in Images : image[i].complete = "signaled"} :
             image' = [i \in Images |-> [image[i] EXCEPT !.pending = @ /\ i \notin done]]
        /\ RecreateFails
  /\ UNCHANGED <<live, window, frame, gpu, stopped, lost, faults>>

(* The attempt retires the old swapchain, even when it fails ...             *)
Retires == IF Has("swapchain") THEN {"retired"} ELSE {}

CreateSwapchain ==
  /\ At("create")
  /\ Goes("retire")
  /\ \/ live' = live \cup Retires \cup {"replacement"} /\ UNCHANGED faults
     \/ live' = live \cup Retires /\ Fault
  /\ UNCHANGED <<window, frame, image, gpu, stopped, lost>>

Replaced == /\ live' = live \ {"swapchain", "retired"}
            /\ window' = [window EXCEPT !.extent = Zero, !.frameIndex = IF Has("swapchain") THEN 0 ELSE @]
            /\ image' = Forgotten

KeepsRetired ==
  /\ At("retire")
  /\ \/ Has("replacement") /\ Replaced /\ Goes("imageSync")
     \/ ~Has("replacement") /\ RecreateFails /\ UNCHANGED <<live, window, image>>
  /\ UNCHANGED <<frame, gpu, stopped, lost, faults>>

(* ... and so it goes before anyone looks at the result.                     *)
RetireSwapchain ==
  /\ At("retire")
  /\ Replaced
  /\ IF Has("replacement") THEN Goes("imageSync") ELSE RecreateFails
  /\ UNCHANGED <<frame, gpu, stopped, lost, faults>>

(* Its images, semaphores and fences; a failure destroys the replacement.    *)
InstallSwapchain ==
  /\ At("imageSync")
  /\ \/ /\ live' = (live \ {"replacement"}) \cup {"swapchain"}
        /\ window' = [window EXCEPT !.extent = cpu.extent, !.frameIndex = 0, !.failed = FALSE]
        /\ Recreated
        /\ UNCHANGED faults
     \/ /\ Fault
        /\ live' = live \ {"replacement"}
        /\ RecreateFails
        /\ UNCHANGED window
  /\ UNCHANGED <<frame, image, gpu, stopped, lost>>

-----------------------------------------------------------------------------
(* RedrawWindow and PresentOnce.                                             *)
BeginRedraw ==
  /\ At("idle") /\ ~stopped /\ window.attached /\ ~window.failed
  /\ \E size \in Sizes \cup {Zero} :
       cpu' = [NoCall EXCEPT !.call = "redraw", !.size = size,
                 !.at = IF size = Zero THEN "destroySwapchain" ELSE "redraw"]
  /\ UNCHANGED <<objects, window, gpu, stopped, lost, faults>>

Redraw ==
  /\ At("redraw")
  /\ Goes(IF Has("swapchain") /\ window.extent = cpu.size THEN "present" ELSE "query")
  /\ UNCHANGED <<objects, window, gpu, stopped, lost, faults>>

CurrentFrame == window.frameIndex
Fatal == /\ cpu' = NoCall
         /\ window' = [window EXCEPT !.failed = TRUE]
OutOfDate == cpu' = [cpu EXCEPT !.at = "query", !.call = "again", !.image = NoImage, !.suboptimal = FALSE]

ResetsEarly ==
  /\ At("present")
  /\ \/ /\ ~lost /\ frame[CurrentFrame].complete = "signaled" /\ Goes("acquire")
        /\ frame' = [frame EXCEPT ![CurrentFrame].complete = "reset"]
        /\ UNCHANGED window
     \/ lost /\ Fatal /\ UNCHANGED frame
  /\ UNCHANGED <<live, image, gpu, stopped, lost, faults>>

WaitForFrame ==
  /\ At("present")
  /\ \/ ~lost /\ frame[CurrentFrame].complete = "signaled" /\ Goes("acquire") /\ UNCHANGED window
     \/ lost /\ Fatal
  /\ UNCHANGED <<objects, gpu, stopped, lost, faults>>

Acquire ==
  /\ At("acquire")
  /\ \/ /\ ~lost
        /\ \E i \in Images, suboptimal \in BOOLEAN :
             /\ image[i].owner = "engine"
             /\ image' = [image EXCEPT ![i].owner = "code"]
             /\ frame' = [frame EXCEPT ![CurrentFrame].available = "signaled"]
             /\ cpu' = [cpu EXCEPT !.at = "waitImage", !.image = i, !.suboptimal = suboptimal]
        /\ UNCHANGED <<window, faults>>
     \/ ~lost /\ OutOfDate /\ UNCHANGED <<window, frame, image, faults>>
     \/ Fault /\ Fatal /\ UNCHANGED <<frame, image>>
  /\ UNCHANGED <<live, gpu, stopped, lost>>

CurrentImage == cpu.image

(* The frame that drew this image last, if it is another one.                *)
OtherFrame == {image[CurrentImage].inFlight} \cap (Frames \ {CurrentFrame})

WaitForImage ==
  /\ At("waitImage")
  /\ \/ /\ ~lost
        /\ \A f \in OtherFrame : frame[f].complete = "signaled"
        /\ Goes("waitShown")
        /\ UNCHANGED window
     \/ lost /\ OtherFrame # {} /\ Fatal
     \/ lost /\ OtherFrame = {} /\ Goes("waitShown") /\ UNCHANGED window
  /\ UNCHANGED <<objects, gpu, stopped, lost, faults>>

SkipsPresentation ==
  /\ At("waitShown")
  /\ Goes("record")
  /\ UNCHANGED <<objects, window, gpu, stopped, lost, faults>>

WaitForPresented ==
  /\ At("waitShown")
  /\ \/ ~image[CurrentImage].pending /\ Goes("record") /\ UNCHANGED <<image, window>>
     \/ image[CurrentImage].pending /\ lost /\ Fatal /\ UNCHANGED image
     \/ /\ image[CurrentImage].pending /\ ~lost
        /\ image[CurrentImage].complete = "signaled"
        /\ image' = [image EXCEPT ![CurrentImage].complete = "reset", ![CurrentImage].pending = FALSE]
        /\ Goes("record")
        /\ UNCHANGED window
  /\ UNCHANGED <<live, frame, gpu, stopped, lost, faults>>

(* The command buffer is recorded anew, and only then is the fence reset.    *)
ResetCommandBuffer ==
  /\ At("record")
  /\ \/ Goes("clear") /\ UNCHANGED <<window, faults>>
     \/ Fault /\ Fatal
  /\ UNCHANGED <<objects, gpu, stopped, lost>>

RecordClear ==
  /\ At("clear")
  /\ \/ Goes("reset") /\ UNCHANGED <<window, faults>>
     \/ Fault /\ Fatal
  /\ UNCHANGED <<objects, gpu, stopped, lost>>

ResetFrame ==
  /\ At("reset")
  /\ \/ /\ frame' = [frame EXCEPT ![CurrentFrame].complete = "reset"]
        /\ Goes("submit")
        /\ UNCHANGED <<window, faults>>
     \/ Fault /\ Fatal /\ UNCHANGED frame
  /\ UNCHANGED <<live, image, gpu, stopped, lost>>

Submit ==
  /\ At("submit")
  /\ \/ /\ ~lost
        /\ submitted' = Append(submitted, [frame |-> CurrentFrame, image |-> CurrentImage])
        /\ frame' = [frame EXCEPT ![CurrentFrame].complete = "pending"]
        /\ image' = [image EXCEPT ![CurrentImage].inFlight = CurrentFrame, ![CurrentImage].finished = "pending"]
        /\ Goes("queuePresent")
        /\ UNCHANGED <<window, faults>>
     \/ Fault /\ Fatal /\ UNCHANGED <<submitted, frame, image>>
  /\ UNCHANGED <<live, presenting, stopped, lost>>

Results == {"success", "suboptimal", "outOfDate", "surfaceLost"}
OnlyWhenShown(result) == result \in {"success", "suboptimal"}
PresentWasEnqueued(result) == result \in Results
AsGood(result) == result = "success" /\ ~cpu.suboptimal

Present ==
  /\ At("queuePresent")
  /\ \/ /\ ~lost
        /\ \E result \in Results :
             /\ presenting' = presenting \cup {CurrentImage}
             /\ image' = [image EXCEPT ![CurrentImage].owner = "queue", ![CurrentImage].complete = "pending",
                                       ![CurrentImage].pending = @ \/ PresentWasEnqueued(result)]
             /\ \/ (result = "surfaceLost" \/ AsGood(result)) /\ cpu' = NoCall
                \/ result # "surfaceLost" /\ ~AsGood(result) /\ OutOfDate
             /\ window' = [window EXCEPT !.frameIndex = (CurrentFrame + 1) % Cardinality(Frames),
                                         !.failed = (result = "surfaceLost")]
        /\ UNCHANGED faults
     \/ /\ Fault
        /\ cpu' = NoCall
        /\ window' = [window EXCEPT !.frameIndex = (CurrentFrame + 1) % Cardinality(Frames), !.failed = TRUE]
        /\ UNCHANGED <<presenting, image>>
  /\ UNCHANGED <<live, frame, submitted, stopped, lost>>

-----------------------------------------------------------------------------
(* DetachWindow and Shutdown.                                                *)
DetachWindow ==
  /\ At("idle") /\ window.attached
  /\ cpu' = [NoCall EXCEPT !.at = "destroyWindow", !.call = "detach"]
  /\ UNCHANGED <<objects, window, gpu, stopped, lost, faults>>

Shutdown ==
  /\ At("idle") /\ ~stopped
  /\ stopped' = TRUE
  /\ cpu' = [NoCall EXCEPT !.call = "shutdown",
                         !.at = IF window.attached THEN "destroyWindow" ELSE "destroyDevice"]
  /\ UNCHANGED <<objects, window, gpu, lost, faults>>

DestroyDevice ==
  /\ At("destroyDevice")
  /\ live' = live \ {"pool", "device", "instance"}
  /\ cpu' = NoCall
  /\ UNCHANGED <<window, frame, image, gpu, stopped, lost, faults>>

-----------------------------------------------------------------------------
(* The GPU and the compositor.                                               *)
Execute ==
  /\ submitted # <<>>
  /\ LET work == Head(submitted) IN
       /\ submitted' = Tail(submitted)
       /\ frame' = [frame EXCEPT ![work.frame].complete = "signaled", ![work.frame].available = "reset"]
       /\ image' = [image EXCEPT ![work.image].finished = "signaled"]
  /\ UNCHANGED <<cpu, live, window, presenting, stopped, lost, faults>>

(* A shown image comes back, and its fence is signaled, in any order.        *)
Show(i) ==
  /\ i \in presenting /\ image[i].finished = "signaled"
  /\ image' = [image EXCEPT ![i].finished = "reset"]
  /\ UNCHANGED <<cpu, live, window, frame, gpu, stopped, lost, faults>>

GiveBack(i) ==
  /\ image[i].owner = "queue" /\ image[i].finished = "reset"
  /\ image' = [image EXCEPT ![i].owner = "engine"]
  /\ UNCHANGED <<cpu, live, window, frame, gpu, stopped, lost, faults>>

SignalPresented(i) ==
  /\ i \in presenting /\ image[i].finished = "reset"
  /\ presenting' = presenting \ {i}
  /\ image' = [image EXCEPT ![i].complete = "signaled"]
  /\ UNCHANGED <<cpu, live, window, frame, submitted, stopped, lost, faults>>

Compositor == \E i \in Images : Show(i) \/ GiveBack(i) \/ SignalPresented(i)

Attaching == EnsureInstance \/ CreateSurface \/ EnsureDevice \/ CreateCommandPool
             \/ ValidatePresentationSupport \/ CreateFrameResources
Recreating == QuerySurface \/ WaitDevice \/ WaitForPresentation \/ CreateSwapchain \/ RetireSwapchain
              \/ InstallSwapchain
Presenting == Redraw \/ WaitForFrame \/ Acquire \/ WaitForImage \/ WaitForPresented
              \/ ResetCommandBuffer \/ RecordClear \/ ResetFrame \/ Submit \/ Present
Destroying == DestroyPresentedWindow \/ DestroySwapchain \/ DestroyDevice
EventThread == Attaching \/ Recreating \/ Presenting \/ Destroying

PresenterNext == \/ BeginAttach \/ BeginRedraw \/ DetachWindow \/ Shutdown
        \/ EventThread \/ Execute \/ Compositor \/ DeviceLost

(* The event thread runs, the GPU executes what it has, and the compositor   *)
(* shows and gives back what it is given.                                    *)
PresenterSpec == PresenterInit /\ [][PresenterNext]_presenterVars /\ WF_presenterVars(EventThread) /\ WF_presenterVars(Execute)
        /\ \A i \in Images : WF_presenterVars(Show(i)) /\ WF_presenterVars(GiveBack(i)) /\ WF_presenterVars(SignalPresented(i))

-----------------------------------------------------------------------------
(* What the GPU or the compositor still uses exists: the frame and the image *)
(* of a submission, and the swapchain of a presentation                      *)
(* (WaitForPresentation, DestroyPresentedWindow).                            *)
UsedIsAlive ==
  /\ submitted # <<>> => {"swapchain", "buffers", "sync0", "sync1", "pool"} \subseteq live
  /\ presenting # {} => {"swapchain", "surface", "device"} \subseteq live

(* Each call finds its fences and semaphores as Vulkan requires: nothing is  *)
(* signaled twice, reset while pending, or recorded while it executes; and a *)
(* retired swapchain is neither drawn to nor replaced (PresentOnce,          *)
(* RecreateSwapchain).                                                       *)
CallsAreValid ==
  /\ At("acquire") => frame[CurrentFrame].available = "reset" /\ Has("swapchain")
  /\ cpu.at \in {"create", "acquire", "queuePresent"} => ~Has("retired")
  /\ cpu.at \in {"record", "clear", "reset"} =>
       /\ frame[CurrentFrame].complete = "signaled"
       /\ \A k \in DOMAIN submitted : /\ submitted[k].frame # CurrentFrame
                                      /\ submitted[k].image # CurrentImage
  /\ At("submit") => frame[CurrentFrame].complete = "reset" /\ image[CurrentImage].finished = "reset"
  /\ At("queuePresent") => image[CurrentImage].complete = "reset" /\ CurrentImage \notin presenting

(* A failed or finished attachment leaves none of its objects, a device      *)
(* comes with its command pool, Shutdown leaves nothing, no swapchain stays  *)
(* that was retired or not installed, and a window that still works keeps no *)
(* acquired image to itself (AttachWindow, EnsureDevice, RecreateSwapchain,  *)
(* Shutdown, PresentOnce).                                                   *)
NothingLeaks ==
  At("idle") => /\ ~window.attached => live \cap WindowObjects = {}
                /\ Has("device") => Has("pool")
                /\ live \cap {"replacement", "retired"} = {}
                /\ stopped => live = {}
                /\ ~window.failed => \A i \in Images : image[i].owner # "code"

(* No object is destroyed while it is used, or kept when it no longer is.    *)
ObjectsLiveLongEnough == UsedIsAlive /\ NothingLeaks

(* No call waits forever for a fence that nobody will signal, or goes round  *)
(* and round an out-of-date swapchain (RedrawPresentedWindow).               *)
CallsReturn == ~At("idle") ~> At("idle")
=============================================================================
