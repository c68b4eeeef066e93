------------------------------- MODULE Renderer -------------------------------
(***************************************************************************)
(* VulkanRenderer of crates/gpu/src/renderer/vulkan.rs: the steps of       *)
(* present_blank_frame, taken by a thread that holds GPU_CONTEXT, and the  *)
(* device and the display they wait for.  These two are external: the      *)
(* device runs a submission when its semaphore is signaled; the display    *)
(* shows the images in order (FIFO) and lets one go when it has the next.  *)
(***************************************************************************)
EXTENDS Integers

CONSTANT ImageCount   \* of the swapchain: min_image_count + 1 if the surface allows it

ASSUME RendererAssumption == ImageCount \in Nat /\ ImageCount >= 2

VARIABLES
    renderer,         \* is there one?  Without Vulkan or a window there is none.
    in_flight_fence,  \* is it signaled?
    image_available,  \* is this semaphore signaled?
    submitted,        \* submissions the device has not finished
    rendered,         \* signals of render_finished_semaphore that no present has waited for
    free,             \* images that can be acquired
    presented,        \* images that wait to be shown
    shown,            \* is one on the screen?
    out_of_date,      \* has the window been resized?
    frame_count

rendererVars == <<renderer, in_flight_fence, image_available, submitted, rendered, free,
                  presented, shown, out_of_date, frame_count>>

RendererInit ==
    /\ renderer \in BOOLEAN
    /\ in_flight_fence = TRUE
    /\ image_available = FALSE
    /\ submitted = 0 /\ rendered = 0
    /\ free = ImageCount
    /\ presented = 0 /\ shown = FALSE
    /\ out_of_date = FALSE
    /\ frame_count = 0

-----------------------------------------------------------------------------
(* present_blank_frame. *)

\* Mutant: the frame before is not waited for.
FrameDone_Always == TRUE

FrameDone == in_flight_fence

\* Mutant: the fence is reset where it was waited for.
FenceAfterWait_Reset == FALSE

FenceAfterWait == in_flight_fence

wait_for_fences ==
    /\ FrameDone
    /\ in_flight_fence' = FenceAfterWait
    /\ UNCHANGED <<renderer, image_available, submitted, rendered, free, presented, shown,
                   out_of_date, frame_count>>

acquire_next_image ==
    /\ ~out_of_date /\ free > 0
    /\ free' = free - 1
    /\ image_available' = TRUE
    /\ UNCHANGED <<renderer, in_flight_fence, submitted, rendered, presented, shown,
                   out_of_date, frame_count>>

\* ERROR_OUT_OF_DATE_KHR: the frame is dropped.
AcquireFails == out_of_date /\ UNCHANGED rendererVars

\* reset_fences and queue_submit
queue_submit ==
    /\ in_flight_fence' = FALSE
    /\ submitted' = submitted + 1
    /\ UNCHANGED <<renderer, image_available, rendered, free, presented, shown, out_of_date,
                   frame_count>>

\* What it returns is ignored.
queue_present ==
    /\ presented' = presented + 1
    /\ frame_count' = frame_count + 1
    /\ UNCHANGED <<renderer, in_flight_fence, image_available, submitted, rendered, free,
                   shown, out_of_date>>

-----------------------------------------------------------------------------
(* The device and the display. *)

Execute ==
    /\ submitted > 0 /\ image_available
    /\ image_available' = FALSE
    /\ submitted' = submitted - 1
    /\ in_flight_fence' = TRUE
    /\ rendered' = rendered + 1
    /\ UNCHANGED <<renderer, free, presented, shown, out_of_date, frame_count>>

Show ==
    /\ presented > 0 /\ rendered > 0
    /\ presented' = presented - 1
    /\ rendered' = rendered - 1
    /\ free' = IF shown THEN free + 1 ELSE free
    /\ shown' = TRUE
    /\ UNCHANGED <<renderer, in_flight_fence, image_available, submitted, out_of_date,
                   frame_count>>

Resize ==
    /\ renderer /\ ~out_of_date
    /\ out_of_date' = TRUE
    /\ UNCHANGED <<renderer, in_flight_fence, image_available, submitted, rendered, free,
                   presented, shown, frame_count>>

RendererType ==
    /\ {renderer, in_flight_fence, image_available, shown, out_of_date} \subseteq BOOLEAN
    /\ {submitted, rendered, presented, frame_count} \subseteq Nat
    /\ free \in 0 .. ImageCount

=============================================================================
