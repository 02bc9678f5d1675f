------------------------ MODULE MCVulkanWindowPresenter ------------------------
(* A swapchain of two images, for as many frames in flight.                  *)
EXTENDS VulkanWindowPresenter
CONSTANTS left, right

MCImages == {left, right}
===============================================================================
