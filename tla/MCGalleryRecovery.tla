-------------------------- MODULE MCGalleryRecovery --------------------------
EXTENDS GalleryRecovery
==============================================================================
