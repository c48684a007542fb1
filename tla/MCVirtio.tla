------------------------------ MODULE MCVirtio ------------------------------
\* A small instance of Virtio, for the configuration MCVirtio.cfg: three
\* requests fit, as five do with the driver's 16 descriptors, and one descriptor
\* is left over.
EXTENDS Virtio
=============================================================================
