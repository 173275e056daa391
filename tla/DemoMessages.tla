---------------------------- MODULE DemoMessages ----------------------------
(***************************************************************************)
(* The messages and services of the shop's gRPC interface, as the code     *)
(* that ts-proto generates from demo.proto knows them.  For each message   *)
(* that code repeats one text (createBase, encode, decode, fromJSON,       *)
(* toJSON, fromPartial) filled in with the message's fields; here the      *)
(* fields are data, and the text is in module Wire, once.                  *)
(***************************************************************************)
EXTENDS SequencesExt

\* A field: its number, its name, its kind, whether it repeats, and the type of
\* the message it holds.
Field(no, name, kind, repeated, type) ==
  [no |-> no, name |-> name, kind |-> kind, repeated |-> repeated, type |-> type]

Text(no, name)         == Field(no, name, "string", FALSE, "none")
Texts(no, name)        == Field(no, name, "string", TRUE, "none")
Int32(no, name)        == Field(no, name, "int32", FALSE, "none")
Int64(no, name)        == Field(no, name, "int64", FALSE, "none")
Bool(no, name)         == Field(no, name, "bool", FALSE, "none")
One(no, name, type)    == Field(no, name, "message", FALSE, type)
Many(no, name, type)   == Field(no, name, "message", TRUE, type)

-----------------------------------------------------------------------------
(* The types of messages; a type comes after those it holds.                 *)

CartItem == <<Text(1, "productId"), Int32(2, "quantity")>>

AddItemRequest == <<Text(1, "userId"), One(2, "item", "CartItem")>>

EmptyCartRequest == <<Text(1, "userId")>>

GetCartRequest == <<Text(1, "userId")>>

Cart == <<Text(1, "userId"), Many(2, "items", "CartItem")>>

Empty == <<>>

ListRecommendationsRequest == <<Text(1, "userId"), Texts(2, "productIds")>>

ListRecommendationsResponse == <<Texts(1, "productIds")>>

Money == <<Text(1, "currencyCode"), Int64(2, "units"), Int32(3, "nanos")>>

Product ==
  <<Text(1, "id"), Text(2, "name"), Text(3, "description"),
    Text(4, "picture"), One(5, "priceUsd", "Money"), Texts(6, "categories")>>

ListProductsResponse == <<Many(1, "products", "Product")>>

GetProductRequest == <<Text(1, "id")>>

SearchProductsRequest == <<Text(1, "query")>>

SearchProductsResponse == <<Many(1, "results", "Product")>>

Address ==
  <<Text(1, "streetAddress"), Text(2, "city"), Text(3, "state"),
    Text(4, "country"), Text(5, "zipCode")>>

GetQuoteRequest == <<One(1, "address", "Address"), Many(2, "items", "CartItem")>>

GetQuoteResponse == <<One(1, "costUsd", "Money")>>

ShipOrderRequest == <<One(1, "address", "Address"), Many(2, "items", "CartItem")>>

ShipOrderResponse == <<Text(1, "trackingId")>>

GetSupportedCurrenciesResponse == <<Texts(1, "currencyCodes")>>

CurrencyConversionRequest == <<One(1, "from", "Money"), Text(2, "toCode")>>

CreditCardInfo ==
  <<Text(1, "creditCardNumber"), Int32(2, "creditCardCvv"),
    Int32(3, "creditCardExpirationYear"),
    Int32(4, "creditCardExpirationMonth")>>

ChargeRequest ==
  <<One(1, "amount", "Money"), One(2, "creditCard", "CreditCardInfo")>>

ChargeResponse == <<Text(1, "transactionId")>>

OrderItem == <<One(1, "item", "CartItem"), One(2, "cost", "Money")>>

OrderResult ==
  <<Text(1, "orderId"), Text(2, "shippingTrackingId"),
    One(3, "shippingCost", "Money"), One(4, "shippingAddress", "Address"),
    Many(5, "items", "OrderItem")>>

SendOrderConfirmationRequest ==
  <<Text(1, "email"), One(2, "order", "OrderResult")>>

PlaceOrderRequest ==
  <<Text(1, "userId"), Text(2, "userCurrency"), One(3, "address", "Address"),
    Text(5, "email"), One(6, "creditCard", "CreditCardInfo")>>

PlaceOrderResponse == <<One(1, "order", "OrderResult")>>

AdRequest == <<Texts(1, "contextKeys")>>

Ad == <<Text(1, "redirectUrl"), Text(2, "text")>>

AdResponse == <<Many(1, "ads", "Ad")>>

Flag == <<Text(1, "name"), Text(2, "description"), Bool(3, "enabled")>>

GetFlagRequest == <<Text(1, "name")>>

GetFlagResponse == <<One(1, "flag", "Flag")>>

CreateFlagRequest ==
  <<Text(1, "name"), Text(2, "description"), Bool(3, "enabled")>>

CreateFlagResponse == <<One(1, "flag", "Flag")>>

UpdateFlagRequest == <<Text(1, "name"), Bool(2, "enabled")>>

UpdateFlagResponse == <<>>

ListFlagsRequest == <<>>

ListFlagsResponse == <<Many(1, "flag", "Flag")>>

DeleteFlagRequest == <<Text(1, "name")>>

DeleteFlagResponse == <<>>

\* All of them, by name.
DemoTypes ==
  [CartItem |-> CartItem, AddItemRequest |-> AddItemRequest,
   EmptyCartRequest |-> EmptyCartRequest, GetCartRequest |-> GetCartRequest,
   Cart |-> Cart, Empty |-> Empty,
   ListRecommendationsRequest |-> ListRecommendationsRequest,
   ListRecommendationsResponse |-> ListRecommendationsResponse, Money |-> Money,
   Product |-> Product, ListProductsResponse |-> ListProductsResponse,
   GetProductRequest |-> GetProductRequest,
   SearchProductsRequest |-> SearchProductsRequest,
   SearchProductsResponse |-> SearchProductsResponse, Address |-> Address,
   GetQuoteRequest |-> GetQuoteRequest, GetQuoteResponse |-> GetQuoteResponse,
   ShipOrderRequest |-> ShipOrderRequest, ShipOrderResponse |-> ShipOrderResponse,
   GetSupportedCurrenciesResponse |-> GetSupportedCurrenciesResponse,
   CurrencyConversionRequest |-> CurrencyConversionRequest,
   CreditCardInfo |-> CreditCardInfo, ChargeRequest |-> ChargeRequest,
   ChargeResponse |-> ChargeResponse, OrderItem |-> OrderItem,
   OrderResult |-> OrderResult,
   SendOrderConfirmationRequest |-> SendOrderConfirmationRequest,
   PlaceOrderRequest |-> PlaceOrderRequest, PlaceOrderResponse |-> PlaceOrderResponse,
   AdRequest |-> AdRequest, Ad |-> Ad, AdResponse |-> AdResponse, Flag |-> Flag,
   GetFlagRequest |-> GetFlagRequest, GetFlagResponse |-> GetFlagResponse,
   CreateFlagRequest |-> CreateFlagRequest, CreateFlagResponse |-> CreateFlagResponse,
   UpdateFlagRequest |-> UpdateFlagRequest, UpdateFlagResponse |-> UpdateFlagResponse,
   ListFlagsRequest |-> ListFlagsRequest, ListFlagsResponse |-> ListFlagsResponse,
   DeleteFlagRequest |-> DeleteFlagRequest, DeleteFlagResponse |-> DeleteFlagResponse]

-----------------------------------------------------------------------------
(* The services: of each method, the request and the response.               *)

Method(request, response) == [request |-> request, response |-> response]

CartService ==
  <<Method("AddItemRequest", "Empty"), Method("GetCartRequest", "Cart"),
    Method("EmptyCartRequest", "Empty")>>

RecommendationService == <<Method("ListRecommendationsRequest", "ListRecommendationsResponse")>>

ProductCatalogService ==
  <<Method("Empty", "ListProductsResponse"), Method("GetProductRequest", "Product"),
    Method("SearchProductsRequest", "SearchProductsResponse")>>

ShippingService ==
  <<Method("GetQuoteRequest", "GetQuoteResponse"), Method("ShipOrderRequest", "ShipOrderResponse")>>

CurrencyService ==
  <<Method("Empty", "GetSupportedCurrenciesResponse"),
    Method("CurrencyConversionRequest", "Money")>>

PaymentService == <<Method("ChargeRequest", "ChargeResponse")>>

EmailService == <<Method("SendOrderConfirmationRequest", "Empty")>>

CheckoutService == <<Method("PlaceOrderRequest", "PlaceOrderResponse")>>

AdService == <<Method("AdRequest", "AdResponse")>>

FeatureFlagService ==
  <<Method("GetFlagRequest", "GetFlagResponse"),
    Method("CreateFlagRequest", "CreateFlagResponse"),
    Method("UpdateFlagRequest", "UpdateFlagResponse"),
    Method("ListFlagsRequest", "ListFlagsResponse"),
    Method("DeleteFlagRequest", "DeleteFlagResponse")>>

DemoMethods ==
  FlattenSeq(<<CartService, RecommendationService, ProductCatalogService, ShippingService,
               CurrencyService, PaymentService, EmailService, CheckoutService, AdService,
               FeatureFlagService>>)
=============================================================================
